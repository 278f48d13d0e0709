------------------------------ MODULE SshProofs ------------------------------
(***************************************************************************)
(* What SshSession guarantees for every number of commands and every set   *)
(* of ways to log in, and SftpTransfer for every number of transfers,      *)
(* names, chunks and cancellations.                                        *)
(***************************************************************************)
EXTENDS SshSession, SftpTransfer, SequenceTheorems, TLAPS

(* Nothing has been asked of a session that connect has not returned. *)
BeforeLive ==
    step # "live" => pump = "none" /\ queue = <<>> /\ issued = <<>> /\ remote = <<>>

(* What arrived is the beginning of what was issued, entry by entry. *)
Arrived ==
    /\ Len(remote) <= Len(issued)
    /\ \A n \in 1..Len(remote) : remote[n] = issued[n]

(* Until the channel or the connection goes, the rest is in the queue. *)
Waiting ==
    channel = "open" /\ socket = "up" /\ pump = "running" =>
        /\ Len(issued) = Len(remote) + Len(queue)
        /\ \A n \in 1..Len(queue) : queue[n] = issued[Len(remote) + n]

SessionInv == SshTypeOK /\ BeforeLive /\ Arrived /\ Waiting
------------------------------------------------------------------------------
LEMMA ClassifiedIsCode == \A e \in RusshErrors : Classify(e) \in ErrorCodes
  BY DEF RusshErrors, Classify, ErrorCodes

LEMMA SessionInit == SshInit => SessionInv
  <1>1. SshInit => SshTypeOK
    <2> SUFFICES ASSUME SshInit PROVE SshTypeOK
      OBVIOUS
    <2>1. queue \in Seq(Commands) /\ issued \in Seq(Commands) /\ remote \in Seq(Commands)
      BY DEF SshInit
    <2>2. /\ step \in ConnectSteps /\ method \in Methods /\ valid \in BOOLEAN
          /\ granted \in BOOLEAN /\ error \in ErrorCodes \cup {NoError}
      BY DEF SshInit, ConnectSteps
    <2>3. /\ owner \in {"caller", "disconnecting", "nobody"} /\ pump \in {"none", "running", "ended"}
          /\ channel \in {"none", "open", "closed"} /\ socket \in {"none", "up", "down", "lost"}
          /\ room \in BOOLEAN
      BY DEF SshInit
    <2>4. QED  BY <2>1, <2>2, <2>3 DEF SshTypeOK
  <1>2. SshInit => BeforeLive /\ Arrived /\ Waiting
    BY DEF SshInit, BeforeLive, Arrived, Waiting
  <1>3. QED  BY <1>1, <1>2 DEF SessionInv

(* The steps of connect end in a session with an empty queue, or in an error. *)
LEMMA ConnectStep == SessionInv /\ Connect => SessionInv'
  <1> SUFFICES ASSUME SessionInv, Connect PROVE SessionInv'
    OBVIOUS
  <1>1. step # "live"
    BY DEF Connect, Check, Dial, Resolve, Login, Open, RequestPty, SetEnvironment, Start
  <1>2. /\ UNCHANGED <<method, valid, owner, queue, issued, remote, room>>
        /\ step' \in ConnectSteps /\ granted' \in BOOLEAN /\ error' \in ErrorCodes \cup {NoError}
        /\ socket' \in {"none", "up", "down", "lost"}
        /\ \/ pump' = "none" /\ channel' = channel /\ step' # "live"
           \/ pump' = "running" /\ channel' = "open" /\ step' = "live"
    <2> USE <1>1, ClassifiedIsCode
        DEF SessionInv, SshTypeOK, BeforeLive, Connecting, Stays, StepTo, Fail, FailAsRussh
    <2>1. CASE Check
      BY <2>1 DEF Check, ConnectSteps, ErrorCodes
    <2>2. CASE Dial
      BY <2>2 DEF Dial, ConnectSteps, ErrorCodes
    <2>3. CASE Resolve
      BY <2>3 DEF Resolve, ConnectSteps, ErrorCodes
    <2>4. CASE Login
      BY <2>4 DEF Login, ConnectSteps, ErrorCodes
    <2>5. CASE Open
      BY <2>5 DEF Open, ConnectSteps, ErrorCodes
    <2>6. CASE RequestPty
      BY <2>6 DEF RequestPty, ConnectSteps, ErrorCodes
    <2>7. CASE SetEnvironment
      BY <2>7 DEF SetEnvironment, ConnectSteps, ErrorCodes
    <2>8. CASE Start
      BY <2>8 DEF Start, ConnectSteps, ErrorCodes
    <2>9. QED
      BY <2>1, <2>2, <2>3, <2>4, <2>5, <2>6, <2>7, <2>8 DEF Connect
  <1>3. queue = <<>> /\ issued = <<>> /\ remote = <<>>
    BY <1>1 DEF SessionInv, BeforeLive
  <1>4. SshTypeOK'
    BY <1>2 DEF SessionInv, SshTypeOK
  <1>5. BeforeLive' /\ Arrived' /\ Waiting'
    BY <1>2, <1>3 DEF BeforeLive, Arrived, Waiting
  <1>6. QED  BY <1>4, <1>5 DEF SessionInv

(* An issued command goes to the end of both. *)
LEMMA IssueStep ==
    ASSUME SessionInv, NEW kind \in {"data", "resize", "eof"}, Issue(kind)
    PROVE  SessionInv'
  <1> DEFINE c == <<kind, Len(issued) + 1>>
  <1>1. CASE pump # "running"
    BY <1>1 DEF Issue, Live, connectVars, SessionInv, SshTypeOK, BeforeLive, Arrived, Waiting
  <1>2. CASE pump = "running"
    <2>1. /\ queue \in Seq(Commands) /\ issued \in Seq(Commands) /\ remote \in Seq(Commands)
          /\ Len(queue) \in Nat /\ Len(issued) \in Nat /\ Len(remote) \in Nat
      BY DEF SessionInv, SshTypeOK
    <2>2. c \in Commands
      BY <2>1 DEF Commands
    <2>3. /\ queue' = Append(queue, c) /\ issued' = Append(issued, c)
          /\ UNCHANGED <<connectVars, owner, pump, channel, socket, remote, room>>
          /\ step = "live"
      BY <1>2 DEF Issue, Live
    <2> HIDE DEF c
    <2>4. /\ queue' \in Seq(Commands) /\ Len(queue') = Len(queue) + 1
          /\ issued' \in Seq(Commands) /\ Len(issued') = Len(issued) + 1
          /\ \A n \in 1..Len(queue) : queue'[n] = queue[n]
          /\ \A n \in 1..Len(issued) : issued'[n] = issued[n]
          /\ queue'[Len(queue) + 1] = c /\ issued'[Len(issued) + 1] = c
      BY <2>1, <2>2, <2>3
    <2>5. SshTypeOK' /\ BeforeLive'
      BY <2>3, <2>4 DEF connectVars, SessionInv, SshTypeOK, BeforeLive
    <2>6. Arrived'
      BY <2>1, <2>3, <2>4 DEF SessionInv, Arrived
    <2>7. Waiting'
      <3>1. SUFFICES ASSUME channel = "open", socket = "up"
                     PROVE  /\ Len(issued') = Len(remote') + Len(queue')
                            /\ \A n \in 1..Len(queue') :
                                  queue'[n] = issued'[Len(remote') + n]
        BY <2>3 DEF Waiting
      <3>2. /\ Len(issued) = Len(remote) + Len(queue)
            /\ \A n \in 1..Len(queue) : queue[n] = issued[Len(remote) + n]
        BY <1>2, <3>1 DEF SessionInv, Waiting
      <3>3. ASSUME NEW n \in 1..Len(queue')
            PROVE  queue'[n] = issued'[Len(remote) + n]
        <4>1. CASE n \in 1..Len(queue)
          <5>1. Len(remote) + n \in 1..Len(issued)
            BY <2>1, <3>2, <4>1
          <5>2. QED  BY <2>4, <3>2, <4>1, <5>1
        <4>2. CASE n = Len(queue) + 1
          <5>1. Len(remote) + n = Len(issued) + 1
            BY <2>1, <3>2, <4>2
          <5>2. QED  BY <2>4, <4>2, <5>1
        <4>3. QED  BY <2>1, <2>4, <4>1, <4>2
      <3>4. QED  BY <2>1, <2>3, <2>4, <3>2, <3>3
    <2>8. QED  BY <2>5, <2>6, <2>7 DEF SessionInv
  <1>3. QED  BY <1>1, <1>2

(* The pump applies the oldest command, or drops what is left of the queue. *)
LEMMA PumpStep == SessionInv /\ Pump => SessionInv'
  <1> SUFFICES ASSUME SessionInv, Pump PROVE SessionInv'
    OBVIOUS
  <1> DEFINE c == Head(queue)
  <1>1. /\ queue \in Seq(Commands) /\ issued \in Seq(Commands) /\ remote \in Seq(Commands)
        /\ Len(queue) \in Nat /\ Len(issued) \in Nat /\ Len(remote) \in Nat
    BY DEF SessionInv, SshTypeOK
  <1>2. /\ queue # <<>> /\ step = "live" /\ pump = "running"
        /\ UNCHANGED <<connectVars, owner, channel, socket, issued>>
    BY DEF Pump, Live
  <1>3. /\ Tail(queue) \in Seq(Commands) /\ Len(Tail(queue)) = Len(queue) - 1
        /\ \A n \in 1..Len(queue) - 1 : Tail(queue)[n] = queue[n + 1]
        /\ c \in Commands /\ c = queue[1] /\ Len(queue) >= 1
    BY <1>1, <1>2
  <1>0. room' \in BOOLEAN
    BY DEF Pump, Deliver, SessionInv, SshTypeOK
  <1>4. CASE channel = "open" /\ socket = "up" /\ remote' = Append(remote, c)
             /\ queue' = Tail(queue) /\ pump' = pump
    <2> HIDE DEF c
    <2>1. /\ remote' \in Seq(Commands) /\ Len(remote') = Len(remote) + 1
          /\ \A n \in 1..Len(remote) : remote'[n] = remote[n]
          /\ remote'[Len(remote) + 1] = c
      BY <1>1, <1>3, <1>4
    <2>2. /\ Len(issued) = Len(remote) + Len(queue)
          /\ \A n \in 1..Len(queue) : queue[n] = issued[Len(remote) + n]
      BY <1>2, <1>4 DEF SessionInv, Waiting
    <2>3. c = issued[Len(remote) + 1]
      BY <1>1, <1>3, <2>2
    <2>4. SshTypeOK' /\ BeforeLive'
      BY <1>0, <1>2, <1>3, <1>4, <2>1 DEF connectVars, SessionInv, SshTypeOK, BeforeLive
    <2>5. Arrived'
      BY <1>1, <1>2, <1>3, <2>1, <2>2, <2>3 DEF SessionInv, Arrived
    <2>6. Len(queue') = Len(queue) - 1
      BY <1>3, <1>4
    <2>7. ASSUME NEW n \in 1..Len(queue')
          PROVE  queue'[n] = issued'[Len(remote') + n]
      <3>1. queue'[n] = queue[n + 1] /\ n + 1 \in 1..Len(queue)
        BY <1>1, <1>3, <1>4, <2>6
      <3>2. queue[n + 1] = issued[Len(remote) + (n + 1)]
        BY <2>2, <3>1
      <3>3. Len(remote) + (n + 1) = Len(remote') + n
        BY <1>1, <2>1, <2>6
      <3>4. QED  BY <1>2, <3>1, <3>2, <3>3
    <2>8. Waiting'
      <3>1. Len(issued') = Len(remote') + Len(queue')
        BY <1>1, <1>2, <2>1, <2>2, <2>6
      <3>2. QED  BY ONLY <2>7, <3>1 DEF Waiting
    <2>9. QED  BY <2>4, <2>5, <2>8 DEF SessionInv
  <1>5. CASE /\ remote' = remote /\ (channel = "closed" \/ socket # "up")
             /\ \/ queue' = Tail(queue) /\ pump' = pump
                \/ queue' = <<>> /\ pump' = "ended"
    <2>1. SshTypeOK' /\ BeforeLive'
      <3>0. <<>> \in Seq(Commands)
        OBVIOUS
      <3>1. queue' \in Seq(Commands) /\ pump' \in {"none", "running", "ended"}
        <4>1. CASE queue' = Tail(queue) /\ pump' = pump
          BY <1>2, <1>3, <4>1
        <4>2. CASE queue' = <<>> /\ pump' = "ended"
          BY <3>0, <4>2
        <4>3. QED  BY <1>5, <4>1, <4>2
      <3>2. QED  BY <1>0, <1>2, <1>5, <3>1 DEF connectVars, SessionInv, SshTypeOK, BeforeLive
    <2>2. Arrived' /\ Waiting'
      BY <1>2, <1>5 DEF SessionInv, Arrived, Waiting
    <2>3. QED  BY <2>1, <2>2 DEF SessionInv
  <1>6. QED  BY <1>2, <1>4, <1>5 DEF Pump, Deliver

(* The other steps of a live session open and accept nothing. *)
LEMMA OtherStep ==
    ASSUME SessionInv,
           PeerReads \/ PumpEnds \/ CloseChannel \/ Disconnect \/ Drop \/ LastHandleGone \/ RemoteEnds
    PROVE  SessionInv'
  <1>1. /\ UNCHANGED <<connectVars, queue, issued, remote>> /\ step = "live"
        /\ owner' \in {"caller", "disconnecting", "nobody"}
        /\ pump' \in {pump, "ended"} /\ channel' \in {channel, "closed"}
        /\ socket' \in {socket, "down", "lost"} /\ room' \in BOOLEAN
    BY DEF PeerReads, PumpEnds, CloseChannel, Disconnect, Drop, LastHandleGone, RemoteEnds, Live,
           SessionInv, SshTypeOK
  <1>2. SshTypeOK' /\ BeforeLive'
    BY <1>1 DEF connectVars, SessionInv, SshTypeOK, BeforeLive
  <1>3. Arrived' /\ Waiting'
    BY <1>1 DEF SessionInv, Arrived, Waiting
  <1>4. QED  BY <1>2, <1>3 DEF SessionInv

LEMMA SessionStep == SessionInv /\ [SshNext]_sshVars => SessionInv'
  <1>1. ASSUME SessionInv, UNCHANGED sshVars PROVE SessionInv'
    BY <1>1 DEF sshVars, connectVars, liveVars, SessionInv, SshTypeOK, BeforeLive, Arrived,
                Waiting
  <1>2. QED  BY <1>1, ConnectStep, IssueStep, PumpStep, OtherStep DEF SshNext

LEMMA SessionHolds == SshSpec => []SessionInv
  BY SessionInit, SessionStep, PTL DEF SshSpec

(* send, resize and send_eof, session.rs, and the pump: for every number of
   commands and however the session ends, what reaches the server is the
   beginning of what was issued, in that order; while channel, connection
   and pump last, nothing that was issued is missing. *)
THEOREM InputTheorem == SshSpec => []InputInOrder
  <1>1. SessionInv => InputInOrder
    <2> SUFFICES ASSUME SessionInv PROVE InputInOrder
      OBVIOUS
    <2>1. /\ queue \in Seq(Commands) /\ issued \in Seq(Commands) /\ remote \in Seq(Commands)
          /\ Len(queue) \in Nat /\ Len(issued) \in Nat /\ Len(remote) \in Nat
      BY DEF SessionInv, SshTypeOK
    <2>2. remote = SubSeq(issued, 1, Len(remote))
      BY <2>1 DEF SessionInv, Arrived
    <2>3. ASSUME channel = "open", socket = "up", pump = "running"
          PROVE  issued = remote \o queue
      <3>1. /\ Len(issued) = Len(remote) + Len(queue)
            /\ \A n \in 1..Len(remote) : issued[n] = remote[n]
            /\ \A n \in 1..Len(queue) : issued[Len(remote) + n] = queue[n]
        BY <2>3 DEF SessionInv, Arrived, Waiting
      <3>2. /\ remote \o queue \in Seq(Commands)
            /\ Len(remote \o queue) = Len(remote) + Len(queue)
            /\ \A n \in 1..Len(remote) + Len(queue) :
                  (remote \o queue)[n] = IF n <= Len(remote) THEN remote[n]
                                         ELSE queue[n - Len(remote)]
        BY <2>1, ConcatProperties
      <3>3. ASSUME NEW n \in 1..Len(issued)
            PROVE  issued[n] = (remote \o queue)[n]
        <4>1. CASE n <= Len(remote)
          BY <2>1, <3>1, <3>2, <4>1
        <4>2. CASE n > Len(remote)
          <5>1. n - Len(remote) \in 1..Len(queue) /\ Len(remote) + (n - Len(remote)) = n
            BY <2>1, <3>1, <4>2
          <5>2. issued[n] = queue[n - Len(remote)]
            BY <3>1, <5>1
          <5>3. n \in 1..(Len(remote) + Len(queue)) /\ ~(n <= Len(remote))
            BY <2>1, <3>1, <4>2
          <5>4. (remote \o queue)[n] = queue[n - Len(remote)]
            BY <3>2, <5>3
          <5>5. QED  BY <5>2, <5>4
        <4>3. n <= Len(remote) \/ n > Len(remote)
          BY <2>1
        <4>4. QED  BY <4>1, <4>2, <4>3
      <3>4. QED  BY <2>1, <3>1, <3>2, <3>3, SeqEqual
    <2>4. QED  BY <2>2, <2>3 DEF InputInOrder
  <1>2. QED  BY <1>1, SessionHolds, PTL
------------------------------------------------------------------------------
(* File transfers. *)

SftpTypes ==
    /\ at \in [Transfers -> Places]
    /\ copied \in [Transfers -> Nat]
    /\ sink \in [Transfers -> Files \cup {Nothing}]
    /\ dir \in [Names -> Files \cup {Nothing}]
    /\ data = [f \in Files |-> data[f]]
    /\ clashed \subseteq Transfers

(* Renamed, and who may have been: a failure may hide it. *)
Moved == {"renamed", "done"}
Reached == {"renamed", "done", "failed"}
Holding == {"looking", "copying", "replacing", "renaming"}

(* Transfers that use one temporary name at one time have clashed. *)
Sole ==
    \A u, v \in Transfers :
        u # v /\ u \notin clashed /\ Uses(u) /\ Uses(v) => Temporary[u] # Temporary[v]

(* A file has one name at most: it is renamed, never linked. *)
OneName == \A m, n \in Names : dir[m] = dir[n] /\ dir[m] # Nothing => m = n

(* A transfer that has not created its file has left no trace. *)
Fresh ==
    \A t \in Transfers : at[t] \in {"idle", "opening"} =>
        /\ copied[t] = 0
        /\ \A n \in Names : dir[n] # NewFile(t)
        /\ \A w \in Transfers : sink[w] # NewFile(t)

(* A file is written to in the loop, and reached by the temporary name of its
   writer if by any temporary name. *)
Sinks ==
    \A w \in Transfers :
        /\ sink[w] # Nothing => at[w] \in {"looking", "copying"}
        /\ at[w] = "replacing" => w \in Uploads
        /\ \A v \in Transfers :
              sink[w] # Nothing /\ sink[w] = dir[Temporary[v]] => Temporary[v] = Temporary[w]

Part(t, n) == [i \in 1..n |-> <<t, i>>]

(* The temporary name of a transfer leads to what the transfer has copied, and
   nobody else writes there. *)
Own(t) ==
    LET file == dir[Temporary[t]] IN
    /\ file # Nothing /\ data[file] = Part(t, copied[t])
    /\ copied[t] <= Length[t]
    /\ at[t] \in {"looking", "copying"} => sink[t] = file
    /\ at[t] \in {"replacing", "renaming"} => copied[t] = Length[t]
    /\ \A w \in Transfers \ {t} : sink[w] # file
Owned == \A t \in Transfers \ clashed : at[t] \in Holding => Own(t)

(* What the target may be. *)
AtTarget(t) ==
    LET file == dir[Target[t]] IN
    \/ file = Nothing /\ (at[t] \in Moved => t \in Uploads)
    \/ /\ file # Nothing /\ data[file] = Before(Target[t])
       /\ \A u \in Transfers : Target[u] = Target[t] => at[u] \notin Moved
    \/ /\ file # Nothing
       /\ \E u \in Transfers :
             Target[u] = Target[t] /\ at[u] \in Reached /\ data[file] = Whole(u)
Settled(t) ==
    /\ \A w \in Transfers : sink[w] # Nothing => sink[w] # dir[Target[t]]
    /\ AtTarget(t)
Targets == \A t \in Transfers : Clean(t) => Settled(t)

TransferInv ==
    /\ SftpTypes /\ Sole /\ OneName /\ Fresh /\ Sinks /\ Owned /\ Targets
------------------------------------------------------------------------------
LEMMA NamesAndFiles ==
    /\ \A t \in Transfers : /\ Target[t] \in Names /\ Temporary[t] \in Names
                            /\ NewFile(t) \in Files /\ NewFile(t) # Nothing
    /\ \A t, u \in Transfers : Target[t] # Temporary[u]
    /\ \A t, u \in Transfers : NewFile(t) = NewFile(u) => t = u
    /\ Nothing \notin Files
  <1>1. Nothing \notin Files
    BY SftpAssumption
  <1>2. \A t \in Transfers : NewFile(t) \in Files
    BY DEF Files
  <1>3. \A t, u \in Transfers : NewFile(t) = NewFile(u) => t = u
    BY DEF NewFile
  <1>4. \A t \in Transfers : Target[t] \in Names /\ Temporary[t] \in Names
    BY DEF Names
  <1>5. QED  BY <1>1, <1>2, <1>3, <1>4, SftpAssumption

LEMMA EmptyIsPart == \A t \in Transfers : Part(t, 0) = <<>>
  BY DEF Part

(* A write at the end of what was written makes it longer. *)
LEMMA PutNext ==
    ASSUME NEW t \in Transfers, NEW n \in Nat
    PROVE  Put(Part(t, n), n + 1, <<t, n + 1>>) = Part(t, n + 1)
  <1>1. Len(Part(t, n)) = n
    <2>1. Part(t, n) \in Seq(Transfers \X Nat)
      BY DEF Part
    <2>2. DOMAIN Part(t, n) = 1..n
      BY DEF Part
    <2>3. QED  BY <2>1, <2>2
  <1>2. Put(Part(t, n), n + 1, <<t, n + 1>>)
           = [j \in 1..(n + 1) |-> IF j = n + 1 THEN <<t, n + 1>>
                                   ELSE IF j <= n THEN Part(t, n)[j] ELSE Nothing]
    BY <1>1 DEF Put
  <1>3. \A j \in 1..(n + 1) :
           (IF j = n + 1 THEN <<t, n + 1>> ELSE IF j <= n THEN Part(t, n)[j] ELSE Nothing)
              = <<t, j>>
    BY DEF Part
  <1>4. QED  BY <1>2, <1>3 DEF Part

LEMMA TransferInit == SftpInit => TransferInv
  <1> SUFFICES ASSUME SftpInit PROVE TransferInv
    OBVIOUS
  <1> USE NamesAndFiles DEF SftpInit
  <1>0. \A n \in Names : dir[n] \in {Nothing, OldFile(n)} /\ OldFile(n) \in Files
    BY DEF Files
  <1>1. SftpTypes
    <2>1. dir \in [Names -> Files \cup {Nothing}]
      BY DEF Files
    <2>2. QED  BY <2>1 DEF SftpTypes, Places
  <1>2. Sole /\ Sinks /\ Owned
    BY DEF Sole, Uses, Running, Finished, Sinks, Owned, Holding
  <1>3. OneName
    BY <1>0 DEF OneName, OldFile
  <1>4. Fresh
    <2>1. \A n \in Names, t \in Transfers : OldFile(n) # NewFile(t)
      BY DEF OldFile, NewFile
    <2>2. QED  BY <1>0, <2>1 DEF Fresh
  <1>5. ASSUME NEW t \in Transfers PROVE Settled(t)
    <2>1. dir[Target[t]] # Nothing => data[dir[Target[t]]] = Before(Target[t])
      <3>1. SUFFICES ASSUME dir[Target[t]] # Nothing
                     PROVE  data[dir[Target[t]]] = Before(Target[t])
        OBVIOUS
      <3>2. dir[Target[t]] = OldFile(Target[t]) /\ OldFile(Target[t]) \in Files
        BY <1>0, <3>1
      <3>3. OldFile(Target[t])[1] = "old" /\ OldFile(Target[t])[2] = Target[t]
        BY DEF OldFile
      <3>4. QED  BY <3>2, <3>3
    <2>2. \A u \in Transfers : at[u] \notin Moved /\ sink[u] = Nothing
      BY DEF Moved
    <2>3. QED  BY <2>1, <2>2 DEF Settled, AtTarget
  <1>6. QED  BY <1>1, <1>2, <1>3, <1>4, <1>5 DEF TransferInv, Targets

(* A transfer that begins, looks at the flag, hears of its rename or fails
   touches no file. *)
LEMMA NoFileTouched ==
    ASSUME TransferInv, NEW t \in Transfers, NEW place \in Places,
           at' = [at EXCEPT ![t] = place],
           sink' \in {sink, [sink EXCEPT ![t] = Nothing]},
           UNCHANGED <<dir, data, copied, clashed>>,
           at[t] \notin Finished,
           \/ at[t] = "idle" /\ place = "opening"
           \/ at[t] = "looking" /\ place = "removing" /\ sink'[t] = Nothing
           \/ at[t] = "looking" /\ place = "copying" /\ sink'[t] = sink[t]
           \/ at[t] = "renamed" /\ place = "done" /\ sink'[t] = sink[t]
           \/ Running(t) /\ place = "failed" /\ sink'[t] = Nothing
    PROVE  TransferInv'
  <1> USE DEF TransferInv, SftpTypes
  <1>0. \A u \in Transfers : u # t => at'[u] = at[u] /\ sink'[u] = sink[u]
    OBVIOUS
  <1>1. at'[t] = place /\ sink'[t] \in {sink[t], Nothing}
    OBVIOUS
  <1>2. SftpTypes'
    OBVIOUS
  <1>3. Sole'
    BY <1>0, <1>1 DEF Sole, Uses, Running, Finished
  <1>4. OneName' /\ Fresh'
    BY <1>0, <1>1, NamesAndFiles DEF OneName, Fresh, Running, Finished
  <1>5. Sinks'
    BY <1>0, <1>1 DEF Sinks
  <1>6. Owned'
    <2>1. SUFFICES ASSUME NEW u \in Transfers, u \notin clashed, at'[u] \in Holding
                   PROVE  Own(u)'
      BY DEF Owned
    <2>2. at[u] \in Holding
      BY <1>0, <1>1, <2>1 DEF Holding
    <2>3. Own(u)
      BY <2>1, <2>2 DEF Owned
    <2>4. CASE u = t
      <3>1. sink'[t] = sink[t] /\ at[t] = "looking" /\ at'[t] = "copying"
        BY <1>1, <2>1, <2>4 DEF Holding
      <3>2. QED  BY <1>0, <2>3, <2>4, <3>1 DEF Own
    <2>5. CASE u # t
      <3>1. \A w \in Transfers \ {u} : sink'[w] # dir[Temporary[u]]
        BY <1>0, <1>1, <2>3 DEF Own
      <3>2. QED  BY <1>0, <2>3, <2>5, <3>1 DEF Own
    <2>6. QED  BY <2>4, <2>5
  <1>7. Targets'
    <2>1. SUFFICES ASSUME NEW u \in Transfers, Clean(u)' PROVE Settled(u)'
      BY DEF Targets
    <2>2. Settled(u)
      BY <2>1 DEF Targets, Clean
    <2>3. \A v \in Transfers : /\ at'[v] \in Moved => at[v] \in Moved
                               /\ at[v] \in Reached => at'[v] \in Reached
      BY <1>0, <1>1 DEF Finished, Moved, Reached
    <2>4. QED  BY <1>0, <1>1, <2>2, <2>3 DEF Settled, AtTarget
  <1>8. QED  BY <1>2, <1>3, <1>4, <1>5, <1>6, <1>7

(* A name that is removed is the temporary name of a cancelled transfer, or the
   target of an upload. *)
LEMMA NameRemoved ==
    ASSUME TransferInv, NEW t \in Transfers, RemoveTemporary(t) \/ RemoveTarget(t)
    PROVE  TransferInv'
  <1> USE DEF TransferInv, SftpTypes
  <1> DEFINE name == IF at[t] = "removing" THEN Temporary[t] ELSE Target[t]
  <1>1. /\ name \in Names /\ dir' \in {dir, [dir EXCEPT ![name] = Nothing]}
        /\ UNCHANGED <<copied, sink, data, clashed>>
    BY NamesAndFiles DEF RemoveTemporary, RemoveTarget
  <1>2. /\ \/ at[t] = "removing" /\ at' = [at EXCEPT ![t] = "cancelled"]
           \/ at[t] = "replacing" /\ at' = [at EXCEPT ![t] = "renaming"]
    BY DEF RemoveTemporary, RemoveTarget, GoTo
  <1>3. /\ at[t] = "removing" => name = Temporary[t] /\ at'[t] = "cancelled"
        /\ at[t] = "replacing" => name = Target[t] /\ at'[t] = "renaming"
        /\ \A u \in Transfers : u # t => at'[u] = at[u]
    BY <1>2
  <1>4. at[t] \in {"removing", "replacing"}
    BY <1>2
  <1> HIDE DEF name
  <1>5. dir' \in [Names -> Files \cup {Nothing}]
        /\ \A n \in Names : dir'[n] = dir[n] \/ (n = name /\ dir'[n] = Nothing)
    BY <1>1
  <1>6. SftpTypes'
    BY <1>1, <1>2, <1>5 DEF Places, Finished
  <1>7. Sole'
    BY <1>1, <1>3, <1>4 DEF Sole, Uses, Running, Finished
  <1>8. OneName' /\ Fresh'
    BY <1>1, <1>3, <1>4, <1>5, NamesAndFiles DEF OneName, Fresh
  <1>9. Sinks'
    BY <1>1, <1>3, <1>4, <1>5, NamesAndFiles DEF Sinks
  <1>10. Owned'
    <2>1. SUFFICES ASSUME NEW u \in Transfers, u \notin clashed, at'[u] \in Holding
                   PROVE  Own(u)'
      BY <1>1 DEF Owned
    <2>2. at[u] \in Holding /\ (at'[u] = at[u] \/ (u = t /\ at[u] = "replacing" /\ at'[u] = "renaming"))
      BY <1>3, <1>4, <2>1 DEF Holding
    <2>3. Own(u)
      BY <2>1, <2>2 DEF Owned
    <2>4. name # Temporary[u]
      <3>1. CASE at[t] = "replacing"
        BY <1>3, <3>1, NamesAndFiles
      <3>2. CASE at[t] = "removing"
        <4>1. u # t /\ Uses(u) /\ Uses(t)
          BY <2>2, <3>2 DEF Uses, Running, Finished, Holding
        <4>2. QED  BY <1>3, <2>1, <3>2, <4>1 DEF Sole
      <3>3. QED  BY <1>4, <3>1, <3>2
    <2>5. dir'[Temporary[u]] = dir[Temporary[u]]
      BY <1>5, <2>4, NamesAndFiles
    <2>6. QED  BY <1>1, <2>2, <2>3, <2>5 DEF Own
  <1>11. Targets'
    <2>1. SUFFICES ASSUME NEW u \in Transfers, Clean(u)' PROVE Settled(u)'
      BY DEF Targets
    <2>2. Settled(u)
      BY <1>1, <2>1 DEF Targets, Clean
    <2>3. \A v \in Transfers : /\ at'[v] \in Moved => at[v] \in Moved
                               /\ at[v] \in Reached => at'[v] \in Reached
      BY <1>3, <1>4 DEF Moved, Reached
    <2>4. Target[u] \in Names
      BY NamesAndFiles
    <2>5. CASE dir'[Target[u]] = dir[Target[u]]
      BY <1>1, <2>2, <2>3, <2>5 DEF Settled, AtTarget
    <2>6. CASE name = Target[u] /\ dir'[Target[u]] = Nothing
      <3>1. at[t] = "replacing" /\ Target[t] = Target[u]
        BY <1>3, <1>4, <2>6, NamesAndFiles
      <3>2. u \in Uploads
        BY <3>1, SftpAssumption DEF Sinks
      <3>3. QED  BY <1>1, <2>6, <3>2 DEF Settled, AtTarget
    <2>7. QED  BY <1>5, <2>4, <2>5, <2>6
  <1>12. QED  BY <1>6, <1>7, <1>8, <1>9, <1>10, <1>11

(* A transfer makes its temporary file, or truncates the one that is there:
   who uses it then has clashed. *)
LEMMA FileCreated ==
    ASSUME TransferInv, NEW t \in Transfers, Create(t)
    PROVE  TransferInv'
  <1> USE DEF TransferInv, SftpTypes
  <1> DEFINE name == Temporary[t]
             file == IF dir[name] = Nothing THEN NewFile(t) ELSE dir[name]
             others == {u \in Transfers \ {t} : Temporary[u] = name /\ Uses(u)}
  <1>1. /\ at[t] = "opening" /\ at' = [at EXCEPT ![t] = "looking"]
        /\ dir' = [dir EXCEPT ![name] = file]
        /\ data' = [data EXCEPT ![file] = <<>>]
        /\ sink' = [sink EXCEPT ![t] = file]
        /\ clashed' = clashed \cup (IF others = {} THEN {} ELSE others \cup {t})
        /\ copied' = copied
    BY DEF Create, GoTo
  <1>2. name \in Names /\ file \in Files /\ file # Nothing
    BY NamesAndFiles
  <1>3. \A u \in Transfers : u # t /\ Uses(u) /\ Temporary[u] = name => u \in others
    BY DEF Uses
  <1>4. /\ clashed \subseteq clashed' /\ others \subseteq clashed' /\ clashed' \subseteq Transfers
        /\ others # {} => t \in clashed'
    BY <1>1
  <1>5. \A n \in Names : n # name => dir'[n] = dir[n] /\ dir'[n] # file
    BY <1>1, <1>2 DEF OneName, Fresh
  <1>6. dir'[name] = file /\ sink'[t] = file /\ at'[t] = "looking" /\ data'[file] = <<>>
    BY <1>1, <1>2
  <1>7. \A u \in Transfers : u # t => at'[u] = at[u] /\ sink'[u] = sink[u]
    BY <1>1
  <1>8. \A f \in Files : f # file => data'[f] = data[f]
    BY <1>1
  <1>9. \A u \in Transfers : u # t /\ sink[u] = file => Temporary[u] = name /\ Uses(u)
    <2>1. SUFFICES ASSUME NEW u \in Transfers, u # t, sink[u] = file
                   PROVE  Temporary[u] = name /\ Uses(u)
      OBVIOUS
    <2>2. dir[name] = file
      BY <1>1, <2>1 DEF Fresh
    <2>3. QED  BY <1>2, <2>1, <2>2 DEF Sinks, Uses, Running, Finished
  <1>10. SftpTypes'
    BY <1>1, <1>2, <1>4 DEF Places
  <1>11. \A u \in Transfers : u # t => (Uses(u)' <=> Uses(u))
    BY <1>7 DEF Uses, Running
  <1>12. file # NewFile(t) => dir[name] = file
    OBVIOUS
  <1> HIDE DEF name, file, others
  <1>13. Sole'
    <2>1. SUFFICES ASSUME NEW u \in Transfers, NEW v \in Transfers,
                          u # v, u \notin clashed', Uses(u)', Uses(v)'
                   PROVE  Temporary[u] # Temporary[v]
      BY DEF Sole
    <2>2. CASE u # t /\ v # t
      BY <1>4, <1>11, <2>1, <2>2 DEF Sole
    <2>3. CASE v = t
      BY <1>3, <1>4, <1>11, <2>1, <2>3 DEF name
    <2>4. CASE u = t
      BY <1>3, <1>4, <1>11, <2>1, <2>4 DEF name
    <2>5. QED  BY <2>2, <2>3, <2>4
  <1>14. OneName'
    BY <1>5, <1>6 DEF OneName
  <1>15. Fresh'
    <2>1. SUFFICES ASSUME NEW u \in Transfers, at'[u] \in {"idle", "opening"}
                   PROVE  /\ copied'[u] = 0 /\ \A n \in Names : dir'[n] # NewFile(u)
                          /\ \A w \in Transfers : sink'[w] # NewFile(u)
      BY DEF Fresh
    <2>2. u # t /\ at[u] \in {"idle", "opening"}
      BY <1>6, <1>7, <2>1
    <2>3. /\ copied[u] = 0 /\ \A n \in Names : dir[n] # NewFile(u)
          /\ \A w \in Transfers : sink[w] # NewFile(u)
      BY <2>2 DEF Fresh
    <2>4. NewFile(u) # NewFile(t)
      BY <2>2, NamesAndFiles
    <2>5. file # NewFile(u)
      BY <1>2, <1>12, <2>3, <2>4
    <2>6. QED  BY <1>1, <1>5, <1>6, <1>7, <2>3, <2>5
  <1>16. Sinks'
    <2>1. SUFFICES ASSUME NEW w \in Transfers
                   PROVE  /\ sink'[w] # Nothing => at'[w] \in {"looking", "copying"}
                          /\ at'[w] = "replacing" => w \in Uploads
                          /\ \A v \in Transfers :
                                sink'[w] # Nothing /\ sink'[w] = dir'[Temporary[v]]
                                   => Temporary[v] = Temporary[w]
      BY DEF Sinks
    <2>2. CASE w = t
      BY <1>5, <1>6, <2>2, NamesAndFiles DEF name
    <2>3. CASE w # t
      <3>1. ASSUME NEW v \in Transfers, sink'[w] # Nothing, sink'[w] = dir'[Temporary[v]]
            PROVE  Temporary[v] = Temporary[w]
        <4>1. Temporary[v] \in Names
          BY NamesAndFiles
        <4>2. CASE Temporary[v] = name
          BY <1>6, <1>7, <1>9, <2>3, <3>1, <4>2
        <4>3. CASE Temporary[v] # name
          BY <1>5, <1>7, <2>3, <3>1, <4>1, <4>3 DEF Sinks
        <4>4. QED  BY <4>2, <4>3
      <3>2. QED  BY <1>7, <2>3, <3>1 DEF Sinks
    <2>4. QED  BY <2>2, <2>3
  <1>17. Owned'
    <2>1. SUFFICES ASSUME NEW u \in Transfers, u \notin clashed', at'[u] \in Holding
                   PROVE  Own(u)'
      BY DEF Owned
    <2>2. CASE u = t
      <3>1. \A w \in Transfers \ {t} : sink'[w] # file
        BY <1>3, <1>4, <1>7, <1>9, <2>1, <2>2
      <3>2. copied'[t] = 0 /\ Length[t] \in Nat
        BY <1>1, SftpAssumption DEF Fresh
      <3>3. data'[file] = Part(t, copied'[t])
        BY <1>6, <3>2, EmptyIsPart
      <3>4. QED  BY <1>2, <1>6, <2>2, <3>1, <3>2, <3>3 DEF Own, name
    <2>3. CASE u # t
      <3>1. Uses(u) /\ at[u] \in Holding /\ at'[u] = at[u]
        BY <1>7, <2>1, <2>3 DEF Uses, Running, Finished, Holding
      <3>2. Own(u)
        BY <1>4, <2>1, <3>1 DEF Owned
      <3>3. Temporary[u] # name
        BY <1>3, <1>4, <2>1, <2>3, <3>1
      <3>4. dir'[Temporary[u]] = dir[Temporary[u]] /\ dir[Temporary[u]] # file
        BY <1>5, <3>3, NamesAndFiles
      <3>5. dir[Temporary[u]] \in Files
        BY <3>2, NamesAndFiles DEF Own
      <3>6. QED  BY <1>1, <1>6, <1>7, <1>8, <2>3, <3>1, <3>2, <3>4, <3>5 DEF Own
    <2>4. QED  BY <2>2, <2>3
  <1>18. Targets'
    <2>1. SUFFICES ASSUME NEW u \in Transfers, Clean(u)' PROVE Settled(u)'
      BY DEF Targets
    <2>2. Settled(u)
      BY <1>4, <2>1 DEF Targets, Clean
    <2>3. \A v \in Transfers : /\ at'[v] \in Moved => at[v] \in Moved
                               /\ at[v] \in Reached => at'[v] \in Reached
      BY <1>1, <1>6, <1>7 DEF Moved, Reached
    <2>4. Target[u] \in Names /\ Target[u] # name
      BY NamesAndFiles DEF name
    <2>5. dir'[Target[u]] = dir[Target[u]] /\ dir[Target[u]] # file
      BY <1>5, <2>4
    <2>6. dir[Target[u]] # Nothing => data'[dir[Target[u]]] = data[dir[Target[u]]]
      BY <1>8, <2>4, <2>5
    <2>7. \A w \in Transfers : sink'[w] # Nothing => sink'[w] # dir'[Target[u]]
      BY <1>6, <1>7, <2>2, <2>5 DEF Settled
    <2>8. AtTarget(u)'
      BY <2>2, <2>3, <2>5, <2>6 DEF Settled, AtTarget
    <2>9. QED  BY <2>7, <2>8 DEF Settled
  <1>19. QED  BY <1>10, <1>13, <1>14, <1>15, <1>16, <1>17, <1>18

(* A chunk is written to the writer's own file, or the source is at its end. *)
LEMMA ChunkCopied ==
    ASSUME TransferInv, NEW t \in Transfers, Copy(t)
    PROVE  TransferInv'
  <1> USE DEF TransferInv, SftpTypes
  <1> DEFINE n == copied[t]
             end == IF t \in Uploads THEN "replacing" ELSE "renaming"
             longer == Put(data[sink[t]], n + 1, <<t, n + 1>>)
  <1>1. at[t] = "copying" /\ dir' = dir /\ clashed' = clashed /\ n \in Nat /\ Length[t] \in Nat
    BY SftpAssumption DEF Copy
  <1>2. \/ /\ n < Length[t] /\ at' = [at EXCEPT ![t] = "looking"] /\ sink' = sink
           /\ data' = [data EXCEPT ![sink[t]] = longer]
           /\ copied' = [copied EXCEPT ![t] = n + 1]
        \/ /\ ~(n < Length[t]) /\ at' = [at EXCEPT ![t] = end]
           /\ sink' = [sink EXCEPT ![t] = Nothing] /\ UNCHANGED <<copied, data>>
    BY DEF Copy, GoTo
  <1> HIDE DEF longer
  <1>3. \A u \in Transfers : u # t => at'[u] = at[u] /\ sink'[u] = sink[u] /\ copied'[u] = copied[u]
    BY <1>2
  <1>4. /\ at'[t] \in {"looking", end} /\ sink'[t] \in {sink[t], Nothing}
        /\ at'[t] = "replacing" => t \in Uploads
        /\ at'[t] # "looking" => sink'[t] = Nothing
    BY <1>2
  <1>5. \A f \in Files : f # sink[t] => data'[f] = data[f]
    BY <1>2
  <1>6. end \in {"replacing", "renaming"}
    OBVIOUS
  <1>7. SftpTypes'
    BY <1>1, <1>2 DEF Places
  <1> HIDE DEF end
  <1>8. Sole'
    BY <1>1, <1>3, <1>4, <1>6 DEF Sole, Uses, Running, Finished
  <1>9. OneName' /\ Fresh'
    BY <1>1, <1>3, <1>4, <1>6, NamesAndFiles DEF OneName, Fresh
  <1>10. Sinks'
    BY <1>1, <1>3, <1>4, <1>6 DEF Sinks
  <1>11. Owned'
    <2>1. SUFFICES ASSUME NEW u \in Transfers, u \notin clashed, at'[u] \in Holding
                   PROVE  Own(u)'
      BY <1>1 DEF Owned
    <2>2. at[u] \in Holding
      BY <1>1, <1>3, <2>1 DEF Holding
    <2>3. Own(u)
      BY <2>1, <2>2 DEF Owned
    <2>4. dir[Temporary[u]] \in Files
      BY <2>3, NamesAndFiles DEF Own
    <2>5. \A w \in Transfers \ {u} : sink'[w] # dir[Temporary[u]]
      BY <1>3, <1>4, <2>3 DEF Own
    <2>6. CASE u # t
      <3>1. data'[dir[Temporary[u]]] = data[dir[Temporary[u]]]
        BY <1>5, <2>3, <2>4, <2>6 DEF Own
      <3>2. QED  BY <1>1, <1>3, <2>3, <2>5, <2>6, <3>1 DEF Own
    <2>7. CASE u = t
      <3>1. /\ sink[t] = dir[Temporary[t]] /\ data[sink[t]] = Part(t, n)
            /\ n <= Length[t] /\ sink[t] \in Files
        BY <1>1, <2>3, <2>4, <2>7 DEF Own
      <3>2. CASE n < Length[t]
        <4>1. /\ at'[t] = "looking" /\ sink'[t] = sink[t] /\ copied'[t] = n + 1
              /\ data'[sink[t]] = longer
          BY <1>2, <3>1, <3>2
        <4>2. longer = Part(t, n + 1)
          BY <1>1, <3>1, PutNext DEF longer
        <4>3. n + 1 <= Length[t]
          BY <1>1, <3>2
        <4>4. QED  BY <1>1, <2>3, <2>5, <2>7, <3>1, <4>1, <4>2, <4>3 DEF Own
      <3>3. CASE ~(n < Length[t])
        <4>1. /\ at'[t] = end /\ copied' = copied /\ data' = data /\ n = Length[t]
          BY <1>1, <1>2, <3>1, <3>3
        <4>2. QED  BY <1>1, <1>6, <2>3, <2>5, <2>7, <4>1 DEF Own
      <3>4. QED  BY <3>2, <3>3
    <2>8. QED  BY <2>6, <2>7
  <1>12. Targets'
    <2>1. SUFFICES ASSUME NEW u \in Transfers, Clean(u)' PROVE Settled(u)'
      BY DEF Targets
    <2>2. Settled(u)
      BY <1>1, <2>1 DEF Targets, Clean
    <2>3. \A v \in Transfers : /\ at'[v] \in Moved => at[v] \in Moved
                               /\ at[v] \in Reached => at'[v] \in Reached
      BY <1>1, <1>3, <1>4, <1>6 DEF Moved, Reached
    <2>4. at[t] \in {"looking", "copying"} /\ dir[Target[u]] # Nothing => sink[t] # dir[Target[u]]
      BY <2>2 DEF Settled
    <2>5. dir[Target[u]] # Nothing => data'[dir[Target[u]]] = data[dir[Target[u]]]
      BY <1>1, <1>5, <2>4, NamesAndFiles
    <2>6. \A w \in Transfers : sink'[w] # Nothing => sink'[w] # dir[Target[u]]
      BY <1>3, <1>4, <2>2 DEF Settled
    <2>7. AtTarget(u)'
      BY <1>1, <2>2, <2>3, <2>5 DEF Settled, AtTarget
    <2>8. QED  BY <1>1, <2>6, <2>7 DEF Settled
  <1>13. QED  BY <1>7, <1>8, <1>9, <1>10, <1>11, <1>12

(* The complete file takes the target's place, in one step. *)
LEMMA FileRenamed ==
    ASSUME TransferInv, NEW t \in Transfers, Rename(t)
    PROVE  TransferInv'
  <1> USE DEF TransferInv, SftpTypes
  <1> DEFINE from == Temporary[t]
             to == Target[t]
             file == dir[from]
  <1>1. /\ at[t] = "renaming" /\ at' = [at EXCEPT ![t] = "renamed"] /\ file # Nothing
        /\ dir' = [dir EXCEPT ![to] = file, ![from] = Nothing]
        /\ UNCHANGED <<copied, sink, data, clashed>>
    BY DEF Rename, GoTo
  <1>2. from \in Names /\ to \in Names /\ from # to /\ file \in Files
    BY <1>1, NamesAndFiles
  <1>3. /\ dir'[to] = file /\ dir'[from] = Nothing
        /\ \A m \in Names : m # to /\ m # from => dir'[m] = dir[m] /\ dir[m] # file
    <2>1. \A m \in Names : m # from => dir[m] # file
      BY <1>1, <1>2 DEF OneName
    <2>2. QED  BY <1>1, <1>2, <2>1
  <1>4. at'[t] = "renamed" /\ \A u \in Transfers : u # t => at'[u] = at[u]
    BY <1>1
  <1>5. SftpTypes'
    <2>1. dir' \in [Names -> Files \cup {Nothing}]
      BY <1>1, <1>2
    <2>2. at' \in [Transfers -> Places]
      BY <1>1 DEF Places, Finished
    <2>3. QED  BY <1>1, <2>1, <2>2
  <1>6. \A u \in Transfers : Target[u] # from /\ Temporary[u] # to
    BY NamesAndFiles
  <1> HIDE DEF from, to, file
  <1>7. Sole'
    BY <1>1, <1>4 DEF Sole, Uses, Running, Finished
  <1>8. OneName'
    BY <1>1, <1>3 DEF OneName
  <1>9. Fresh'
    <2>1. SUFFICES ASSUME NEW u \in Transfers, at'[u] \in {"idle", "opening"}
                   PROVE  /\ copied'[u] = 0 /\ \A m \in Names : dir'[m] # NewFile(u)
                          /\ \A w \in Transfers : sink'[w] # NewFile(u)
      BY DEF Fresh
    <2>2. at[u] \in {"idle", "opening"}
      BY <1>4, <2>1
    <2>3. file # NewFile(u)
      BY <1>2, <2>2 DEF Fresh, file
    <2>4. NewFile(u) # Nothing
      BY NamesAndFiles
    <2>5. QED  BY <1>1, <1>3, <2>2, <2>3, <2>4 DEF Fresh
  <1>10. Sinks'
    <2>1. \A v \in Transfers : dir'[Temporary[v]] \in {dir[Temporary[v]], Nothing}
      BY <1>3, <1>6, NamesAndFiles
    <2>2. \A w \in Transfers : sink[w] # Nothing => w # t
      BY <1>1 DEF Sinks
    <2>3. ASSUME NEW w \in Transfers, NEW v \in Transfers,
                 sink'[w] # Nothing, sink'[w] = dir'[Temporary[v]]
          PROVE  Temporary[v] = Temporary[w]
      <3>1. sink[w] # Nothing /\ sink[w] = dir[Temporary[v]]
        BY <1>1, <2>1, <2>3
      <3>2. QED  BY <3>1 DEF Sinks
    <2>4. \A w \in Transfers : /\ sink'[w] # Nothing => at'[w] \in {"looking", "copying"}
                               /\ at'[w] = "replacing" => w \in Uploads
      BY <1>1, <1>4, <2>2 DEF Sinks
    <2>5. QED  BY <2>3, <2>4 DEF Sinks
  <1>11. Owned'
    <2>1. SUFFICES ASSUME NEW u \in Transfers, u \notin clashed, at'[u] \in Holding
                   PROVE  Own(u)'
      BY <1>1 DEF Owned
    <2>2. u # t /\ at[u] = at'[u] /\ Uses(u) /\ Uses(t)
      BY <1>1, <1>4, <2>1 DEF Holding, Uses, Running, Finished
    <2>3. Own(u)
      BY <2>1, <2>2 DEF Owned
    <2>4. Temporary[u] # from
      BY <2>1, <2>2 DEF Sole, from
    <2>5. dir'[Temporary[u]] = dir[Temporary[u]]
      BY <1>3, <1>6, <2>4, NamesAndFiles
    <2>6. QED  BY <1>1, <2>2, <2>3, <2>5 DEF Own
  <1>12. Targets'
    <2>1. SUFFICES ASSUME NEW u \in Transfers, Clean(u)' PROVE Settled(u)'
      BY DEF Targets
    <2>2. Settled(u) /\ Clean(u)
      BY <1>1, <2>1 DEF Targets, Clean
    <2>3. \A v \in Transfers : v # t => at'[v] = at[v]
      BY <1>4
    <2>4. CASE Target[u] # to
      <3>1. dir'[Target[u]] = dir[Target[u]]
        BY <1>3, <1>6, <2>4, NamesAndFiles
      <3>2. \A v \in Transfers : Target[v] = Target[u] => at'[v] = at[v]
        BY <2>3, <2>4 DEF to
      <3>3. QED  BY <1>1, <2>2, <3>1, <3>2 DEF Settled, AtTarget
    <2>5. CASE Target[u] = to
      <3>1. t \notin clashed
        BY <2>2, <2>5 DEF Clean, to
      <3>2. Own(t)
        BY <1>1, <3>1 DEF Owned, Holding
      <3>3. /\ data[file] = Whole(t) /\ \A w \in Transfers \ {t} : sink[w] # file
        BY <1>1, <3>2 DEF Own, Part, Whole, file, from
      <3>4. sink[t] = Nothing
        BY <1>1 DEF Sinks
      <3>5. \A w \in Transfers : sink'[w] # Nothing => sink'[w] # dir'[Target[u]]
        BY <1>1, <1>3, <2>5, <3>3, <3>4
      <3>6. AtTarget(u)'
        <4>1. dir'[Target[u]] = file /\ file # Nothing
          BY <1>1, <1>3, <2>5
        <4>2. Target[t] = Target[u] /\ at'[t] \in Reached /\ data'[file] = Whole(t)
          BY <1>1, <1>4, <2>5, <3>3 DEF to, Reached
        <4>3. \E v \in Transfers :
                 Target[v] = Target[u] /\ at'[v] \in Reached /\ data'[file] = Whole(v)
          BY <4>2
        <4>4. QED  BY <4>1, <4>3 DEF AtTarget
      <3>7. QED  BY <3>5, <3>6 DEF Settled
    <2>6. QED  BY <2>4, <2>5
  <1>13. QED  BY <1>5, <1>7, <1>8, <1>9, <1>10, <1>11, <1>12

LEMMA TransferInvStep == TransferInv /\ [SftpNext]_sftpVars => TransferInv'
  <1> SUFFICES ASSUME TransferInv, [SftpNext]_sftpVars PROVE TransferInv'
    OBVIOUS
  <1>1. ASSUME UNCHANGED <<at, copied, sink, dir, data, clashed>> PROVE TransferInv'
    <2>1. SftpTypes' /\ Sole' /\ OneName' /\ Fresh' /\ Sinks'
      BY <1>1 DEF TransferInv, SftpTypes, Sole, Uses, Running, OneName, Fresh, Sinks
    <2>2. \A t \in Transfers : Own(t) => Own(t)'
      BY <1>1 DEF Own
    <2>3. Owned'
      BY <1>1, <2>2 DEF TransferInv, Owned
    <2>4. \A t \in Transfers : (Clean(t)' => Clean(t)) /\ (Settled(t) => Settled(t)')
      BY <1>1 DEF Clean, Settled, AtTarget
    <2>5. Targets'
      BY <2>4 DEF TransferInv, Targets
    <2>6. QED  BY <2>1, <2>3, <2>5 DEF TransferInv
  <1>2. ASSUME NEW t \in Transfers, Begin(t) \/ Look(t) \/ Answered(t) \/ Fails(t) PROVE TransferInv'
    <2> USE DEF GoTo, SameFlag
    <2>1. at[t] \notin Finished
      BY <1>2 DEF Begin, Look, Answered, Fails, Running, Finished
    <2>2. sink[t] \in Files \cup {Nothing} /\ sink \in [Transfers -> Files \cup {Nothing}]
      BY DEF TransferInv, SftpTypes
    <2>3. CASE Begin(t)
      <3>1. /\ at' = [at EXCEPT ![t] = "opening"] /\ sink' = sink /\ at[t] = "idle"
            /\ UNCHANGED <<dir, data, copied, clashed>>
        BY <2>3 DEF Begin
      <3>2. QED  BY <2>1, <3>1, NoFileTouched DEF Places
    <2>4. CASE Fails(t)
      <3>1. /\ at' = [at EXCEPT ![t] = "failed"] /\ sink' = [sink EXCEPT ![t] = Nothing]
            /\ Running(t) /\ UNCHANGED <<dir, data, copied, clashed>>
        BY <2>4 DEF Fails
      <3>2. sink'[t] = Nothing
        BY <2>2, <3>1
      <3>3. QED  BY <2>1, <3>1, <3>2, NoFileTouched DEF Places, Finished
    <2>5. CASE Look(t) /\ flag
      <3>1. /\ at' = [at EXCEPT ![t] = "removing"] /\ sink' = [sink EXCEPT ![t] = Nothing]
            /\ at[t] = "looking" /\ UNCHANGED <<dir, data, copied, clashed>>
        BY <2>5 DEF Look
      <3>2. sink'[t] = Nothing
        BY <2>2, <3>1
      <3>3. QED  BY <2>1, <3>1, <3>2, NoFileTouched DEF Places
    <2>6. CASE Look(t) /\ ~flag
      <3>1. /\ at' = [at EXCEPT ![t] = "copying"] /\ sink' = sink
            /\ at[t] = "looking" /\ UNCHANGED <<dir, data, copied, clashed>>
        BY <2>6 DEF Look
      <3>2. QED  BY <2>1, <3>1, NoFileTouched DEF Places
    <2>7. CASE Answered(t)
      <3>1. /\ at' = [at EXCEPT ![t] = "done"] /\ sink' = sink
            /\ at[t] = "renamed" /\ UNCHANGED <<dir, data, copied, clashed>>
        BY <2>7 DEF Answered
      <3>2. QED  BY <2>1, <3>1, NoFileTouched DEF Places, Finished
    <2>8. QED  BY <1>2, <2>3, <2>4, <2>5, <2>6, <2>7
  <1>3. ASSUME Cancel PROVE TransferInv'
    BY <1>1, <1>3 DEF Cancel
  <1>4. ASSUME UNCHANGED sftpVars PROVE TransferInv'
    BY <1>1, <1>4 DEF sftpVars
  <1>5. QED
    BY <1>2, <1>3, <1>4, NameRemoved, FileCreated, ChunkCopied, FileRenamed
       DEF SftpNext, TransferStep

(* upload and download, sftp.rs: for every number of transfers of one client,
   files of every length, failures at every await, before or after what was asked
   for was done, and cancellations at any moment: a target whose transfers shared
   no temporary name is absent (uploads only); or the old file, and no transfer
   to it has reported success; or the complete source of a transfer that got as
   far as its rename. *)
THEOREM TargetTheorem == SftpSpec => []TargetIsWhole
  <1>1. TransferInv => TargetIsWhole
    BY DEF TransferInv, Targets, Settled, AtTarget, TargetIsWhole, Moved, Reached
  <1>2. QED  BY <1>1, TransferInit, TransferInvStep, PTL DEF SftpSpec
==============================================================================
