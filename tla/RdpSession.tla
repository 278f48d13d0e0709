----------------------------- MODULE RdpSession -----------------------------
(***************************************************************************)
(* One RDP session, rdt-rdp/src/session.rs: the object the application     *)
(* holds, the task that pumps PDUs in both directions, the framebuffer     *)
(* between them and the queue of events.                                   *)
(*                                                                         *)
(* Threads of the application call send, resize and disconnect; its owner  *)
(* consumes the events and may drop the session at any moment; the         *)
(* renderer takes the framebuffer's damage (rdt-ui/src/pages.rs).  The     *)
(* task waits for a command or a PDU, applies what the decoder made of it, *)
(* one output at a time, and on its way out says that the session ended.   *)
(***************************************************************************)
EXTENDS Framebuffer, FiniteSets

CONSTANTS
  Callers,    \* threads that call send, resize and disconnect
  Sizes,      \* desktop sizes, as <<width, height>>
  Updates,    \* bitmap updates: [rect, data]
  MaxOutputs, \* bound: outputs the decoder makes of one PDU
  MaxCalls,   \* bound: calls of the application
  MaxEvents   \* bound: events in the queue when the task takes new work

(* SizesFit is an assumption about the server: its sizes are two 16-bit    *)
(* numbers, and 32768 by 32768 does not fit.                               *)
ASSUME SizesFit == \A size \in Sizes : size[1] * size[2] < Word

ASSUME RdpAssumption ==
  /\ Sizes \subseteq (Nat \ {0}) \X (Nat \ {0})
  /\ \A u \in Updates : u.rect \in Rect /\ u.data \in Seq(Colours)
  /\ MaxOutputs \in Nat /\ MaxCalls \in Nat /\ MaxEvents \in Nat

VARIABLES
  fb,        \* the framebuffer, behind its mutex
  closing,   \* the flag shared by the object and the task
  commands,  \* the queue of commands
  task,      \* where the session task is
  outputs,   \* the decoder's outputs it has yet to apply
  telling,   \* the event it is about to send; << >> when there is none
  events,    \* the queue of events
  owner,     \* whether the application has the session object
  pc,        \* where each caller is in its call
  accepted,  \* inputs for which send returned Ok
  served,    \* inputs handed to the protocol
  calls,     \* calls made so far
  desktop,   \* the picture the server has drawn; Lost after a bad bitmap
  screen,    \* the picture of an application that follows the events; Lost
             \* when it has dropped the session
  heard      \* the last event that was sent is Closed

vars == << fb, closing, commands, task, outputs, telling, events, owner, pc,
           accepted, served, calls, desktop, screen, heard >>

appVars == << owner, pc, accepted, calls >>

Places  == {"idle", "sending", "disconnecting"}
Stages  == {"none", "starting", "selecting", "leaving", "shutdown", "ended", "done"}
Owners  == {"none", "held", "dropping", "gone"}
Command == {"Input", "Resize", "Disconnect"}

(* What the decoder makes of a PDU: a bitmap, a new size, the server's     *)
(* farewell, or something that is passed on (a name, a pointer).  Outputs  *)
(* that change nothing here (ResponseFrame, the ignored ones) are left out *)
(* of the batch.                                                           *)
Output == [kind : {"Graphics"}, update : Updates]
            \cup [kind : {"DesktopSize"}, size : Sizes]
            \cup [kind : {"Terminate", "Notice"}]
Batch  == UNION {[1..n -> Output] : n \in 0..MaxOutputs}

Frame(damage, w, h) == [kind |-> "Frame", damage |-> damage, width |-> w, height |-> h]
Resized(size) == [kind |-> "Resized", damage |-> << >>, width |-> size[1], height |-> size[2]]
Plain(kind)   == [kind |-> kind, damage |-> << >>, width |-> 0, height |-> 0]
Notice        == Plain("Notice")   \* ServerName, Pointer
Closed        == Plain("Closed")
Event == [kind : {"Frame", "Resized", "Notice", "Closed"},
          damage : Damage, width : Nat, height : Nat]

(* A send on a channel whose receiver is gone is ignored: the receiver     *)
(* goes with the session object.                                           *)
Tell(e) == IF owner = "gone" THEN UNCHANGED << events, heard >>
           ELSE events' = Append(events, e) /\ heard' = (e.kind = "Closed")

(* The same for commands: the receiver goes with the task.                 *)
Listening == task # "done"
Queue(c) == commands' = IF Listening THEN Append(commands, c) ELSE commands

(* The server's own picture: no flat array, no clamping, no damage.        *)
Sized(w, h, old) ==
  [c \in (0..(w - 1)) \X (0..(h - 1)) |-> IF c \in DOMAIN old THEN old[c] ELSE Black]
Drawn(old, u) ==
  [c \in DOMAIN old |->
     IF c \in Cells(u.rect)
     THEN u.data[(c[2] - u.rect.top) * u.rect.width + (c[1] - u.rect.left) + 1]
     ELSE old[c]]
Lost     == << >>
Fits(u)  == Cells(u.rect) \subseteq DOMAIN desktop
IsCut(u) == Len(u.data) < u.rect.width * u.rect.height

Init ==
  /\ \E size \in Sizes : fb = NewBuffer(size[1], size[2])
  /\ desktop = Picture(fb) /\ screen = Picture(fb)
  /\ closing = FALSE /\ commands = << >> /\ outputs = << >>
  /\ telling = << >> /\ events = << >>
  /\ task = "none" /\ owner = "none" /\ pc = [c \in Callers |-> "idle"]
  /\ accepted = 0 /\ served = 0 /\ calls = 0
  /\ heard = FALSE

-----------------------------------------------------------------------------
(* The application.                                                        *)

(* connect: all its steps before the task are one; when any of them fails  *)
(* there is no session, and nothing to model.                              *)
Connect ==
  /\ task = "none"
  /\ task' = "starting" /\ owner' = "held"
  /\ UNCHANGED << fb, closing, commands, outputs, telling, events, pc, accepted,
                  served, calls, desktop, screen, heard >>

MayCall(c) ==
  /\ owner = "held" /\ pc[c] = "idle" /\ calls < MaxCalls
  /\ calls' = calls + 1

(* send looks at the flag and then queues.                                 *)
Send(c) ==
  /\ MayCall(c)
  /\ pc' = IF closing THEN pc ELSE [pc EXCEPT ![c] = "sending"]
  /\ UNCHANGED << fb, closing, commands, task, outputs, telling, events, owner,
                  accepted, served, desktop, screen, heard >>

SendQueues(c) ==
  /\ pc[c] = "sending"
  /\ pc' = [pc EXCEPT ![c] = "idle"]
  /\ Queue("Input")
  /\ accepted' = IF Listening THEN accepted + 1 ELSE accepted
  /\ UNCHANGED << fb, closing, task, outputs, telling, events, owner, served,
                  calls, desktop, screen, heard >>

RequestResize(c) ==
  /\ MayCall(c)
  /\ Queue("Resize")
  /\ UNCHANGED << fb, closing, task, outputs, telling, events, owner, pc,
                  accepted, served, desktop, screen, heard >>

(* disconnect raises the flag and then queues.                             *)
Disconnect(c) ==
  /\ MayCall(c)
  /\ closing' = TRUE
  /\ pc' = [pc EXCEPT ![c] = "disconnecting"]
  /\ UNCHANGED << fb, commands, task, outputs, telling, events, owner, accepted,
                  served, desktop, screen, heard >>

(* A bug: the flag is thought to be enough.                                *)
DisconnectFlagOnly(c) ==
  /\ pc[c] = "disconnecting"
  /\ pc' = [pc EXCEPT ![c] = "idle"]
  /\ UNCHANGED << fb, closing, commands, task, outputs, telling, events, owner,
                  accepted, served, calls, desktop, screen, heard >>

DisconnectQueues(c) ==
  /\ pc[c] = "disconnecting"
  /\ pc' = [pc EXCEPT ![c] = "idle"]
  /\ Queue("Disconnect")
  /\ UNCHANGED << fb, closing, task, outputs, telling, events, owner, accepted,
                  served, calls, desktop, screen, heard >>

(* events and drop need the session for themselves: no call is under way.  *)
Exclusive == owner = "held" /\ \A c \in Callers : pc[c] = "idle"

(* drop is disconnect by the last holder; the queue of events goes too.    *)
Drop ==
  /\ Exclusive
  /\ owner' = "dropping" /\ closing' = TRUE
  /\ UNCHANGED << fb, commands, task, outputs, telling, events, pc, accepted,
                  served, calls, desktop, screen, heard >>

DropQueues ==
  /\ owner = "dropping"
  /\ owner' = "gone" /\ events' = << >> /\ screen' = Lost
  /\ Queue("Disconnect")
  /\ UNCHANGED << fb, closing, task, outputs, telling, pc, accepted, served,
                  calls, desktop, heard >>

(* The next event: a Frame says what to upload again, a Resized that the   *)
(* whole texture is another.  The upload reads the buffer as it is now.    *)
Consume ==
  LET now  == Picture(fb)
      e    == Head(events)
      seen == UNION {Cells(r) : r \in {e.damage[i] : i \in DOMAIN e.damage}}
  IN /\ Exclusive /\ events # << >>
     /\ events' = Tail(events)
     /\ screen' = CASE e.kind = "Resized" -> now
                    [] e.kind = "Frame" ->
                         [c \in DOMAIN screen |->
                            IF c \in seen /\ c \in DOMAIN now THEN now[c] ELSE screen[c]]
                    [] OTHER -> screen
     /\ UNCHANGED << fb, closing, commands, task, outputs, telling, appVars,
                     served, desktop, heard >>

(* The page of the UI takes the damage at every repaint, with or without   *)
(* the session object.                                                     *)
Repaint ==
  /\ task # "none" /\ fb.damage # << >>
  /\ fb' = TakeDamage(fb)
  /\ UNCHANGED << closing, commands, task, outputs, telling, events, appVars,
                  served, desktop, screen, heard >>

-----------------------------------------------------------------------------
(* The session task.                                                       *)

(* ActiveStage::new; its failure ends the task without the flag.           *)
Start ==
  /\ task = "starting"
  /\ \/ task' = "selecting" /\ UNCHANGED << events, heard >>
     \/ task' = "done" /\ Tell(Closed)
  /\ UNCHANGED << fb, closing, commands, outputs, telling, appVars, served,
                  desktop, screen >>

Selecting == task = "selecting" /\ outputs = << >> /\ telling = << >>
Room(b)   == b = << >> \/ Len(events) + Len(b) <= MaxEvents

(* An error of the decoder or of the connection is told and ends the loop. *)
Fail == task' = "leaving" /\ Tell(Closed) /\ UNCHANGED outputs

Process ==
  \/ /\ \E b \in Batch : Room(b) /\ outputs' = b
     /\ UNCHANGED << task, events, heard >>
  \/ Fail

(* A bug: inputs that are waiting together are taken for one.              *)
ServeCoalesced ==
  /\ Selecting /\ commands # << >>
  /\ commands' = IF \A i \in DOMAIN commands : commands[i] = "Input"
                 THEN << >> ELSE Tail(commands)
  /\ served' = IF Head(commands) = "Input" THEN served + 1 ELSE served
  /\ IF Head(commands) = "Disconnect"
     THEN task' = "leaving" /\ UNCHANGED << outputs, events, heard >>
     ELSE Process
  /\ UNCHANGED << fb, closing, telling, appVars, desktop, screen >>

Serve ==
  /\ Selecting /\ commands # << >>
  /\ commands' = Tail(commands)
  /\ served' = IF Head(commands) = "Input" THEN served + 1 ELSE served
  /\ IF Head(commands) = "Disconnect"
     THEN task' = "leaving" /\ UNCHANGED << outputs, events, heard >>
     ELSE Process
  /\ UNCHANGED << fb, closing, telling, appVars, desktop, screen >>

ReadPdu ==
  /\ Selecting /\ Process
  /\ UNCHANGED << fb, closing, commands, telling, appVars, served, desktop, screen >>

(* A bug: the damage is taken before the bitmap is drawn.                  *)
ApplyGraphicsEarly(u) ==
  LET drawn == Blit(TakeDamage(fb), u.rect, u.data)
  IN /\ telling' = << Frame(fb.damage, drawn.width, drawn.height) >>
     /\ fb' = drawn
     /\ desktop' = IF ~Fits(u) THEN Lost
                   ELSE IF IsCut(u) THEN desktop ELSE Drawn(desktop, u)

(* apply_output: the next output, up to the release of the buffer's lock.  *)
ApplyGraphics(u) ==
  LET drawn == Blit(fb, u.rect, u.data)
  IN /\ telling' = << Frame(drawn.damage, drawn.width, drawn.height) >>
     /\ fb' = TakeDamage(drawn)
     /\ desktop' = IF ~Fits(u) THEN Lost
                   ELSE IF IsCut(u) THEN desktop ELSE Drawn(desktop, u)

ApplySize(size) ==
  /\ fb' = Resize(fb, size[1], size[2])
  /\ telling' = << Resized(size) >>
  /\ desktop' = IF desktop = Lost THEN Lost ELSE Sized(size[1], size[2], desktop)

ApplyOutput ==
  /\ task = "selecting" /\ outputs # << >> /\ telling = << >>
  /\ outputs' = Tail(outputs)
  /\ LET o == Head(outputs)
     IN \/ o.kind = "Graphics" /\ ApplyGraphics(o.update)
        \/ o.kind = "DesktopSize" /\ ApplySize(o.size)
        \/ /\ o.kind = "Terminate"
           /\ telling' = << Closed >> /\ UNCHANGED << fb, desktop >>
        \/ /\ o.kind = "Notice"
           /\ telling' = << Notice >> /\ UNCHANGED << fb, desktop >>
  /\ UNCHANGED << closing, commands, task, events, appVars, served, screen, heard >>

(* ... and the event about it, sent without the lock.                      *)
TellOutput ==
  /\ telling # << >>
  /\ Tell(telling[1]) /\ telling' = << >>
  /\ UNCHANGED << fb, closing, commands, task, outputs, appVars, served,
                  desktop, screen >>

Leave ==
  /\ task = "leaving"
  /\ task' = "shutdown" /\ closing' = TRUE
  /\ UNCHANGED << fb, commands, outputs, telling, events, appVars, served,
                  desktop, screen, heard >>

(* A bug: only errors are told.                                            *)
ShutdownSilently ==
  /\ task = "shutdown"
  /\ task' = "ended"
  /\ UNCHANGED << fb, closing, commands, outputs, telling, events, appVars,
                  served, desktop, screen, heard >>

(* The graceful shutdown, whatever comes of it, and the last event.        *)
Shutdown ==
  /\ task = "shutdown"
  /\ task' = "ended" /\ Tell(Closed)
  /\ UNCHANGED << fb, closing, commands, outputs, telling, appVars, served,
                  desktop, screen >>

(* The end of the task drops its half of the channels.                     *)
Finish ==
  /\ task = "ended"
  /\ task' = "done" /\ commands' = << >>
  /\ UNCHANGED << fb, closing, outputs, telling, events, appVars, served,
                  desktop, screen, heard >>

-----------------------------------------------------------------------------
Task == Start \/ Serve \/ ReadPdu \/ ApplyOutput \/ TellOutput \/ Leave \/ Shutdown \/ Finish
Call(c) == Send(c) \/ SendQueues(c) \/ RequestResize(c) \/ Disconnect(c) \/ DisconnectQueues(c)
Next == Connect \/ Drop \/ DropQueues \/ Consume \/ Repaint \/ Task \/ \E c \in Callers : Call(c)

(* The task is scheduled, and select! picks at random among the branches   *)
(* that are ready, so a command cannot be passed over for ever; a call     *)
(* that has begun goes on.  Nothing is asked of the server, nor of the     *)
(* application: it need not call, consume, repaint or drop.                *)
Fairness ==
  /\ SF_vars(Serve)
  /\ WF_vars(Start \/ ApplyOutput \/ TellOutput \/ Leave \/ Shutdown \/ Finish)
  /\ WF_vars(DropQueues)
  /\ \A c \in Callers : WF_vars(SendQueues(c) \/ DisconnectQueues(c))

Spec == Init /\ [][Next]_vars /\ Fairness

-----------------------------------------------------------------------------
IsBuffer(b) ==
  /\ b.width \in Nat \ {0} /\ b.height \in Nat \ {0} /\ b.width * b.height < Word
  /\ b.pixels \in [0..(b.width * b.height - 1) -> Colours]
  /\ b.damage \in Damage

(* Every variable has its type; the queues hold events and commands.       *)
TypeOK ==
  /\ IsBuffer(fb)
  /\ closing \in BOOLEAN
  /\ commands \in Seq(Command)
  /\ task \in Stages /\ owner \in Owners /\ pc \in [Callers -> Places]
  /\ outputs \in Seq(Output)
  /\ telling \in Seq(Event) /\ Len(telling) <= 1
  /\ events \in Seq(Event) /\ heard \in BOOLEAN
  /\ accepted \in Nat /\ served \in Nat /\ calls \in 0..MaxCalls

(* Damage lies inside the buffer, and the damage of a Frame inside the     *)
(* size the same event gives, however resizes, bitmaps (those that reach   *)
(* over the edge too) and repaints interleave.                             *)
WithinEvent(e) == \A i \in DOMAIN e.damage : Inside(e.damage[i], e.width, e.height)
DamageInside ==
  /\ \A i \in DOMAIN fb.damage : Inside(fb.damage[i], fb.width, fb.height)
  /\ \A i \in DOMAIN telling : WithinEvent(telling[i])
  /\ \A i \in DOMAIN events : WithinEvent(events[i])

(* While the server keeps to its own desktop, the flat array shows exactly *)
(* what the server drew, through any sequence of bitmaps and resizes;      *)
(* truncated bitmaps leave no trace.                                       *)
PictureFaithful == desktop # Lost => Picture(fb) = desktop

(* Whatever the renderer takes, and however late the events are consumed:  *)
(* an application that does what they say has the buffer's picture once    *)
(* it has consumed them all.                                               *)
ScreenCatchesUp ==
  (owner = "held" /\ events = << >> /\ telling = << >>) => screen = Picture(fb)

(* A session that is over has said so, as its last word, unless nobody     *)
(* could hear it any more.                                                 *)
EndIsTold == task \in {"ended", "done"} => (heard \/ owner = "gone")

(* Input that was accepted reaches the protocol, in spite of a server that *)
(* never falls silent, unless the session ends.                            *)
InputIsServed == (served < accepted) ~> (served = accepted \/ task = "done")

(* After a disconnect or a drop, or a failure, the task ends.              *)
SessionEnds == closing ~> (task = "done")
=============================================================================
