------------------------------ MODULE AgentSocket ------------------------------
(***************************************************************************)
(* rdt-agent/src/lib.rs: the control socket.  An agent makes the directory *)
(* private, removes what is at the socket's path, binds and restricts its  *)
(* own socket and accepts connections; a task per connection answers its   *)
(* lines.  Several agents may run for one user (the service and one in a   *)
(* terminal), and each can stop at any moment.                             *)
(***************************************************************************)
EXTENDS Naturals, Sequences

CONSTANTS
    Servers,        \* agents
    Clients,        \* connections that are made
    Owned,          \* those made by the agents' user
    Nobody,         \* no agent
    Requested,      \* commands that are sent
    MaxLines,       \* bound: lines a client sends
    MaxStops        \* bound: failures and ends of agents

(* What a line may be, and the outcomes handle() may have for it: a session
   that is not known counts as disconnected. *)
Outcomes ==
    [status |-> {"ok"}, list |-> {"ok"}, connect |-> {"ok", "invalid", "not found"},
     disconnect |-> {"ok", "invalid"}, reload |-> {"ok", "config"}, garbage |-> {"invalid"}]

ASSUME SocketAssumption ==
    /\ Owned \subseteq Clients /\ Nobody \notin Servers
    /\ Requested \subseteq DOMAIN Outcomes
    /\ MaxLines \in Nat /\ MaxStops \in Nat

VARIABLES
    serving, \* where each agent is in serve()
    private, \* the directory is restricted to its owner
    bound,   \* whose socket is at the path
    guarded, \* the agents whose own socket is restricted
    link,    \* the agent each client has reached
    state,   \* of each connection
    sent,    \* its lines
    handled, \* outcomes of the lines its task has handled
    replies, \* replies the client has
    displaced, \* inner: agents whose socket another one removed
    stops

ends == <<link, state, sent, handled, replies>>
socketVars == <<serving, private, bound, guarded, ends, displaced, stops>>

SocketInit ==
    /\ serving = [a \in Servers |-> "down"] /\ private \in BOOLEAN
    /\ bound = Nobody /\ guarded = {}
    /\ link = [c \in Clients |-> Nobody] /\ state = [c \in Clients |-> "none"]
    /\ sent = [c \in Clients |-> <<>>] /\ handled = sent /\ replies = sent
    /\ displaced = {} /\ stops = 0

------------------------------------------------------------------------------
(* serve *)

At(a, from, to) == serving[a] = from /\ serving' = [serving EXCEPT ![a] = to]

MakeDirectory(a) ==
    /\ At(a, "down", "remove")
    /\ private' = TRUE
    /\ UNCHANGED <<bound, guarded, ends, displaced, stops>>

RemoveOld(a) ==
    /\ At(a, "remove", "bind")
    /\ bound' = Nobody
    /\ displaced' = (displaced \cup {bound}) \ {a, Nobody}
    /\ UNCHANGED <<private, guarded, ends, stops>>

Bind(a) ==
    /\ bound = Nobody
    /\ At(a, "bind", "restrict")
    /\ bound' = a
    /\ displaced' = displaced \ {a}
    /\ guarded' = guarded \ {a}
    /\ UNCHANGED <<private, ends, stops>>

(* By its path: the socket there may be another agent's by now. *)
RestrictSocket(a) ==
    /\ bound # Nobody
    /\ At(a, "restrict", "accept")
    /\ guarded' = guarded \cup {bound}
    /\ UNCHANGED <<private, bound, ends, displaced, stops>>

(* The process of an agent ends, and with it its listener and its tasks.  Its
   socket stays where it is. *)
ProcessEnds(a) ==
    /\ serving' = [serving EXCEPT ![a] = "down"]
    /\ state' = [c \in Clients |-> IF link[c] = a THEN "closed" ELSE state[c]]
    /\ UNCHANGED <<private, bound, guarded, link, sent, handled, replies, displaced>>

(* Somebody else's socket is at the path, or none when it is to be
   restricted. *)
PathLost(a) ==
    /\ \/ serving[a] = "bind" /\ bound # Nobody
       \/ serving[a] = "restrict" /\ bound = Nobody
    /\ ProcessEnds(a) /\ UNCHANGED stops

(* Any step fails, accept() included, or the process is killed. *)
Stops(a) ==
    /\ serving[a] # "down" /\ stops < MaxStops
    /\ ProcessEnds(a) /\ stops' = stops + 1

------------------------------------------------------------------------------
(* Connections.  The kernel queues one as soon as the socket is bound.  A
   private directory keeps everybody out but its owner and the
   administrator. *)

Reach(c) ==
    /\ state[c] = "none" /\ bound # Nobody
    /\ serving[bound] \in {"restrict", "accept"}
    /\ link' = [link EXCEPT ![c] = bound]
    /\ state' = [state EXCEPT ![c] = "queued"]
    /\ UNCHANGED <<serving, private, bound, guarded, sent, handled, replies, displaced, stops>>

(* Accept, and verify_peer. *)
AcceptEverybody(c) ==
    /\ state[c] = "queued" /\ serving[link[c]] = "accept"
    /\ state' = [state EXCEPT ![c] = "open"]
    /\ UNCHANGED <<serving, private, bound, guarded, link, sent, handled, replies, displaced, stops>>
Accept(c) ==
    /\ state[c] = "queued" /\ serving[link[c]] = "accept"
    /\ state' = [state EXCEPT ![c] = IF c \in Owned THEN "open" ELSE "closed"]
    /\ UNCHANGED <<serving, private, bound, guarded, link, sent, handled, replies, displaced, stops>>

(* The client may write before it is accepted. *)
SendLine(c, line) ==
    /\ state[c] \in {"queued", "open"} /\ Len(sent[c]) < MaxLines
    /\ sent' = [sent EXCEPT ![c] = Append(@, line)]
    /\ UNCHANGED <<serving, private, bound, guarded, link, state, handled, replies, displaced, stops>>

(* The task handles the next line, once its last reply is written. *)
HandleWith(c, n) ==
    /\ state[c] = "open" /\ Len(handled[c]) < Len(sent[c])
    /\ n \in DOMAIN sent[c]
    /\ \E outcome \in Outcomes[sent[c][n]] :
          handled' = [handled EXCEPT ![c] = Append(@, <<n, outcome>>)]
    /\ UNCHANGED <<serving, private, bound, guarded, link, state, sent, replies, displaced, stops>>
HandleLine(c) == handled[c] = replies[c] /\ HandleWith(c, Len(handled[c]) + 1)

WriteReply(c) ==
    /\ state[c] = "open" /\ Len(replies[c]) < Len(handled[c])
    /\ replies' = [replies EXCEPT ![c] = Append(@, handled[c][Len(@) + 1])]
    /\ UNCHANGED <<serving, private, bound, guarded, link, state, sent, handled, displaced, stops>>

(* The client hangs up; a reply that is due is lost. *)
HangUp(c) ==
    /\ state[c] \in {"queued", "open"}
    /\ state' = [state EXCEPT ![c] = "closed"]
    /\ UNCHANGED <<serving, private, bound, guarded, link, sent, handled, replies, displaced, stops>>

SocketNext ==
    \/ \E a \in Servers :
          MakeDirectory(a) \/ RemoveOld(a) \/ Bind(a) \/ RestrictSocket(a) \/ PathLost(a) \/ Stops(a)
    \/ \E c \in Clients :
          \/ Reach(c) \/ Accept(c) \/ HandleLine(c) \/ WriteReply(c) \/ HangUp(c)
          \/ \E line \in Requested : SendLine(c, line)

SocketSpec == SocketInit /\ [][SocketNext]_socketVars

------------------------------------------------------------------------------
(* Properties. *)

(* serve, lib.rs:185-238, and its trust model, 8-15: whichever agents start,
   displace each other and stop, a client gets the reply to each of its lines
   in their order, at most one line more was carried out than it knows of, and
   nobody but the agents' user is answered; an agent whose socket no other
   agent removed can be reached; and the one that can be reached has a private
   directory and, once it accepts, a restricted socket. *)
Answered(c) ==
    /\ \A n \in DOMAIN handled[c] : handled[c][n][1] = n
    /\ replies[c] = SubSeq(handled[c], 1, Len(replies[c]))
    /\ Len(handled[c]) <= Len(replies[c]) + 1
    /\ handled[c] # <<>> => c \in Owned
ControlIsOrderly ==
    /\ \A c \in Clients : Answered(c)
    /\ \A a \in Servers :
          serving[a] = "accept" => a \in displaced \/ (bound = a /\ a \in guarded)
    /\ bound # Nobody => private
================================================================================
