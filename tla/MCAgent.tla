-------------------------------- MODULE MCAgent --------------------------------
(* What surrounds the session manager of an agent, for TLC: the service that
   runs it, its control socket, its log writer and its audit trail.  The parts
   share no state, so a behaviour is one of them. *)
EXTENDS MCSessionManager, PlatformService, Logs, AgentSocket

VARIABLE part
agentVars == <<vars, serviceVars, logVars, socketVars, part>>

(* Requests that differ only in a field their calls do not look at are left
   out. *)
MCRequests ==
    {r \in Request :
        /\ r.op = "uninstall" => r.sound /\ r.now /\ r.account /\ r.text = CHOOSE x \in Texts : TRUE
        /\ r.scope # "system" => r.account
        /\ r.scope = "user" => r.elevated
        /\ ~r.sound => r.now}

(* Two registered secrets that overlap. *)
MCSecrets == <<<<"s", "t">>, <<"t", "u">>>>

(* First writes: lines of up to three pieces, among them the registered
   secrets; lines with several pairs; parts of a line that the second write
   completes, in the middle of a character too. *)
Pieces == {<<"s", "t">>, <<"t", "u">>, <<"P">>, <<"=">>, <<":", " ">>, <<" ">>}
MCChunks ==
    <<{FlattenSeq(l) \o <<"n">> : l \in SeqOf(Pieces, 3)}
        \cup {<<"P", ":", " ", "k", " ", "u", "n", "k">>, <<"k", "n", "n", "s">>,
              <<"k", "P", "=", "lead", "trail", "u", ",", "s">>,
              <<"k", "n", "k", "P", "=", "k", "lead">>},
      {<<"t", "u", "n">>, <<"trail", "n", " ", "k", "n">>}>>

MCInit ==
    /\ Init /\ ServiceInit /\ LogInit /\ SocketInit
    /\ part \in {"manager", "service", "socket", "log", "audit"}
    /\ part # "service" => ~systemd /\ searched = Scopes /\ ~notifies
    /\ part # "log" => capacity = 0
    /\ part # "audit" => attached = Auditors
    /\ part # "socket" => ~private
MCNext ==
    /\ UNCHANGED part
    /\ \/ part = "manager" /\ Next /\ UNCHANGED <<serviceVars, logVars, socketVars>>
       \/ part = "service" /\ ServiceNext /\ UNCHANGED <<vars, logVars, socketVars>>
       \/ part = "socket" /\ SocketNext /\ UNCHANGED <<vars, serviceVars, logVars>>
       \/ part = "log" /\ WriterNext /\ UNCHANGED <<vars, serviceVars, socketVars>>
       \/ part = "audit" /\ AuditNext /\ UNCHANGED <<vars, serviceVars, socketVars>>

(* SessionManager's fairness. *)
MCSpec == MCInit /\ [][MCNext]_agentVars /\ Fairness
===============================================================================
