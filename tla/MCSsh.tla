--------------------------------- MODULE MCSsh ---------------------------------
(* The parts of a terminal session for TLC: the terminal crate, the SSH session
   that feeds it, after its dial, and file transfers.  The crates meet in bytes
   only and a transfer has a channel of its own, so a behaviour is one of them. *)
EXTENDS MCTerminal, SshSession, SftpTransfer

VARIABLE side
allVars == <<vars, sshVars, sftpVars, side>>

MCMethods == AllMethods
\* Two uploads to one name; a download; a second one whose target differs from
\* the first one's in its extension only, and so has the same temporary name.
MCTransfers == {"u1", "u2", "d1", "d2"}
MCUploads == {"u1", "u2"}
MCTarget == [u1 |-> "remote", u2 |-> "remote", d1 |-> "a.txt", d2 |-> "a.csv"]
MCTemporary == [u1 |-> "remote.part", u2 |-> "remote.part", d1 |-> "a.part", d2 |-> "a.part"]
MCLength == [u1 |-> 2, u2 |-> 1, d1 |-> 2, d2 |-> 1]

\* The transfers of one behaviour: two for one name, two for one temporary
\* name, or one each way.
Taking == [terminal |-> {}, session |-> {}, uploads |-> {"u1", "u2"}, downloads |-> {"d1", "d2"},
           mixed |-> {"u1", "d2"}]

\* What the other crates begin with does not matter.
Unused ==
    /\ side # "terminal" => part = "parser"
    /\ side # "session" => method = "none" /\ valid
    /\ \A n \in Names : dir[n] # Nothing => \E t \in Taking[side] : Target[t] = n

OfSession(A) == side = "session" /\ A /\ UNCHANGED <<vars, sftpVars, side>>

MCInit == Init /\ SshInit /\ SftpInit /\ side \in DOMAIN Taking /\ Unused
MCNext == \/ side = "terminal" /\ Next /\ UNCHANGED <<sshVars, sftpVars, side>>
          \/ OfSession(SshNext)
          \/ /\ side \in {"uploads", "downloads", "mixed"}
             /\ SftpNext /\ UNCHANGED <<vars, sshVars, side>>
             /\ \A t \in Transfers \ Taking[side] : at'[t] = "idle"

\* As SshFairness, with the variables of the composition.
MCFairness == /\ WF_allVars(OfSession(~Blocked /\ Pump))
              /\ WF_allVars(OfSession(PumpEnds))
              /\ WF_allVars(OfSession(Disconnect))
              /\ WF_allVars(OfSession(LastHandleGone))
MCSpec == MCInit /\ [][MCNext]_allVars /\ MCFairness
===============================================================================
