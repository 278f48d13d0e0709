----------------------------- MODULE MCConfigStore -----------------------------
(* The processes that share the configuration file, the texts the file may
   hold, and the delays a profile's policy gives, for TLC.  A behaviour is of
   one of the three; each cfg says how many windows and agents. *)
EXTENDS ConfigStore, ConfigDocument, ReconnectPolicy

VARIABLE part
allVars == <<vars, documentVars, retryVars, part>>

P(id, name, sound, hosts, sort) ==
    [id |-> id, name |-> name, sound |-> sound, policy |-> hosts, sort |-> sort]

(* A new profile and one whose name differs from the first in case only; two
   invalid ones; two replacements. *)
MCEdited ==
    {P(1, "a", TRUE, "strict", 0), P(3, "A", TRUE, "strict", 1),
     P(3, "b", TRUE, "accept-new", 0), P(1, "b", TRUE, "strict", 0),
     P(1, "blank", TRUE, "strict", 0)}

(* By hand: no profiles; invalid ones with one identifier and names that agree;
   names that agree in the other order. *)
Lists ==
    {<<>>,
     <<P(1, "b", TRUE, "strict", 1), P(2, "A", FALSE, "accept-new", 0),
       P(2, "a", TRUE, "strict", 0)>>,
     <<P(2, "a", TRUE, "strict", 1), P(1, "A", TRUE, "strict", 0)>>}
Plain ==
    [parses |-> TRUE, version |-> Current, ui |-> NoUi, typed |-> TRUE, profiles |-> <<>>]
MCDocuments ==
    {[Plain EXCEPT !.version = v, !.ui = u, !.profiles = l] :
        v \in {VersionAbsent, VersionOdd, 0, Current, Current + 1},
        u \in {NoUi, [page |-> "absent", scale |-> "125"], [page |-> "logs", scale |-> "absent"]},
        l \in Lists}
    \cup {[Plain EXCEPT !.parses = FALSE], [Plain EXCEPT !.typed = FALSE]}

MCInit ==
    /\ Init /\ DocumentInit /\ RetryInit
    /\ part \in {"store", "document", "delays"}
    /\ part # "document" => document = NoText
    /\ part # "delays" => policy = CHOOSE p \in Policy : ValidPolicy(p)
MCNext ==
    /\ UNCHANGED part
    /\ \/ part = "store" /\ Next /\ UNCHANGED <<documentVars, retryVars>>
       \/ part = "document" /\ DocumentNext /\ UNCHANGED <<vars, retryVars>>
       \/ part = "delays" /\ NextAttempt /\ UNCHANGED <<vars, documentVars>>
MCSpec == MCInit /\ [][MCNext]_allVars /\ Fairness
================================================================================
