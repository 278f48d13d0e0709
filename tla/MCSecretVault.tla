---------------------------- MODULE MCSecretVault ----------------------------
(* The vault's file on a small instance with interchangeable constants, and
   the store with its keystores; a behaviour is one or the other. *)
EXTENDS SecretVault, SecretStore, TLC

VARIABLE part
allVars == <<vars, storeVars, part>>

MCNameOrder == <<"a", "b">>
MCBare == [old |-> "old", line |-> "bare"]
MCTrimmed == [old |-> "old", line |-> "trimmed"]
\* A machine of each kind, and one without a session bus.
MCMachines == {[os |-> "windows", ready |-> TRUE, bus |-> FALSE],
               [os |-> "macos", ready |-> FALSE, bus |-> FALSE],
               [os |-> "linux", ready |-> TRUE, bus |-> TRUE],
               [os |-> "linux", ready |-> TRUE, bus |-> FALSE]}

MCInit ==
    /\ Init /\ StoreInit /\ part \in {"vault", "store"}
    /\ machine \in MCMachines
    /\ part = "vault" => machine.os = "macos"
MCNext ==
    /\ UNCHANGED part
    /\ \/ part = "vault" /\ Next /\ UNCHANGED storeVars
       \/ part = "store" /\ StoreNext /\ UNCHANGED vars
MCSpec == MCInit /\ [][MCNext]_allVars

Symmetry == Permutations(Threads) \cup Permutations(Keys)
                \cup Permutations(Values) \cup Permutations(Passphrases)
                \cup Permutations(Callers)
==============================================================================
