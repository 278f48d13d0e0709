----------------------------- MODULE MCHostKeys ------------------------------
(* HostKeys with two ports of one host, h1 being port 22, and three keys, two of
   one algorithm. *)
EXTENDS HostKeys, TLC

CONSTANTS c1, c2, h1, h2, k1, k2, k3

MCKeyType == k1 :> "ed25519" @@ k2 :> "ed25519" @@ k3 :> "rsa"
MCReach == h1 :> {h1, h2} @@ h2 :> {h2}

Marked(marker, hosts, k) ==
    [marker |-> marker, hosts |-> hosts, type |-> MCKeyType[k], key |-> k]

(* A plain line for one port, one for both, a revoked key, an authority. *)
Plain == Marked("none", {h2}, k1)
Shared == Marked("none", {h1, h2}, k3)
Revoked == Marked("revoked", {h1, h2}, k1)
Authority == Marked("ca", {h1, h2}, k2)

(* No file; an empty one; one with one or two lines, a plain line before and
   after one that revokes its key among them. *)
MCInitialFiles ==
    {[exists |-> FALSE, lines |-> <<>>], [exists |-> TRUE, lines |-> <<>>]}
    \cup {[exists |-> TRUE, lines |-> <<line>>] : line \in {Plain, Shared, Revoked, Authority}}
    \cup {[exists |-> TRUE, lines |-> pair] :
             pair \in {<<Plain, Shared>>, <<Plain, Revoked>>, <<Revoked, Plain>>,
                       <<Authority, Shared>>}}

(* Of two connections the second is one that may ask; two that may not have
   nothing to do with each other. *)
MCInit == Init /\ policy[c2] = "AcceptNew"
FairSpec == MCInit /\ [][Next]_vars /\ Fairness
==============================================================================
