---------------------------- MODULE CertificatePins ----------------------------
(***************************************************************************)
(* The pinned certificates of RDP servers (rdt-rdp, tls.rs): the file of   *)
(* pins, the copy of it every connection loads, the decision about a       *)
(* presented certificate and the record of a first use.                    *)
(*                                                                         *)
(* A connection loads the file, negotiates, decides and perhaps saves its  *)
(* copy over the file, in place.  The handshake (ironrdp-tls) is external: *)
(* it says which certificate was presented and not who vouches for it.     *)
(***************************************************************************)
EXTENDS Naturals

CONSTANTS Links,       \* connections; each may dial again
          Servers,     \* spellings of host names
          Lower,       \* [Servers -> Servers]: to_lowercase
          Certificates,
          Empty,       \* what the handshake returns if the server showed none
          SelfSigned,  \* the certificates no authority vouches for
          Absent,
          MaxDials, MaxPinFaults   \* bounds: connections, failures

VARIABLES
    pinFile,   \* its form and its entries
    pins,      \* [Links -> the copy]
    filed,     \* links whose copy knows the file it came from
    link,      \* [Links -> where the connection is]
    server, certPolicy, presented,   \* [Links -> ...]: of the connection
    dials, pinFaults

pinVars == <<pinFile, pins, filed, link, server, certPolicy, presented, dials, pinFaults>>

CertPolicies == {"Verify", "VerifyOrPinned", "TrustOnFirstUse"}
NoPins == [s \in Servers |-> Absent]
LinkEnds == {"accepted", "refused"}

PinInit ==
    /\ pinFile \in [form : {"missing", "whole"}, entries : {NoPins}]
    /\ pins = [l \in Links |-> NoPins] /\ filed = {}
    /\ link = [l \in Links |-> "refused"]
    /\ \E s \in Servers, c \in Certificates :
          server = [l \in Links |-> s] /\ presented = [l \in Links |-> c]
    /\ certPolicy = [l \in Links |-> "Verify"]
    /\ dials = 0 /\ pinFaults = 0

-------------------------------------------------------------------------------
Reaches(l, place) == link' = [link EXCEPT ![l] = place]
Same(l) == UNCHANGED <<server, certPolicy, presented, dials>>
PinFault == pinFaults < MaxPinFaults /\ pinFaults' = pinFaults + 1

\* A connection is made, to any server and under any policy, and the server
\* presents some certificate.
DialServer(l) ==
    /\ link[l] \in LinkEnds /\ dials < MaxDials /\ dials' = dials + 1
    /\ \E s \in Servers, p \in CertPolicies, c \in Certificates \cup {Empty} :
          /\ server' = [server EXCEPT ![l] = s]
          /\ certPolicy' = [certPolicy EXCEPT ![l] = p]
          /\ presented' = [presented EXCEPT ![l] = c]
    /\ Reaches(l, "loading")
    /\ UNCHANGED <<pinFile, pins, filed, pinFaults>>

\* A missing file gives an empty copy that knows no file, as no configured file
\* does; one that cannot be parsed ends the connection.
LoadPins(l) ==
    /\ link[l] = "loading"
    /\ \/ /\ pinFile.form = "whole"
          /\ pins' = [pins EXCEPT ![l] = pinFile.entries] /\ filed' = filed \cup {l}
          /\ Reaches(l, "deciding")
       \/ /\ pinFile.form = "missing"
          /\ pins' = [pins EXCEPT ![l] = NoPins] /\ filed' = filed \ {l}
          /\ Reaches(l, "deciding")
       \/ pinFile.form = "torn" /\ Reaches(l, "refused") /\ UNCHANGED <<pins, filed>>
    /\ Same(l) /\ UNCHANGED <<pinFile, pinFaults>>

Pin(l) == pins[l][Lower[server[l]]]

\* rustls_webpki_verified: the caller's word that an authority vouched for the
\* chain is that there is a certificate.
ByAuthority(l) == presented[l] # Empty

\* A first use is pinned in the copy, which is then saved if it knows its file.
Record(l) ==
    /\ certPolicy[l] = "TrustOnFirstUse" /\ Pin(l) = Absent
    /\ pins' = [pins EXCEPT ![l][Lower[server[l]]] = presented[l]]
    /\ Reaches(l, IF l \in filed THEN "opening" ELSE "refused")

\* verify: an authority's word is enough; else the policy decides.
Verify(l) ==
    /\ link[l] = "deciding"
    /\ \/ ByAuthority(l) /\ Reaches(l, "accepted") /\ UNCHANGED pins
       \/ ~ByAuthority(l) /\ certPolicy[l] = "Verify" /\ Reaches(l, "refused") /\ UNCHANGED pins
       \/ /\ ~ByAuthority(l) /\ certPolicy[l] # "Verify"
          /\ \/ Pin(l) = presented[l] /\ Reaches(l, "accepted")
             \/ /\ Pin(l) # presented[l] /\ Reaches(l, "refused")
                /\ certPolicy[l] = "TrustOnFirstUse" => Pin(l) # Absent
          /\ UNCHANGED pins
       \/ ~ByAuthority(l) /\ Record(l)
    /\ Same(l) /\ UNCHANGED <<pinFile, filed, pinFaults>>

\* save writes the file in place and then restricts it to its owner.
TruncatePins(l) ==
    /\ link[l] = "opening"
    /\ \/ /\ pinFile' = [form |-> "torn", entries |-> NoPins]
          /\ Reaches(l, "writing") /\ UNCHANGED pinFaults
       \/ PinFault /\ Reaches(l, "refused") /\ UNCHANGED pinFile
    /\ Same(l) /\ UNCHANGED <<pins, filed>>

WritePins(l) ==
    /\ link[l] = "writing"
    /\ \/ /\ pinFile' = [form |-> "whole", entries |-> pins[l]]
          /\ Reaches(l, "restricting") /\ UNCHANGED pinFaults
       \/ PinFault /\ Reaches(l, "refused") /\ UNCHANGED pinFile
    /\ Same(l) /\ UNCHANGED <<pins, filed>>

RestrictPins(l) ==
    /\ link[l] = "restricting"
    /\ \/ Reaches(l, "accepted") /\ UNCHANGED pinFaults
       \/ PinFault /\ Reaches(l, "refused")
    /\ Same(l) /\ UNCHANGED <<pinFile, pins, filed>>

PinNext ==
    \E l \in Links :
        \/ DialServer(l) \/ LoadPins(l) \/ Verify(l)
        \/ TruncatePins(l) \/ WritePins(l) \/ RestrictPins(l)

PinSpec == PinInit /\ [][PinNext]_pinVars

-------------------------------------------------------------------------------
(* A statement of the repository that its code does not keep. *)

\* docs/SECURITY.md:15, "self-signed certificates must be pinned, and a changed
\* fingerprint is refused": a connection to a server that presents a certificate
\* no authority vouches for is accepted only if that very certificate is pinned
\* for the server's name.
SelfSignedIsPinned ==
    \A l \in Links :
        link[l] = "accepted" /\ presented[l] \in SelfSigned => Pin(l) = presented[l]
===============================================================================
