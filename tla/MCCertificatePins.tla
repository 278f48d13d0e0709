--------------------------- MODULE MCCertificatePins ---------------------------
(* CertificatePins with two spellings of one server's name. *)
EXTENDS CertificatePins

MCLower == [s \in {"Host", "host"} |-> "host"]
===============================================================================
