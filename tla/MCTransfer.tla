----------------------------- MODULE MCTransfer -----------------------------
(* Instances of Transfer for TLC. *)
EXTENDS Transfer

\* One DOWNLOAD may find the boost count taken down once too often; the model
\* stops issuing DOWNLOADs below that.
MCBoostFloor == 0
=============================================================================
