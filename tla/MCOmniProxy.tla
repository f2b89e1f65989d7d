---------------------------- MODULE MCOmniProxy ----------------------------
(* Small instances of OmniProxy for TLC.                                   *)
EXTENDS OmniProxy

(* The phases in which a request ends early in normal operation: the body  *)
(* cannot be read, or the client or an endpoint gives up while a prefill   *)
(* subrequest or a decode upstream is running.                             *)
NormalAborts == {"tokenizing", "prefilling", "decoding"}

(* nginx may close a connection at any time (worker_shutdown_timeout, an   *)
(* allocation that fails in a wakeup).  These are the phases in which the  *)
(* request may then be assigned to an endpoint it does not run on yet.     *)
AssignedAborts == {"p_scheduled", "prefilling", "d_waiting", "d_scheduled"}

(* All locations of a server share one policy, or they do not.             *)
OnePolicy   == {{"sequential"}, {"parallel"}}
MixedPolicy == {{"sequential", "parallel"}}
=============================================================================
