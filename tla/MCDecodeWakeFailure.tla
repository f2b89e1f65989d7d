------------------------ MODULE MCDecodeWakeFailure ------------------------
(* A small instance of DecodeWakeFailure for TLC.                          *)
EXTENDS DecodeWakeFailure

OnePolicy == {{"sequential"}, {"parallel"}}
=============================================================================
