---------------------------- MODULE MCOxTransfer -----------------------------
(* Small instances of OxTransfer for TLC.                                     *)
EXTENDS OxTransfer

Setup(manyRanks, mayFail) == [manyRanks |-> manyRanks, mayFail |-> mayFail]

MCSetups == {Setup(TRUE, FALSE), Setup(TRUE, TRUE), Setup(FALSE, FALSE)}
MCAlone  == {Setup(FALSE, FALSE)}
=============================================================================
