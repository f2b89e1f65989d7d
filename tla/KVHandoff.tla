------------------------------ MODULE KVHandoff ------------------------------
(* What moving the key/value cache of a request from a prefill instance to a  *)
(* decode instance promises: the source keeps its blocks for as long as the   *)
(* destination may read them, and the destination computes only with blocks   *)
(* it has read completely.  KVTransfer and OxTransfer implement this.         *)
EXTENDS FiniteSets

CONSTANT Requests

VARIABLES src,  \* [Requests -> {"computing", "held", "free"}]
          dst,  \* [Requests -> {"none", "reading", "read", "gone"}]
          use   \* requests the destination computes with

hvars == <<src, dst, use>>

HTypeOK ==
    /\ src \in [Requests -> {"computing", "held", "free"}]
    /\ dst \in [Requests -> {"none", "reading", "read", "gone"}]
    /\ use \subseteq Requests

HInit ==
    /\ src = [r \in Requests |-> "computing"]
    /\ dst = [r \in Requests |-> "none"]
    /\ use = {}

(* The source finishes with r: it holds the blocks for the destination, or    *)
(* nobody wants them.                                                         *)
Hold(r) ==
    /\ src[r] = "computing"
    /\ src' = [src EXCEPT ![r] = "held"]
    /\ UNCHANGED <<dst, use>>

Drop(r) ==
    /\ src[r] = "computing"
    /\ src' = [src EXCEPT ![r] = "free"]
    /\ dst' = [dst EXCEPT ![r] = "gone"]
    /\ UNCHANGED use

Read(r) ==
    /\ src[r] = "held" /\ dst[r] = "none"
    /\ dst' = [dst EXCEPT ![r] = "reading"]
    /\ UNCHANGED <<src, use>>

GiveUp(r) ==
    /\ dst[r] = "none"
    /\ dst' = [dst EXCEPT ![r] = "gone"]
    /\ UNCHANGED <<src, use>>

(* Reads end, and a reader that has died leaves others undone.                *)
ReadDone(S, lost) ==
    /\ S \cup lost # {}
    /\ \A r \in S \cup lost : dst[r] = "reading"
    /\ dst' = [r \in Requests |-> IF r \in S THEN "read"
                                 ELSE IF r \in lost THEN "gone" ELSE dst[r]]
    /\ UNCHANGED <<src, use>>

(* Several requests may be let go, or taken into use, in one step.            *)
Release(S) ==
    /\ S # {}
    /\ \A r \in S : src[r] = "held" /\ dst[r] \in {"read", "gone"}
    /\ src' = [r \in Requests |-> IF r \in S THEN "free" ELSE src[r]]
    /\ UNCHANGED <<dst, use>>

Use(S) ==
    /\ S # {}
    /\ \A r \in S : dst[r] = "read"
    /\ use' = use \cup S
    /\ UNCHANGED <<src, dst>>

StopUse(r) ==
    /\ use' = use \ {r}
    /\ UNCHANGED <<src, dst>>

HNext ==
    \/ \E r \in Requests :
          Hold(r) \/ Drop(r) \/ Read(r) \/ GiveUp(r) \/ StopUse(r)
    \/ \E S \in SUBSET Requests : Release(S) \/ Use(S)
    \/ \E S, lost \in SUBSET Requests : ReadDone(S, lost)

HSpec == HInit /\ [][HNext]_hvars

----------------------------------------------------------------------------
(* Properties *)

(* The source has not let go of, or not yet written, what is being read.      *)
SourceKeepsReads == \A r \in Requests : dst[r] = "reading" => src[r] = "held"

(* What the destination computes with has been read to its end, and from a    *)
(* source that had finished.                                                  *)
UsesOnlyRead ==
    \A r \in use : dst[r] = "read" /\ src[r] # "computing"
=============================================================================
