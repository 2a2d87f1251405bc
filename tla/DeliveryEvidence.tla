-------------------------- MODULE DeliveryEvidence --------------------------
(***************************************************************************)
(* What the proof of delivery promises: a capture of photos is opened,     *)
(* filled once with all of its files, and used by at most one action log;  *)
(* the log keeps what it was given.  How the server gets there, and what   *)
(* happens to captures nobody uses, is left to PodCapture.                 *)
(***************************************************************************)
CONSTANTS Captures, Keys, Contents, NoLog

VARIABLES sent,    \* the files that belong to each capture
          stage,   \* how far a capture has come
          proof    \* the files of the action log written under a key

evidence == <<sent, stage, proof>>

Init ==
    /\ sent \in Contents
    /\ stage = [c \in Captures |-> "absent"]
    /\ proof = [k \in Keys |-> NoLog]

Open(c) ==
    /\ stage[c] = "absent"
    /\ stage' = [stage EXCEPT ![c] = "open"]
    /\ UNCHANGED proof

Fill(c) ==
    /\ stage[c] = "open"
    /\ stage' = [stage EXCEPT ![c] = "filled"]
    /\ UNCHANGED proof

\* The capture becomes the evidence of a new log, which may also show files of
\* the driver's other captures for the shipment.
Filled == {c \in Captures : stage[c] \in {"filled", "used"}}

Use(c, k) ==
    /\ stage[c] = "filled"
    /\ proof[k] = NoLog
    /\ stage' = [stage EXCEPT ![c] = "used"]
    /\ \E extra \in SUBSET UNION {sent[d] : d \in Filled} :
           proof' = [proof EXCEPT ![k] = sent[c] \cup extra]

Next ==
    /\ \E c \in Captures :
           \/ Open(c)
           \/ Fill(c)
           \/ \E k \in Keys : Use(c, k)
    /\ UNCHANGED sent

Spec == Init /\ [][Next]_evidence
=============================================================================
