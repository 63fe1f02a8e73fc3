----------------------------- MODULE FileDelivery -----------------------------
(***************************************************************************)
(* What the download of a session promises: the files reach the client one *)
(* after the other, the device counts a file only when the client has it   *)
(* whole, and calls the transfer complete only when all are counted.       *)
(***************************************************************************)
EXTENDS Integers

CONSTANT NFiles

VARIABLES delivered,  \* the files the client has, whole
          counted,    \* the device's count: files 1..counted
          status      \* "running", "complete" or "failed"

vars == <<delivered, counted, status>>

Init == delivered = {} /\ counted = 0 /\ status = "running"

\* The device is at most one file ahead of its count.
Deliver ==
    /\ counted < NFiles
    /\ delivered' = delivered \cup {counted + 1}
    /\ UNCHANGED <<counted, status>>

Count ==
    /\ status = "running" /\ counted + 1 \in delivered
    /\ counted' = counted + 1
    /\ status' = IF counted' = NFiles THEN "complete" ELSE "running"
    /\ UNCHANGED delivered

GiveUp ==
    /\ status = "running"
    /\ status' = "failed"
    /\ UNCHANGED <<delivered, counted>>

Next == Deliver \/ Count \/ GiveUp

Spec == Init /\ [][Next]_vars
=============================================================================
