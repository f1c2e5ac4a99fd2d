--------------------------- MODULE SerialChannel ---------------------------
(***************************************************************************)
(* What class AsyncSerial promises to a user who writes: the bytes handed  *)
(* to write() reach the device that is attached at the time, in the order  *)
(* in which they were accepted, none skipped and none twice.  Nothing is   *)
(* promised about when, or about a device that fails: data may stay in the *)
(* backlog for ever.  Module AsyncSerial is shown to implement this.       *)
(***************************************************************************)
EXTENDS Naturals, Sequences

CONSTANT Data       \* what one call of write() hands over

VARIABLES
    accepted,       \* everything write() has taken, in order
    sent,           \* everything the devices have been given, in order
    attached        \* a device is open

vars == <<accepted, sent, attached>>

Init ==
    /\ accepted = <<>>
    /\ sent = <<>>
    /\ attached = FALSE

Accept(d) ==
    /\ accepted' = Append(accepted, d)
    /\ UNCHANGED <<sent, attached>>

Transmit ==
    /\ attached
    /\ Len(sent) < Len(accepted)
    /\ sent' = Append(sent, accepted[Len(sent) + 1])
    /\ UNCHANGED <<accepted, attached>>

Attach ==
    /\ ~attached
    /\ attached' = TRUE
    /\ UNCHANGED <<accepted, sent>>

Detach ==
    /\ attached
    /\ attached' = FALSE
    /\ UNCHANGED <<accepted, sent>>

Next ==
    \/ \E d \in Data : Accept(d)
    \/ Transmit
    \/ Attach
    \/ Detach

Spec == Init /\ [][Next]_vars
=============================================================================
