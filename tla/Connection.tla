----------------------------- MODULE Connection -----------------------------
(***************************************************************************)
(* What the two programs at the ends of TCP connections are promised:      *)
(* every end receives the bytes sent to it in the order sent, none twice   *)
(* and none missing; once it is told that nothing follows, nothing         *)
(* follows; and an end that is closed takes with it only what was on its   *)
(* way to it, and comes back as new.                                       *)
(***************************************************************************)
EXTENDS Integers, Sequences

CONSTANTS Ends, NULL,
          MaxBytes   \* bound on the bytes sent to one end

VARIABLES peer,    \* peer[e]: the end that sends to e, NULL when there is none
          wire,    \* wire[e]: the bytes on their way to e
          sent,    \* sent[e]: how many bytes have been sent to e
          ended    \* ended[e]: e has been told that nothing follows

vars == <<peer, wire, sent, ended>>

New(e) == peer[e] = NULL /\ wire[e] = <<>> /\ sent[e] = 0 /\ ~ended[e]

Init == \A e \in Ends : New(e)

Connect(a, b) ==
    /\ a # b /\ New(a) /\ New(b)
    /\ peer' = [peer EXCEPT ![a] = b, ![b] = a]
    /\ UNCHANGED <<wire, sent, ended>>

\* The k-th byte sent to an end is k.
Send(e, n) ==
    /\ peer[e] # NULL /\ ~ended[e] /\ sent[e] + n <= MaxBytes
    /\ wire' = [wire EXCEPT ![e] = @ \o [i \in 1..n |-> sent[e] + i]]
    /\ sent' = [sent EXCEPT ![e] = @ + n]
    /\ UNCHANGED <<peer, ended>>

Receive(e, n) ==
    /\ n \in 1..Len(wire[e])
    /\ wire' = [wire EXCEPT ![e] = SubSeq(@, n + 1, Len(@))]
    /\ UNCHANGED <<peer, sent, ended>>

\* The sender of e has no more to say; it still receives.
Finish(e) ==
    /\ peer[e] # NULL
    /\ ended' = [ended EXCEPT ![e] = TRUE]
    /\ UNCHANGED <<peer, wire, sent>>

\* The ends in gone are closed together; their peers are on their own.
Close(gone) ==
    LET cut == {e \in Ends \ gone : peer[e] \in gone} IN
    /\ peer' = [e \in Ends |-> IF e \in gone \cup cut THEN NULL ELSE peer[e]]
    /\ wire' = [e \in Ends |-> IF e \in gone THEN <<>> ELSE wire[e]]
    /\ sent' = [e \in Ends |-> IF e \in gone THEN 0 ELSE sent[e]]
    /\ ended' = [e \in Ends |-> e \notin gone /\ (ended[e] \/ e \in cut)]

Next ==
    \/ \E a, b \in Ends : Connect(a, b)
    \/ \E e \in Ends : Finish(e) \/ \E n \in 1..MaxBytes : Send(e, n) \/ Receive(e, n)
    \/ \E gone \in SUBSET Ends : Close(gone)

Spec == Init /\ [][Next]_vars
=============================================================================
