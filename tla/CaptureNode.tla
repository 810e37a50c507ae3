----------------------------- MODULE CaptureNode -----------------------------
(***************************************************************************)
(* What a capture node promises the processes that open it: one of them is *)
(* inside at a time, and whether the frame interrupt serves the stream     *)
(* changes only in a call by which that process starts or stops it, never  *)
(* in the interrupt itself, in poll or in read.  A stream its owner left   *)
(* running is found running by the next one.                               *)
(***************************************************************************)
CONSTANT Procs

VARIABLES inside,    \* the processes that have the node open
          changing,  \* one of them is in a call that starts or stops the stream
          armed      \* the frame interrupt serves the stream

nodeVars == <<inside, changing, armed>>

Init == inside = {} /\ changing = FALSE /\ armed = FALSE

Enter(p) == inside = {} /\ inside' = {p} /\ UNCHANGED <<changing, armed>>

Leave(p) ==
    /\ inside = {p} /\ ~changing
    /\ inside' = {}
    /\ UNCHANGED <<changing, armed>>

Begin(p) == inside = {p} /\ changing' = TRUE /\ UNCHANGED <<inside, armed>>

Change(p) ==
    /\ inside = {p} /\ changing
    /\ armed' \in BOOLEAN
    /\ UNCHANGED <<inside, changing>>

Finish(p) == inside = {p} /\ changing' = FALSE /\ UNCHANGED <<inside, armed>>

Next == \E p \in Procs :
            Enter(p) \/ Leave(p) \/ Begin(p) \/ Change(p) \/ Finish(p)

Spec == Init /\ [][Next]_nodeVars
=============================================================================
