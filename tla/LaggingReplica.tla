--------------------------- MODULE LaggingReplica ---------------------------
(***************************************************************************)
(* What a replicating client promises: it shows the world of the server as *)
(* it was at some moment, moves through the server's past one change at a  *)
(* time and only forward, and gets to every change in the end.             *)
(***************************************************************************)
EXTENDS Naturals, Sequences

CONSTANT FirstWorld

VARIABLES
    past,    \* the worlds of the server so far, oldest first
    at,      \* the one the client is at
    shown    \* what the client shows

Init ==
    /\ past = <<FirstWorld>>
    /\ at = 1
    /\ shown = FirstWorld

\* The server changes its world.
Change ==
    /\ Len(past') = Len(past) + 1
    /\ \A k \in 1..Len(past) : past'[k] = past[k]
    /\ UNCHANGED <<at, shown>>

\* The client moves on to the next world.
Show ==
    /\ at < Len(past)
    /\ at' = at + 1
    /\ shown' = past[at + 1]
    /\ UNCHANGED past

Next == Change \/ Show

Spec == Init /\ [][Next]_<<past, at, shown>> /\ WF_<<past, at, shown>>(Show)
=============================================================================
