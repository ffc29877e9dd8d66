----------------------------- MODULE BoundedFifo -----------------------------
(***************************************************************************)
(* What a receive queue (struct fbqueue) promises the components on both   *)
(* sides: while it is open, frames come out once each, in the order they   *)
(* went in, at most Capacity of them wait, and one that is discarded       *)
(* leaves an empty slot behind that its reader gets as NULL.               *)
(***************************************************************************)
EXTENDS Naturals, Sequences

CONSTANTS Frames, Capacity, NULL

VARIABLES open,    \* the queue is initialised
          queue,   \* the frames that wait, oldest first
          got      \* what the reader took last and has not let go: <<>> or <<f>>

fifoVars == <<open, queue, got>>

Init == open = TRUE /\ queue = <<>> /\ got = <<>>

Put(f) ==
    /\ open /\ Len(queue) < Capacity
    /\ queue' = Append(queue, f)
    /\ UNCHANGED <<open, got>>

Get ==
    /\ open /\ queue # <<>> /\ got = <<>>
    /\ got' = <<Head(queue)>>
    /\ queue' = Tail(queue)
    /\ UNCHANGED open

Release ==
    /\ got # <<>>
    /\ got' = <<>>
    /\ UNCHANGED <<open, queue>>

Discard(i) ==
    /\ open /\ queue[i] # NULL
    /\ queue' = [queue EXCEPT ![i] = NULL]
    /\ UNCHANGED <<open, got>>

(* The queue is destroyed, what waits in it is put back; or set up anew. *)
Close == open /\ open' = FALSE /\ queue' = <<>> /\ UNCHANGED got
Reopen == ~open /\ open' = TRUE /\ queue = <<>> /\ UNCHANGED <<queue, got>>

Next ==
    \/ \E f \in Frames : Put(f)
    \/ Get \/ Release \/ Close \/ Reopen
    \/ \E i \in 1 .. Len(queue) : Discard(i)

Spec == Init /\ [][Next]_fifoVars
=============================================================================
