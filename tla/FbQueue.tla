------------------------------- MODULE FbQueue -------------------------------
(***************************************************************************)
(* The receive queue of a component: fbqueue.c with one reader (the mode   *)
(* fbq_init sets up and every component uses) over the ring buffer macros  *)
(* of rbuffer.h.  Producers are the threads inside msi_output_fb of the    *)
(* upstream components; they may interrupt each other and the reader       *)
(* anywhere except in an irq-protected section.  The reader fetches with   *)
(* RB_GET, which is not protected: reading the slot and moving rpos are    *)
(* two steps.                                                              *)
(***************************************************************************)
EXTENDS Naturals, Sequences, FiniteSets, FiniteSetsExt

CONSTANTS Fbs,          \* frames in circulation
          Producers,    \* threads that output frames into this queue
          Reader,       \* the thread of the component that owns the queue
          Tracers,      \* threads that call fbq_trace(.., discard = 1)
          QSlots,       \* rbQ.qsize: one more than the frames that fit
          SemaMax,      \* tokens the semaphore can hold: 65535 in the code
          NULL

Threads == Producers \cup {Reader} \cup Tracers

ASSUME FbqAssumption ==
    /\ QSlots \in Nat \ {0, 1} /\ SemaMax \in Nat \ {0}
    /\ NULL \notin Fbs /\ Reader \notin Producers /\ IsFiniteSet(Producers)
    /\ Tracers \cap Producers = {}

VARIABLES
    \* struct fbqueue
    init, rbq, rpos, wpos, sema,
    \* users[f]: fb->users of the frame (its own chain is FrameBuff's matter)
    users,
    \* per thread: where it is, and the frame it works on
    pc, fb,
    \* the reader's tmo_ms: none, some milliseconds, or 0xffffffff
    tmo

qVars == <<init, rbq, rpos, wpos, sema>>
vars  == <<qVars, users, pc, fb, tmo>>

Slots == 0 .. QSlots - 1
PcSend == {"enqueue", "set", "up", "drop", "end"}
PcRead == {"check", "advance", "down", "hold"}

TypeOK ==
    /\ init \in BOOLEAN
    /\ rbq \in [Slots -> Fbs \cup {NULL}]
    /\ rpos \in Slots /\ wpos \in Slots
    /\ sema \in 0 .. SemaMax
    /\ users \in [Fbs -> Nat]
    /\ pc \in [Threads -> {"idle", "discard"} \cup PcSend \cup PcRead]
    /\ fb \in [Threads -> Fbs \cup {NULL}]
    /\ tmo \in {"zero", "some", "forever"}

Init ==
    /\ init = TRUE
    /\ rbq = [i \in Slots |-> NULL]
    /\ rpos = 0 /\ wpos = 0 /\ sema = 0
    /\ users = [f \in Fbs |-> 0]
    /\ pc = [t \in Threads |-> "idle"]
    /\ fb = [t \in Threads |-> NULL]
    /\ tmo = "zero"

(***************************************************************************)
(* rbuffer.h                                                               *)
(***************************************************************************)
(* Mutant: the wrap comes one position late. *)
RB_NPOS_late(pos, i) == IF pos + i > QSlots THEN pos + i - QSlots ELSE pos + i

RB_NPOS(pos, i) == IF pos + i >= QSlots THEN pos + i - QSlots ELSE pos + i
RB_EMPTY == wpos = rpos
(* Mutant: the test for a full ring forgets that positions wrap. *)
RB_FULL_nowrap == wpos + 1 = rpos

RB_FULL  == RB_NPOS(wpos, 1) = rpos
RB_COUNT == IF rpos <= wpos THEN wpos - rpos ELSE QSlots - rpos + wpos

Goto(t, l) == pc' = [pc EXCEPT ![t] = l]
Hold(t, f) == fb' = [fb EXCEPT ![t] = f]

fb_get(f) == users' = [users EXCEPT ![f] = @ + 1]
fb_put(f) == IF f = NULL THEN UNCHANGED users
             ELSE users' = [users EXCEPT ![f] = IF @ > 0 THEN @ - 1 ELSE 0]

(***************************************************************************)
(* A producer: one frame through msi_output_fb into fbq_enqueue.           *)
(***************************************************************************)
(* A frame fresh from fb_alloc or the pool, with the caller's count. *)
msi_output_fb(p, f) ==
    /\ pc[p] = "idle" /\ users[f] = 0
    /\ users' = [users EXCEPT ![f] = 1]
    /\ Goto(p, "enqueue") /\ Hold(p, f)
    /\ UNCHANGED <<qVars, tmo>>

fbq_enqueue(p) ==
    /\ pc[p] = "enqueue"
    /\ IF init THEN fb_get(fb[p]) /\ Goto(p, "set")
               ELSE UNCHANGED users /\ Goto(p, "end")
    /\ UNCHANGED <<qVars, fb, tmo>>

(* Mutant: no token for the frame. *)
RB_INT_SET_quiet(p) ==
    /\ pc[p] = "set"
    /\ IF RB_FULL
       THEN Goto(p, "drop") /\ UNCHANGED <<rbq, wpos>>
       ELSE /\ rbq' = [rbq EXCEPT ![wpos] = fb[p]]
            /\ wpos' = RB_NPOS(wpos, 1)
            /\ Goto(p, "end")
    /\ UNCHANGED <<init, rpos, sema, users, fb, tmo>>

RB_INT_SET(p) ==
    /\ pc[p] = "set"
    /\ IF RB_FULL
       THEN Goto(p, "drop") /\ UNCHANGED <<rbq, wpos>>
       ELSE /\ rbq' = [rbq EXCEPT ![wpos] = fb[p]]
            /\ wpos' = RB_NPOS(wpos, 1)
            /\ Goto(p, "up")
    /\ UNCHANGED <<init, rpos, sema, users, fb, tmo>>

os_sema_up(p) ==
    /\ pc[p] = "up"
    /\ sema' = IF sema < SemaMax THEN sema + 1 ELSE sema
    /\ Goto(p, "end")
    /\ UNCHANGED <<init, rbq, rpos, wpos, users, fb, tmo>>

(* Mutant: a frame that does not fit keeps its count. *)
enqueue_full_leak(p) == pc[p] = "drop" /\ Goto(p, "end") /\ UNCHANGED <<qVars, users, fb, tmo>>

(* The queue was full: fbq_enqueue takes its count back. *)
enqueue_full(p) ==
    /\ pc[p] = "drop"
    /\ fb_put(fb[p])
    /\ Goto(p, "end")
    /\ UNCHANGED <<qVars, fb, tmo>>

(* msi_output_fb gives up the caller's count last. *)
output_done(p) ==
    /\ pc[p] = "end"
    /\ fb_put(fb[p])
    /\ Goto(p, "idle") /\ Hold(p, NULL)
    /\ UNCHANGED <<qVars, tmo>>

(***************************************************************************)
(* The reader: fbq_dequeue(q, tmo_ms).                                     *)
(***************************************************************************)
fbq_dequeue(t) ==
    /\ pc[Reader] = "idle" /\ init
    /\ tmo' = t
    /\ Goto(Reader, "check")
    /\ UNCHANGED <<qVars, users, fb>>

(* One round of the loop up to the wait; the first half of RB_GET. *)
dequeue_check ==
    /\ pc[Reader] = "check"
    /\ IF ~RB_EMPTY
       THEN Hold(Reader, rbq[rpos]) /\ Goto(Reader, "advance")
       ELSE Goto(Reader, IF tmo = "zero" THEN "idle" ELSE "down") /\ UNCHANGED fb
    /\ UNCHANGED <<qVars, users, tmo>>

(* The second half of RB_GET: rpos moves on, fbq_dequeue returns fb. *)
dequeue_advance ==
    /\ pc[Reader] = "advance"
    /\ rpos' = RB_NPOS(rpos, 1)
    /\ Goto(Reader, "hold")
    /\ UNCHANGED <<init, rbq, wpos, sema, users, fb, tmo>>

(* A token ends the wait, a finite wait ends without one; then the clock   *)
(* says whether time is left for another round.                            *)
os_sema_down ==
    /\ pc[Reader] = "down"
    /\ \/ sema > 0 /\ sema' = sema - 1
       \/ sema = 0 /\ tmo = "some" /\ UNCHANGED sema
    /\ \/ Goto(Reader, "check")
       \/ tmo = "some" /\ Goto(Reader, "idle")
    /\ UNCHANGED <<init, rbq, rpos, wpos, users, fb, tmo>>

(* The component is done with the frame it fetched. *)
reader_done ==
    /\ pc[Reader] = "hold"
    /\ fb_put(fb[Reader])
    /\ Goto(Reader, "idle") /\ Hold(Reader, NULL)
    /\ UNCHANGED <<qVars, tmo>>

(***************************************************************************)
(* fbq_trace(q, f, 1): the lowest slot in use that holds f, one irq-       *)
(* protected scan, then fb_put outside of it.                              *)
(***************************************************************************)
Used == {i \in Slots : IF rpos <= wpos THEN rpos <= i /\ i < wpos ELSE i < wpos \/ rpos <= i}

(* Mutant: the slot of a discarded frame keeps its pointer. *)
fbq_trace_kept(t, f) ==
    /\ pc[t] = "idle" /\ init
    /\ \E i \in Used : rbq[i] = f
    /\ Goto(t, "discard") /\ Hold(t, f)
    /\ UNCHANGED <<qVars, users, tmo>>

fbq_trace(t, f) ==
    /\ pc[t] = "idle" /\ init
    /\ LET hits == {i \in Used : rbq[i] = f} IN
       /\ hits # {}
       /\ rbq' = [rbq EXCEPT ![Min(hits)] = NULL]
    /\ Goto(t, "discard") /\ Hold(t, f)
    /\ UNCHANGED <<init, rpos, wpos, sema, users, tmo>>

trace_put(t) ==
    /\ pc[t] = "discard"
    /\ fb_put(fb[t])
    /\ Goto(t, "idle") /\ Hold(t, NULL)
    /\ UNCHANGED <<qVars, tmo>>

(***************************************************************************)
(* fbq_destory from the last msi_put of the component, fbq_init from a     *)
(* later msi_new of the same name.  Whoever outputs into the component     *)
(* holds a reference to it, and its own thread has stopped, so nobody is   *)
(* inside the queue.                                                       *)
(***************************************************************************)
Outside(t) == pc[t] \in {"idle", "hold", "end"}

Waiting(f) == Cardinality({i \in Used : rbq[i] = f})

fbq_destory ==
    /\ init /\ \A t \in Threads : Outside(t)
    /\ users' = [f \in Fbs |-> IF users[f] > Waiting(f) THEN users[f] - Waiting(f) ELSE 0]
    /\ rpos' = wpos
    /\ sema' = 0
    /\ init' = FALSE
    /\ UNCHANGED <<rbq, wpos, pc, fb, tmo>>

fbq_init ==
    /\ ~init /\ \A t \in Threads : Outside(t)
    /\ rbq' = [i \in Slots |-> NULL]
    /\ rpos' = 0 /\ wpos' = 0 /\ sema' = 0
    /\ init' = TRUE
    /\ UNCHANGED <<users, pc, fb, tmo>>

(***************************************************************************)
(* The specification.                                                      *)
(***************************************************************************)
Send(p) ==
    \/ fbq_enqueue(p) \/ RB_INT_SET(p) \/ os_sema_up(p)
    \/ enqueue_full(p) \/ output_done(p)

Read == dequeue_check \/ dequeue_advance \/ os_sema_down \/ reader_done

Next ==
    \/ \E p \in Producers : Send(p) \/ \E f \in Fbs : msi_output_fb(p, f)
    \/ Read
    \/ \E t \in {"zero", "some", "forever"} : fbq_dequeue(t)
    \/ \E t \in Tracers : trace_put(t) \/ \E f \in Fbs : fbq_trace(t, f)
    \/ fbq_destory \/ fbq_init

Spec == Init /\ [][Next]_vars

(* A thread inside the queue code keeps running. *)
Fairness ==
    /\ \A p \in Producers : WF_vars(Send(p))
    /\ WF_vars(Read)
    /\ \A t \in Tracers : WF_vars(trace_put(t))

FairSpec == Spec /\ Fairness

-----------------------------------------------------------------------------
(* The counts that are out on frame f: one of each producer, another while *)
(* it is between fb_get and the slot, one of each slot in use, one of the  *)
(* reader, one of a discard that has not put it yet.                       *)
Senders(f, pcs) == {p \in Producers : fb[p] = f /\ pc[p] \in pcs}
Takers(f) == {t \in Tracers \cup {Reader} : fb[t] = f /\ pc[t] \in {"hold", "discard"}}

(* Every count on a frame belongs to exactly one place: nothing is lost    *)
(* when the queue is full or destroyed, and nothing is given back twice,   *)
(* whatever the order of fb_get, slot write, token, read, rpos and fb_put. *)
RefsExact ==
    \A f \in Fbs :
        users[f] = Cardinality(Senders(f, PcSend)) + Cardinality(Senders(f, {"set", "drop"}))
                   + Waiting(f) + Cardinality(Takers(f))

(* fb_free's ASSERT: whoever drops a count finds one. *)
PutFindsCount ==
    \A t \in Threads : pc[t] \in {"drop", "end", "hold", "discard"} /\ fb[t] # NULL
                           => users[fb[t]] > 0

(* A reader that waits while a frame is in the queue has a token, or the   *)
(* producer of the frame is about to give it one: the check of RB_EMPTY    *)
(* and the wait are not atomic, and tokens outlive the frames they were    *)
(* given for.                                                              *)
NoLostWakeup ==
    pc[Reader] = "down" /\ ~RB_EMPTY => sema > 0 \/ \E p \in Producers : pc[p] = "up"

(* A reader that waits without a time limit gets the frame. *)
WaitEnds ==
    (pc[Reader] = "down" /\ tmo = "forever" /\ ~RB_EMPTY) ~> pc[Reader] = "hold"

(* The queue is a bounded FIFO: RB_INT_SET is the put, moving rpos the get. *)
Queued == [i \in 1 .. RB_COUNT |-> rbq[RB_NPOS(rpos, i - 1)]]

Fifo == INSTANCE BoundedFifo WITH
    Frames <- Fbs,
    Capacity <- QSlots - 1,
    open <- init,
    queue <- Queued,
    got <- IF pc[Reader] = "hold" THEN <<fb[Reader]>> ELSE <<>>

(* fbq_enqueue / fbq_dequeue / fbq_trace / fbq_destory implement it. *)
IsFifo == Fifo!Spec
=============================================================================
