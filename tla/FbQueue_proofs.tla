---------------------------- MODULE FbQueue_proofs ----------------------------
(***************************************************************************)
(* Proofs about FbQueue, for any frames, producers and size of the ring.   *)
(***************************************************************************)
EXTENDS FbQueue, FiniteSetTheorems, SequenceTheorems, WellFoundedInduction, TLAPS

(* A position of the ring moves to a position of the ring. *)
LEMMA NextPos ==
  ASSUME NEW i \in Slots
  PROVE  RB_NPOS(i, 1) \in Slots
BY FbqAssumption DEF RB_NPOS, Slots

LEMMA WaitingType ==
  ASSUME NEW f \in Fbs
  PROVE  Waiting(f) \in Nat
<1>1. IsFiniteSet(Slots)
  BY FbqAssumption, FS_Interval DEF Slots
<1>2. IsFiniteSet({i \in Used : rbq[i] = f})
  BY <1>1, FS_Subset DEF Used
<1> QED BY <1>2, FS_CardinalityType DEF Waiting

(* The producers' steps. *)
LEMMA SendType ==
  ASSUME TypeOK, NEW p \in Producers,
         Send(p) \/ \E f \in Fbs : msi_output_fb(p, f)
  PROVE  TypeOK'
<1> USE FbqAssumption DEF TypeOK, PcSend, PcRead, Goto, Hold, qVars, Threads
<1>1. ASSUME NEW f \in Fbs, msi_output_fb(p, f) PROVE TypeOK'
  BY <1>1 DEF msi_output_fb
<1>2. CASE fbq_enqueue(p)
  BY <1>2 DEF fbq_enqueue, fb_get
<1>3. CASE RB_INT_SET(p)
  BY <1>3, NextPos DEF RB_INT_SET
<1>4. CASE os_sema_up(p)
  BY <1>4 DEF os_sema_up
<1>5. CASE enqueue_full(p)
  BY <1>5 DEF enqueue_full, fb_put
<1>6. CASE output_done(p)
  BY <1>6 DEF output_done, fb_put
<1> QED BY <1>1, <1>2, <1>3, <1>4, <1>5, <1>6 DEF Send

(* The reader's and the tracers' steps. *)
LEMMA ReadType ==
  ASSUME TypeOK,
         \/ Read
         \/ \E t \in {"zero", "some", "forever"} : fbq_dequeue(t)
         \/ \E t \in Tracers : trace_put(t) \/ \E f \in Fbs : fbq_trace(t, f)
  PROVE  TypeOK'
<1> USE FbqAssumption DEF TypeOK, PcSend, PcRead, Goto, Hold, qVars, Threads
<1>1. ASSUME NEW t \in {"zero", "some", "forever"}, fbq_dequeue(t) PROVE TypeOK'
  BY <1>1 DEF fbq_dequeue
<1>2. CASE dequeue_check
  BY <1>2 DEF dequeue_check
<1>3. CASE dequeue_advance
  BY <1>3, NextPos DEF dequeue_advance
<1>4. CASE os_sema_down
  BY <1>4 DEF os_sema_down
<1>5. CASE reader_done
  BY <1>5 DEF reader_done, fb_put
<1>6. ASSUME NEW t \in Tracers, trace_put(t) PROVE TypeOK'
  BY <1>6 DEF trace_put, fb_put
<1>7. ASSUME NEW t \in Tracers, NEW f \in Fbs, fbq_trace(t, f) PROVE TypeOK'
  <2>1. PICK i : rbq' = [rbq EXCEPT ![i] = NULL]
    BY <1>7 DEF fbq_trace
  <2>2. /\ pc' = [pc EXCEPT ![t] = "discard"] /\ fb' = [fb EXCEPT ![t] = f]
        /\ UNCHANGED <<init, rpos, wpos, sema, users, tmo>>
    BY <1>7 DEF fbq_trace
  <2> QED BY <2>1, <2>2
<1> QED BY <1>1, <1>2, <1>3, <1>4, <1>5, <1>6, <1>7 DEF Read

LEMMA LifeType ==
  ASSUME TypeOK, fbq_destory \/ fbq_init
  PROVE  TypeOK'
<1>1. 0 \in Slots
  BY FbqAssumption DEF Slots
<1>2. CASE fbq_destory
  <2>1. users' \in [Fbs -> Nat]
    BY <1>2, WaitingType DEF fbq_destory, TypeOK
  <2>2. init' \in BOOLEAN
    BY <1>2, Zenon DEF fbq_destory
  <2>3. sema' \in 0 .. SemaMax
    BY <1>2, FbqAssumption DEF fbq_destory
  <2>4. UNCHANGED <<rbq, wpos, pc, fb, tmo>>
    BY <1>2 DEF fbq_destory
  <2>5. rpos' \in Slots
    BY <1>2 DEF fbq_destory, TypeOK
  <2> QED BY <2>1, <2>2, <2>3, <2>4, <2>5 DEF TypeOK
<1>3. CASE fbq_init
  BY <1>1, <1>3, FbqAssumption DEF fbq_init, TypeOK
<1> QED BY <1>2, <1>3

(* All variables of the queue keep their types; rpos and wpos stay inside  *)
(* the ring.                                                               *)
THEOREM QueueTypeCorrect == Spec => []TypeOK
<1>1. Init => TypeOK
  BY FbqAssumption DEF Init, TypeOK, Slots
<1>2. TypeOK /\ [Next]_vars => TypeOK'
  <2> SUFFICES ASSUME TypeOK, [Next]_vars PROVE TypeOK'
    OBVIOUS
  <2>1. CASE UNCHANGED vars
    BY <2>1 DEF vars, qVars, TypeOK
  <2> QED BY <2>1, SendType, ReadType, LifeType DEF Next
<1> QED BY <1>1, <1>2, PTL DEF Spec

(* A producer that puts a frame in is at "up" afterwards; a token given    *)
(* stays until the reader takes it; the reader starts to wait only when    *)
(* the queue was empty.                                                    *)
LEMMA WakeupStep ==
  ASSUME TypeOK, NoLostWakeup, [Next]_vars
  PROVE  NoLostWakeup'
<1> USE FbqAssumption DEF NoLostWakeup, RB_EMPTY, Goto, Hold, qVars
<1>0. pc \in [Threads -> {"idle", "discard"} \cup PcSend \cup PcRead] /\ sema \in Nat
      /\ Reader \in Threads /\ \A p \in Producers : p \in Threads /\ p # Reader
  BY DEF TypeOK, Threads
<1>1. ASSUME NEW p \in Producers, NEW f \in Fbs, msi_output_fb(p, f) PROVE NoLostWakeup'
  BY <1>0, <1>1 DEF msi_output_fb
<1>2. ASSUME NEW p \in Producers, Send(p) PROVE NoLostWakeup'
  <2>1. CASE fbq_enqueue(p)
    BY <1>0, <2>1 DEF fbq_enqueue
  <2>2. CASE RB_INT_SET(p)
    BY <1>0, <2>2 DEF RB_INT_SET
  <2>3. CASE os_sema_up(p)
    BY <1>0, <2>3 DEF os_sema_up
  <2>4. CASE enqueue_full(p)
    BY <1>0, <2>4 DEF enqueue_full
  <2>5. CASE output_done(p)
    BY <1>0, <2>5 DEF output_done
  <2> QED BY <1>2, <2>1, <2>2, <2>3, <2>4, <2>5 DEF Send
<1>3. CASE Read \/ \E t \in {"zero", "some", "forever"} : fbq_dequeue(t)
  <2>1. pc'[Reader] = "down" => RB_EMPTY /\ UNCHANGED <<rpos, wpos>>
    BY <1>0, <1>3 DEF Read, dequeue_check, dequeue_advance, os_sema_down, reader_done, fbq_dequeue
  <2> QED BY <2>1
<1>4. ASSUME NEW t \in Tracers, trace_put(t) \/ \E f \in Fbs : fbq_trace(t, f)
      PROVE  NoLostWakeup'
  <2>1. /\ UNCHANGED <<rpos, wpos, sema>> /\ t \notin Producers
        /\ pc' = [pc EXCEPT ![t] = "idle"] \/ pc' = [pc EXCEPT ![t] = "discard"]
    BY <1>4 DEF trace_put, fbq_trace
  <2>2. pc'[Reader] = "down" => pc[Reader] = "down"
    BY <1>0, <2>1
  <2>3. \A p \in Producers : pc'[p] = pc[p]
    BY <1>0, <2>1
  <2> QED BY <2>1, <2>2, <2>3
<1>5. CASE fbq_destory \/ fbq_init
  BY <1>0, <1>5 DEF fbq_destory, fbq_init, Outside
<1>6. CASE UNCHANGED vars
  BY <1>6 DEF vars
<1> QED BY <1>1, <1>2, <1>3, <1>4, <1>5, <1>6 DEF Next

(* fbq_dequeue never sleeps through a frame: for every number of producers *)
(* and every ring size.                                                    *)
THEOREM NeverSleepsThrough == Spec => []NoLostWakeup
<1>1. Init => NoLostWakeup
  BY FbqAssumption DEF Init, NoLostWakeup, Threads
<1> QED BY <1>1, WakeupStep, QueueTypeCorrect, PTL DEF Spec

-----------------------------------------------------------------------------
(* When only the component itself discards, as the components do.  With a  *)
(* tracer of another thread the counts go wrong (PutFindsCount).           *)

OwnTracer == Tracers \subseteq {Reader}

(* What the threads inside the queue rely on: nobody destroys it under     *)
(* them, and the frame the reader has looked at stays where it is until    *)
(* rpos has moved over it.                                                 *)
ThreadInv ==
    /\ ~init => RB_EMPTY
    /\ \A p \in Producers :
          /\ pc[p] \in PcSend \cup {"idle"} /\ (pc[p] # "idle" => fb[p] \in Fbs)
          /\ pc[p] \in {"set", "drop", "up"} => init
    /\ pc[Reader] \in PcRead \cup {"idle", "discard"}
    /\ pc[Reader] \in {"check", "advance", "down"} => init
    /\ pc[Reader] = "advance" => ~RB_EMPTY /\ fb[Reader] = rbq[rpos]

LEMMA SendThreads ==
  ASSUME TypeOK, ThreadInv, NEW p \in Producers, Send(p) \/ \E f \in Fbs : msi_output_fb(p, f)
  PROVE  ThreadInv'
<1> USE FbqAssumption DEF ThreadInv, PcSend, PcRead, Goto, Hold, qVars, RB_EMPTY
<1>0. /\ DOMAIN pc = Threads /\ DOMAIN fb = Threads /\ p \in Threads /\ p # Reader
      /\ Reader \in Threads /\ DOMAIN rbq = Slots /\ rpos \in Slots /\ wpos \in Slots
      /\ \A q \in Producers : q \in Threads
  BY DEF TypeOK, Threads
<1>1. ASSUME NEW f \in Fbs, msi_output_fb(p, f) PROVE ThreadInv'
  BY <1>0, <1>1 DEF msi_output_fb
<1>2. CASE fbq_enqueue(p)
  BY <1>0, <1>2 DEF fbq_enqueue
<1>3. CASE RB_INT_SET(p)
  <2>1. /\ UNCHANGED <<init, rpos, fb>> /\ \A q \in Threads \ {p} : pc'[q] = pc[q]
        /\ pc'[p] \in {"drop", "up"} /\ pc[p] = "set"
    BY <1>0, <1>3 DEF RB_INT_SET
  <2>2. ~RB_EMPTY => rbq'[rpos] = rbq[rpos] /\ wpos' # rpos
    BY <1>0, <1>3 DEF RB_INT_SET, RB_FULL
  <2> QED BY <1>0, <2>1, <2>2
<1>4. CASE os_sema_up(p)
  BY <1>0, <1>4 DEF os_sema_up
<1>5. CASE enqueue_full(p)
  BY <1>0, <1>5 DEF enqueue_full
<1>6. CASE output_done(p)
  BY <1>0, <1>6 DEF output_done
<1> QED BY <1>1, <1>2, <1>3, <1>4, <1>5, <1>6 DEF Send

LEMMA ReadThreads ==
  ASSUME OwnTracer, TypeOK, ThreadInv,
         \/ Read
         \/ \E t \in {"zero", "some", "forever"} : fbq_dequeue(t)
         \/ \E t \in Tracers : trace_put(t) \/ \E f \in Fbs : fbq_trace(t, f)
         \/ fbq_destory \/ fbq_init
  PROVE  ThreadInv'
<1> USE FbqAssumption DEF ThreadInv, PcSend, PcRead, Goto, Hold, qVars, RB_EMPTY
<1>0. /\ DOMAIN pc = Threads /\ DOMAIN fb = Threads /\ Reader \in Threads
      /\ \A q \in Producers : q \in Threads /\ q # Reader
  BY DEF TypeOK, Threads
<1>1. ASSUME NEW t \in {"zero", "some", "forever"}, fbq_dequeue(t) PROVE ThreadInv'
  BY <1>0, <1>1 DEF fbq_dequeue
<1>2. CASE dequeue_check \/ dequeue_advance \/ os_sema_down \/ reader_done
  BY <1>0, <1>2 DEF dequeue_check, dequeue_advance, os_sema_down, reader_done
<1>3. ASSUME NEW t \in Tracers, trace_put(t) \/ \E f \in Fbs : fbq_trace(t, f) PROVE ThreadInv'
  BY <1>0, <1>3 DEF trace_put, fbq_trace, OwnTracer
<1>4. CASE fbq_destory \/ fbq_init
  BY <1>0, <1>4 DEF fbq_destory, fbq_init, Outside
<1> QED BY <1>1, <1>2, <1>3, <1>4 DEF Read

-----------------------------------------------------------------------------
(* The ring.                                                               *)

Holds(f) == {i \in Used : rbq[i] = f}

(* A set of positions has a lowest one. *)
LEMMA MinIn ==
  ASSUME NEW S, S \subseteq Slots, S # {}
  PROVE  Min(S) \in S
<1>1. S \subseteq Nat
  BY FbqAssumption DEF Slots
<1>2. \E x \in S : \A y \in S : ~ (<<y, x>> \in OpToRel(<, Nat))
  BY <1>1, NatLessThanWellFounded, WFMin
<1>3. PICK x \in S : \A y \in S : ~ (<<y, x>> \in OpToRel(<, Nat))
  BY <1>2
<1>4. ASSUME NEW y \in S PROVE x <= y
  <2>1. x \in Nat /\ y \in Nat
    BY <1>1
  <2>2. y < x => <<y, x>> \in OpToRel(<, Nat)
    BY <2>1 DEF OpToRel
  <2>3. ~ (y < x)
    BY <1>3, <2>2, Zenon
  <2> QED BY <2>1, <2>3
<1> QED BY <1>4 DEF Min

LEMMA RingPut ==
  ASSUME TypeOK, ~RB_FULL, rpos' = rpos, wpos' = RB_NPOS(wpos, 1)
  PROVE  Used' = Used \cup {wpos} /\ wpos \notin Used
BY FbqAssumption DEF TypeOK, Slots, RB_FULL, RB_NPOS, Used

LEMMA RingGet ==
  ASSUME TypeOK, ~RB_EMPTY, wpos' = wpos, rpos' = RB_NPOS(rpos, 1)
  PROVE  Used' = Used \ {rpos} /\ rpos \in Used
BY FbqAssumption DEF TypeOK, Slots, RB_EMPTY, RB_NPOS, Used

LEMMA RingEmpty ==
  ASSUME TypeOK, RB_EMPTY
  PROVE  Used = {}
BY FbqAssumption DEF TypeOK, Slots, RB_EMPTY, Used

-----------------------------------------------------------------------------
(* Counting references.                                                    *)

LEMMA Finite ==
  ASSUME OwnTracer, NEW f
  PROVE  /\ \A pcs : IsFiniteSet(Senders(f, pcs)) /\ Cardinality(Senders(f, pcs)) \in Nat
         /\ IsFiniteSet(Holds(f)) /\ Cardinality(Holds(f)) \in Nat
         /\ IsFiniteSet(Takers(f)) /\ Cardinality(Takers(f)) \in Nat
<1>1. ASSUME NEW pcs PROVE IsFiniteSet(Senders(f, pcs))
  BY FbqAssumption, FS_Subset DEF Senders
<1>2. IsFiniteSet(Holds(f))
  <2>1. IsFiniteSet(Slots)
    BY FbqAssumption, FS_Interval DEF Slots
  <2> QED BY <2>1, FS_Subset DEF Holds, Used
<1>3. IsFiniteSet(Takers(f))
  <2>1. Tracers \cup {Reader} = {Reader}
    BY DEF OwnTracer
  <2>2. Takers(f) \in SUBSET {Reader}
    BY <2>1 DEF Takers
  <2> QED BY <2>2, FS_Singleton, FS_Subset
<1> QED BY <1>1, <1>2, <1>3, FS_CardinalityType

(* One place more or one less. *)
LEMMA Plus ==
  ASSUME NEW S, IsFiniteSet(S), NEW x, x \notin S
  PROVE  Cardinality(S \cup {x}) = Cardinality(S) + 1
BY FS_AddElement

LEMMA Minus ==
  ASSUME NEW S, IsFiniteSet(S), NEW x \in S
  PROVE  /\ Cardinality(S \ {x}) = Cardinality(S) - 1
         /\ Cardinality(S) \in Nat /\ Cardinality(S) > 0
BY FS_RemoveElement, FS_CardinalityType, FS_EmptySet

(* RefsExact for one frame. *)
Exact(f) ==
    users[f] = Cardinality(Senders(f, PcSend)) + Cardinality(Senders(f, {"set", "drop"}))
               + Cardinality(Holds(f)) + Cardinality(Takers(f))

LEMMA RefsAreExact == /\ RefsExact <=> \A f \in Fbs : Exact(f)
                      /\ RefsExact' <=> \A f \in Fbs : Exact(f)'
BY DEF RefsExact, Exact, Waiting, Holds

LEMMA SendRefs ==
  ASSUME OwnTracer, TypeOK, ThreadInv, RefsExact, NEW p \in Producers,
         Send(p) \/ \E f \in Fbs : msi_output_fb(p, f)
  PROVE  RefsExact'
<1>0. /\ DOMAIN pc = Threads /\ DOMAIN fb = Threads /\ p \in Threads /\ p \notin Tracers \cup {Reader}
      /\ \A q \in Producers : q \in Threads
      /\ \A t \in Tracers \cup {Reader} : t \in Threads
      /\ users \in [Fbs -> Nat] /\ pc[p] \in PcSend \cup {"idle"} /\ (pc[p] # "idle" => fb[p] \in Fbs)
  BY FbqAssumption DEF TypeOK, Threads, ThreadInv
<1>1. SUFFICES ASSUME NEW f \in Fbs PROVE Exact(f)'
  BY RefsAreExact
<1>2. Exact(f) /\ users[f] \in Nat
  BY <1>0, RefsAreExact
<1> DEFINE S1 == Senders(f, PcSend)
           S2 == Senders(f, {"set", "drop"})
<1>3. /\ IsFiniteSet(S1) /\ IsFiniteSet(S2) /\ IsFiniteSet(Holds(f))
      /\ Cardinality(S1) \in Nat /\ Cardinality(S2) \in Nat
      /\ Cardinality(Holds(f)) \in Nat /\ Cardinality(Takers(f)) \in Nat
  BY Finite
<1>4. Takers(f)' = Takers(f)
  <2>1. \A t \in Threads \ {p} : pc'[t] = pc[t] /\ fb'[t] = fb[t]
    BY <1>0 DEF Send, fbq_enqueue, RB_INT_SET, os_sema_up, enqueue_full, output_done,
                msi_output_fb, Goto, Hold
  <2> QED BY <1>0, <2>1 DEF Takers
<1> USE DEF Goto, Hold, qVars
<1>5. ASSUME NEW g \in Fbs, msi_output_fb(p, g) PROVE Exact(f)'
  <2>1. /\ Holds(f)' = Holds(f) /\ p \notin S1 /\ S2' = S2
        /\ S1' = IF f = g THEN S1 \cup {p} ELSE S1
        /\ users'[f] = IF f = g THEN users[f] + 1 ELSE users[f]
    BY <1>0, <1>5 DEF msi_output_fb, Holds, Used, Senders, PcSend
  <2>2. Cardinality(S1') = IF f = g THEN Cardinality(S1) + 1 ELSE Cardinality(S1)
    BY <1>3, <2>1, Plus
  <2> QED BY <1>2, <1>3, <1>4, <2>1, <2>2 DEF Exact
<1>6. CASE fbq_enqueue(p)
  <2>1. /\ Holds(f)' = Holds(f) /\ p \notin S2 /\ S1' = S1
        /\ S2' = IF init /\ f = fb[p] THEN S2 \cup {p} ELSE S2
        /\ users'[f] = IF init /\ f = fb[p] THEN users[f] + 1 ELSE users[f]
    BY <1>0, <1>6 DEF fbq_enqueue, fb_get, Holds, Used, Senders, PcSend
  <2>2. Cardinality(S2') = IF init /\ f = fb[p] THEN Cardinality(S2) + 1 ELSE Cardinality(S2)
    BY <1>3, <2>1, Plus
  <2> QED BY <1>2, <1>3, <1>4, <2>1, <2>2 DEF Exact
<1>7. CASE RB_INT_SET(p)
  <2>0. S1' = S1 /\ users' = users
    BY <1>0, <1>7 DEF RB_INT_SET, Senders, PcSend
  <2>1. CASE RB_FULL
    <3>1. Holds(f)' = Holds(f) /\ S2' = S2
      BY <1>0, <1>7, <2>1 DEF RB_INT_SET, Holds, Used, Senders
    <3> QED BY <1>2, <1>4, <2>0, <3>1 DEF Exact
  <2>2. CASE ~RB_FULL
    <3>1. Used' = Used \cup {wpos} /\ wpos \notin Used
      BY <1>7, <2>2, RingPut DEF RB_INT_SET
    <3>2. /\ rbq' = [rbq EXCEPT ![wpos] = fb[p]] /\ wpos \in Slots /\ DOMAIN rbq = Slots
          /\ Used \subseteq Slots
      BY <1>7, <2>2 DEF RB_INT_SET, TypeOK, Used
    <3>3. Holds(f)' = (IF f = fb[p] THEN Holds(f) \cup {wpos} ELSE Holds(f)) /\ wpos \notin Holds(f)
      BY <3>1, <3>2 DEF Holds
    <3>4. /\ S2' = IF f = fb[p] THEN S2 \ {p} ELSE S2
          /\ f = fb[p] => p \in S2
      BY <1>0, <1>7, <2>2 DEF RB_INT_SET, Senders
    <3>5. Cardinality(Holds(f)') = IF f = fb[p] THEN Cardinality(Holds(f)) + 1 ELSE Cardinality(Holds(f))
      BY <1>3, <3>3, Plus
    <3>6. Cardinality(S2') = IF f = fb[p] THEN Cardinality(S2) - 1 ELSE Cardinality(S2)
      BY <1>3, <3>4, Minus
    <3> QED BY <1>2, <1>3, <1>4, <2>0, <3>5, <3>6 DEF Exact
  <2> QED BY <2>1, <2>2
<1>8. CASE os_sema_up(p)
  <2>1. Holds(f)' = Holds(f) /\ S1' = S1 /\ S2' = S2 /\ users' = users
    BY <1>0, <1>8 DEF os_sema_up, Holds, Used, Senders, PcSend
  <2> QED BY <1>2, <1>4, <2>1 DEF Exact
<1>9. CASE enqueue_full(p)
  <2>1. /\ Holds(f)' = Holds(f) /\ S1' = S1
        /\ S2' = IF f = fb[p] THEN S2 \ {p} ELSE S2
        /\ f = fb[p] => p \in S2
    BY <1>0, <1>9 DEF enqueue_full, Holds, Used, Senders, PcSend
  <2>2. /\ Cardinality(S2') = IF f = fb[p] THEN Cardinality(S2) - 1 ELSE Cardinality(S2)
        /\ f = fb[p] => Cardinality(S2) > 0
    BY <1>3, <2>1, Minus
  <2>3. f = fb[p] => users[f] > 0
    BY <1>2, <1>3, <2>2 DEF Exact
  <2>4. users'[f] = IF f = fb[p] THEN users[f] - 1 ELSE users[f]
    BY <1>0, <1>9, <2>3, FbqAssumption DEF enqueue_full, fb_put
  <2> QED BY <1>2, <1>3, <1>4, <2>1, <2>2, <2>4 DEF Exact
<1>10. CASE output_done(p)
  <2>1. /\ Holds(f)' = Holds(f) /\ S2' = S2
        /\ S1' = IF f = fb[p] THEN S1 \ {p} ELSE S1
        /\ f = fb[p] => p \in S1
    BY <1>0, <1>10 DEF output_done, Holds, Used, Senders, PcSend
  <2>2. /\ Cardinality(S1') = IF f = fb[p] THEN Cardinality(S1) - 1 ELSE Cardinality(S1)
        /\ f = fb[p] => Cardinality(S1) > 0
    BY <1>3, <2>1, Minus
  <2>3. f = fb[p] => users[f] > 0
    BY <1>2, <1>3, <2>2 DEF Exact
  <2>4. users'[f] = IF f = fb[p] THEN users[f] - 1 ELSE users[f]
    BY <1>0, <1>10, <2>3, FbqAssumption DEF output_done, fb_put
  <2> QED BY <1>2, <1>3, <1>4, <2>1, <2>2, <2>4 DEF Exact
<1> QED BY <1>5, <1>6, <1>7, <1>8, <1>9, <1>10 DEF Send

LEMMA ReadRefs ==
  ASSUME OwnTracer, TypeOK, ThreadInv, RefsExact,
         \/ Read
         \/ \E t \in {"zero", "some", "forever"} : fbq_dequeue(t)
         \/ \E t \in Tracers : trace_put(t) \/ \E f \in Fbs : fbq_trace(t, f)
  PROVE  RefsExact'
<1>0. /\ DOMAIN pc = Threads /\ DOMAIN fb = Threads /\ Reader \in Threads
      /\ \A q \in Producers : q \in Threads /\ q # Reader
      /\ Tracers \cup {Reader} = {Reader} /\ users \in [Fbs -> Nat]
      /\ rbq \in [Slots -> Fbs \cup {NULL}] /\ Used \subseteq Slots /\ rpos \in Slots
  BY FbqAssumption DEF TypeOK, Threads, OwnTracer, Used
<1> USE DEF Goto, Hold, qVars
<1>1. SUFFICES ASSUME NEW f \in Fbs PROVE Exact(f)'
  BY RefsAreExact
<1>2. Exact(f) /\ users[f] \in Nat
  BY <1>0, RefsAreExact
<1>3. /\ IsFiniteSet(Holds(f)) /\ IsFiniteSet(Takers(f))
      /\ Cardinality(Senders(f, PcSend)) \in Nat /\ Cardinality(Senders(f, {"set", "drop"})) \in Nat
      /\ Cardinality(Holds(f)) \in Nat /\ Cardinality(Takers(f)) \in Nat
  BY Finite
<1>4. Senders(f, PcSend)' = Senders(f, PcSend)
      /\ Senders(f, {"set", "drop"})' = Senders(f, {"set", "drop"})
  <2>1. \A q \in Producers : pc'[q] = pc[q] /\ fb'[q] = fb[q]
    BY <1>0 DEF Read, dequeue_check, dequeue_advance, os_sema_down, reader_done, fbq_dequeue,
                trace_put, fbq_trace
  <2> QED BY <2>1 DEF Senders
<1>5. CASE dequeue_check \/ os_sema_down \/ \E t \in {"zero", "some", "forever"} : fbq_dequeue(t)
  <2>1. /\ users' = users /\ Holds(f)' = Holds(f) /\ Takers(f)' = Takers(f)
    BY <1>0, <1>5 DEF dequeue_check, os_sema_down, fbq_dequeue, Holds, Used, Takers
  <2> QED BY <1>2, <1>4, <2>1 DEF Exact
<1>6. CASE dequeue_advance
  <2>1. /\ pc[Reader] = "advance" /\ rpos' = RB_NPOS(rpos, 1) /\ UNCHANGED <<rbq, wpos, users, fb>>
        /\ pc' = [pc EXCEPT ![Reader] = "hold"] /\ ~RB_EMPTY /\ fb[Reader] = rbq[rpos]
    BY <1>6 DEF dequeue_advance, ThreadInv
  <2>2. Used' = Used \ {rpos} /\ rpos \in Used
    BY <2>1, RingGet
  <2>3. /\ Holds(f)' = IF f = fb[Reader] THEN Holds(f) \ {rpos} ELSE Holds(f)
        /\ f = fb[Reader] => rpos \in Holds(f)
    BY <2>1, <2>2 DEF Holds
  <2>4. /\ Takers(f)' = IF f = fb[Reader] THEN Takers(f) \cup {Reader} ELSE Takers(f)
        /\ Reader \notin Takers(f)
    BY <1>0, <2>1 DEF Takers
  <2>5. Cardinality(Holds(f)') = IF f = fb[Reader] THEN Cardinality(Holds(f)) - 1
                                                   ELSE Cardinality(Holds(f))
    BY <1>3, <2>3, Minus
  <2>6. Cardinality(Takers(f)') = IF f = fb[Reader] THEN Cardinality(Takers(f)) + 1
                                                    ELSE Cardinality(Takers(f))
    BY <1>3, <2>4, Plus
  <2> QED BY <1>2, <1>3, <1>4, <2>1, <2>5, <2>6 DEF Exact
<1>7. CASE reader_done \/ \E t \in Tracers : trace_put(t)
  <2>1. /\ pc[Reader] \in {"hold", "discard"} /\ fb_put(fb[Reader])
        /\ pc' = [pc EXCEPT ![Reader] = "idle"] /\ fb' = [fb EXCEPT ![Reader] = NULL]
        /\ UNCHANGED <<rbq, rpos, wpos>>
    BY <1>0, <1>7 DEF reader_done, trace_put
  <2>2. Holds(f)' = Holds(f)
    BY <2>1 DEF Holds, Used
  <2>3. /\ Takers(f)' = IF f = fb[Reader] THEN Takers(f) \ {Reader} ELSE Takers(f)
        /\ f = fb[Reader] => Reader \in Takers(f)
    BY <1>0, <2>1 DEF Takers
  <2>4. /\ Cardinality(Takers(f)') = IF f = fb[Reader] THEN Cardinality(Takers(f)) - 1
                                                       ELSE Cardinality(Takers(f))
        /\ f = fb[Reader] => Cardinality(Takers(f)) > 0
    BY <1>3, <2>3, Minus
  <2>5. f = fb[Reader] => users[f] > 0
    BY <1>2, <1>3, <2>4 DEF Exact
  <2>6. users'[f] = IF f = fb[Reader] THEN users[f] - 1 ELSE users[f]
    BY <1>0, <2>1, <2>5, FbqAssumption DEF fb_put, TypeOK
  <2> QED BY <1>2, <1>3, <1>4, <2>2, <2>4, <2>6 DEF Exact
<1>8. ASSUME NEW t \in Tracers, NEW g \in Fbs, fbq_trace(t, g) PROVE Exact(f)'
  <2>1. /\ t = Reader /\ pc[Reader] = "idle" /\ Holds(g) # {}
        /\ rbq' = [rbq EXCEPT ![Min(Holds(g))] = NULL]
        /\ pc' = [pc EXCEPT ![Reader] = "discard"] /\ fb' = [fb EXCEPT ![Reader] = g]
        /\ UNCHANGED <<rpos, wpos, users>>
    BY <1>0, <1>8 DEF fbq_trace, Holds
  <2>2. PICK m : m = Min(Holds(g))
    OBVIOUS
  <2>3. m \in Holds(g)
    BY <1>0, <2>1, <2>2, MinIn DEF Holds
  <2>4. /\ Holds(f)' = (IF f = g THEN Holds(f) \ {m} ELSE Holds(f))
        /\ f = g => m \in Holds(f)
    <3>1. Used' = Used
      BY <2>1 DEF Used
    <3>2. m \in Used /\ rbq[m] = g /\ rbq' = [rbq EXCEPT ![m] = NULL]
      BY <2>1, <2>2, <2>3 DEF Holds
    <3> QED BY <1>0, <2>3, <3>1, <3>2, FbqAssumption DEF Holds
  <2>5. /\ Takers(f)' = (IF f = g THEN Takers(f) \cup {Reader} ELSE Takers(f))
        /\ Reader \notin Takers(f)
    BY <1>0, <2>1 DEF Takers
  <2>6. Cardinality(Holds(f)') = IF f = g THEN Cardinality(Holds(f)) - 1 ELSE Cardinality(Holds(f))
    BY <1>3, <2>4, Minus
  <2>7. Cardinality(Takers(f)') = IF f = g THEN Cardinality(Takers(f)) + 1 ELSE Cardinality(Takers(f))
    BY <1>3, <2>5, Plus
  <2> QED BY <1>2, <1>3, <1>4, <2>1, <2>6, <2>7 DEF Exact
<1> QED BY <1>5, <1>6, <1>7, <1>8 DEF Read

LEMMA LifeRefs ==
  ASSUME OwnTracer, TypeOK, ThreadInv, RefsExact, TypeOK', fbq_destory \/ fbq_init
  PROVE  RefsExact'
<1>1. SUFFICES ASSUME NEW f \in Fbs PROVE Exact(f)'
  BY RefsAreExact
<1>2. Exact(f) /\ users[f] \in Nat
  BY RefsAreExact DEF TypeOK
<1>3. /\ Cardinality(Senders(f, PcSend)) \in Nat /\ Cardinality(Senders(f, {"set", "drop"})) \in Nat
      /\ Cardinality(Holds(f)) \in Nat /\ Cardinality(Takers(f)) \in Nat
  BY Finite
<1>4. /\ Senders(f, PcSend)' = Senders(f, PcSend) /\ Takers(f)' = Takers(f)
      /\ Senders(f, {"set", "drop"})' = Senders(f, {"set", "drop"})
  BY DEF fbq_destory, fbq_init, Senders, Takers
<1>5. RB_EMPTY'
  BY DEF fbq_destory, fbq_init, RB_EMPTY
<1>6. Used' = {}
  BY <1>5, FbqAssumption DEF RB_EMPTY, TypeOK, Used, Slots
<1>7. Cardinality(Holds(f)') = 0
  <2>1. Holds(f)' = {}
    BY <1>6 DEF Holds
  <2> QED BY <2>1, FS_EmptySet
<1>8. CASE fbq_destory
  <2>1. users'[f] = IF users[f] > Cardinality(Holds(f)) THEN users[f] - Cardinality(Holds(f)) ELSE 0
    BY <1>8 DEF fbq_destory, Waiting, Holds
  <2> QED BY <1>2, <1>3, <1>4, <1>7, <2>1 DEF Exact
<1>9. CASE fbq_init
  <2>1. users' = users /\ RB_EMPTY
    BY <1>9 DEF fbq_init, ThreadInv
  <2>2. Holds(f) = {}
    BY <2>1, RingEmpty DEF Holds
  <2>3. Cardinality(Holds(f)) = 0
    BY <2>2, FS_EmptySet
  <2> QED BY <1>2, <1>3, <1>4, <1>7, <2>1, <2>3 DEF Exact
<1> QED BY <1>8, <1>9

(* The queue's invariant. *)
QueueInv == TypeOK /\ ThreadInv /\ RefsExact

LEMMA QueueStart ==
  ASSUME OwnTracer, Init
  PROVE  QueueInv
<1>1. TypeOK
  BY FbqAssumption DEF Init, TypeOK, Slots
<1>2. ThreadInv
  BY FbqAssumption DEF Init, ThreadInv, RB_EMPTY, Threads
<1>3. RefsExact
  <2>1. SUFFICES ASSUME NEW f \in Fbs PROVE Exact(f)
    BY RefsAreExact
  <2>2. \A t \in Producers \cup Tracers \cup {Reader} : pc[t] = "idle"
    BY DEF Init, Threads
  <2>3. Senders(f, PcSend) = {} /\ Senders(f, {"set", "drop"}) = {} /\ Takers(f) = {}
    BY <2>2 DEF Senders, Takers, PcSend
  <2>4. Holds(f) = {}
    BY <1>1, RingEmpty DEF Init, RB_EMPTY, Holds
  <2> QED BY <2>3, <2>4, FS_EmptySet DEF Exact, Init
<1> QED BY <1>1, <1>2, <1>3 DEF QueueInv

LEMMA QueueInductive ==
  ASSUME OwnTracer, QueueInv, [Next]_vars
  PROVE  QueueInv'
<1>1. CASE UNCHANGED vars
  BY <1>1 DEF QueueInv, vars, qVars, TypeOK, ThreadInv, RB_EMPTY, RefsExact, Senders, Takers,
              Waiting, Used
<1>2. ASSUME NEW p \in Producers, Send(p) \/ \E f \in Fbs : msi_output_fb(p, f) PROVE QueueInv'
  BY <1>2, SendType, SendThreads, SendRefs DEF QueueInv
<1>3. CASE \/ Read
           \/ \E t \in {"zero", "some", "forever"} : fbq_dequeue(t)
           \/ \E t \in Tracers : trace_put(t) \/ \E f \in Fbs : fbq_trace(t, f)
  BY <1>3, ReadType, ReadThreads, ReadRefs DEF QueueInv
<1>4. CASE fbq_destory \/ fbq_init
  BY <1>4, LifeType, ReadThreads, LifeRefs DEF QueueInv
<1> QED BY <1>1, <1>2, <1>3, <1>4 DEF Next

(* Every count of a frame in a queue belongs to exactly one place, for any *)
(* number of producers and frames and any size of the ring, when frames    *)
(* are discarded by the component's own thread.                            *)
THEOREM QueueRefsExact ==
  ASSUME OwnTracer
  PROVE  Spec => []RefsExact
<1>1. Init => QueueInv
  BY QueueStart
<1>2. QueueInv /\ [Next]_vars => QueueInv'
  BY QueueInductive
<1>3. QueueInv => RefsExact
  BY DEF QueueInv
<1> QED BY <1>1, <1>2, <1>3, PTL DEF Spec

(* Whoever gives up a count of a frame finds one: fb_put never meets the   *)
(* count 0 that fb_free asserts against.                                   *)
THEOREM QueuePutsFindCount ==
  ASSUME OwnTracer
  PROVE  Spec => []PutFindsCount
<1>1. Init => QueueInv
  BY QueueStart
<1>2. QueueInv /\ [Next]_vars => QueueInv'
  BY QueueInductive
<1>3. QueueInv => PutFindsCount
  <2>1. SUFFICES ASSUME QueueInv, NEW t \in Threads, pc[t] \in {"drop", "end", "hold", "discard"},
                        fb[t] # NULL
                 PROVE  users[fb[t]] > 0
    BY DEF PutFindsCount
  <2>2. PICK f \in Fbs : f = fb[t]
    BY <2>1 DEF QueueInv, TypeOK
  <2>3. Exact(f) /\ users[f] \in Nat
    BY <2>1, RefsAreExact DEF QueueInv, TypeOK
  <2>4. /\ IsFiniteSet(Senders(f, PcSend)) /\ IsFiniteSet(Takers(f))
        /\ Cardinality(Senders(f, PcSend)) \in Nat /\ Cardinality(Senders(f, {"set", "drop"})) \in Nat
        /\ Cardinality(Holds(f)) \in Nat /\ Cardinality(Takers(f)) \in Nat
    BY Finite
  <2>5. t \in Senders(f, PcSend) \/ t \in Takers(f)
    BY <2>1, <2>2 DEF OwnTracer, QueueInv, ThreadInv, Threads, Senders, Takers, PcSend, PcRead
  <2>6. Cardinality(Senders(f, PcSend)) > 0 \/ Cardinality(Takers(f)) > 0
    BY <2>4, <2>5, Minus
  <2> QED BY <2>2, <2>3, <2>4, <2>6 DEF Exact
<1> QED BY <1>1, <1>2, <1>3, PTL DEF Spec

-----------------------------------------------------------------------------
(* The queue is a bounded FIFO.                                            *)

At(i) == RB_NPOS(rpos, i - 1)

(* The slots in use, in the order of the queue. *)
LEMMA Positions ==
  ASSUME TypeOK
  PROVE  /\ RB_COUNT \in 0 .. QSlots - 1
         /\ \A i \in 1 .. RB_COUNT : At(i) \in Used /\ At(i) \in Slots
         /\ \A i, j \in 1 .. RB_COUNT : At(i) = At(j) => i = j
         /\ \A m \in Used : \E i \in 1 .. RB_COUNT : At(i) = m
<1> USE FbqAssumption DEF TypeOK, Slots, At, RB_NPOS, RB_COUNT, Used
<1>1. RB_COUNT \in 0 .. QSlots - 1
  OBVIOUS
<1>2. \A i \in 1 .. RB_COUNT : At(i) \in Used /\ At(i) \in Slots
  OBVIOUS
<1>3. \A i, j \in 1 .. RB_COUNT : At(i) = At(j) => i = j
  OBVIOUS
<1>4. ASSUME NEW m \in Used PROVE \E i \in 1 .. RB_COUNT : At(i) = m
  <2>1. CASE rpos <= m
    <3>1. m - rpos + 1 \in 1 .. RB_COUNT /\ At(m - rpos + 1) = m
      BY <2>1
    <3> QED BY <3>1
  <2>2. CASE m < rpos
    <3>1. QSlots - rpos + m + 1 \in 1 .. RB_COUNT /\ At(QSlots - rpos + m + 1) = m
      BY <2>2
    <3> QED BY <3>1
  <2> QED BY <2>1, <2>2
<1> QED BY <1>1, <1>2, <1>3, <1>4

LEMMA QueuedIs ==
  ASSUME TypeOK
  PROVE  /\ Queued \in Seq(Fbs \cup {NULL}) /\ Len(Queued) = RB_COUNT
         /\ \A i \in 1 .. RB_COUNT : Queued[i] = rbq[At(i)]
<1>1. Queued = [i \in 1 .. RB_COUNT |-> rbq[At(i)]]
  BY DEF Queued, At
<1>2. RB_COUNT \in Nat /\ \A i \in 1 .. RB_COUNT : rbq[At(i)] \in Fbs \cup {NULL}
  BY Positions, FbqAssumption DEF TypeOK
<1> HIDE DEF RB_COUNT
<1> QED BY <1>1, <1>2

(* Append and Tail as functions. *)
LEMMA AppendIs ==
  ASSUME NEW S, NEW s \in Seq(S), NEW x \in S
  PROVE  Append(s, x) = [i \in 1 .. Len(s) + 1 |-> IF i <= Len(s) THEN s[i] ELSE x]
<1> DEFINE a == Append(s, x)
<1>1. a \in Seq(S) /\ Len(a) = Len(s) + 1 /\ Len(s) \in Nat
  BY AppendProperties, LenProperties
<1>2. \A i \in 1 .. Len(s) + 1 : a[i] = IF i <= Len(s) THEN s[i] ELSE x
  BY <1>1, AppendProperties
<1>3. DOMAIN a = 1 .. Len(s) + 1 /\ a = [i \in DOMAIN a |-> a[i]]
  BY <1>1, LenProperties
<1> HIDE DEF a
<1>4. a = [i \in 1 .. Len(s) + 1 |-> IF i <= Len(s) THEN s[i] ELSE x]
  BY <1>2, <1>3
<1> QED BY <1>4 DEF a

LEMMA TailIs ==
  ASSUME NEW S, NEW s \in Seq(S), s # <<>>
  PROVE  Tail(s) = [i \in 1 .. Len(s) - 1 |-> s[i + 1]]
<1> DEFINE a == Tail(s)
<1>1. a \in Seq(S) /\ Len(a) = Len(s) - 1 /\ \A i \in 1 .. Len(a) : a[i] = s[i + 1]
  BY HeadTailProperties
<1>2. DOMAIN a = 1 .. Len(s) - 1 /\ a = [i \in DOMAIN a |-> a[i]]
  BY <1>1, LenProperties
<1> HIDE DEF a
<1>3. a = [i \in 1 .. Len(s) - 1 |-> s[i + 1]]
  BY <1>1, <1>2
<1> QED BY <1>3 DEF a

LEMMA QueuedPut ==
  ASSUME TypeOK, TypeOK', ~RB_FULL, NEW x \in Fbs, rpos' = rpos, wpos' = RB_NPOS(wpos, 1),
         rbq' = [rbq EXCEPT ![wpos] = x]
  PROVE  Queued' = Append(Queued, x) /\ Len(Queued) < QSlots - 1
<1>1. /\ RB_COUNT' = RB_COUNT + 1 /\ RB_COUNT < QSlots - 1 /\ At(RB_COUNT + 1) = wpos
      /\ wpos \in Slots /\ RB_COUNT \in Nat
  BY FbqAssumption DEF TypeOK, Slots, RB_FULL, RB_NPOS, RB_COUNT, At
<1>2. \A i \in 1 .. RB_COUNT : At(i) # wpos /\ At(i) \in Slots
  BY Positions, RingPut
<1>3. \A i \in Int : At(i)' = At(i)
  BY DEF At, RB_NPOS
<1>4. /\ Queued \in Seq(Fbs \cup {NULL}) /\ Len(Queued) = RB_COUNT
      /\ \A i \in 1 .. RB_COUNT : Queued[i] = rbq[At(i)]
  BY QueuedIs
<1>5. Queued' = [i \in 1 .. RB_COUNT + 1 |-> rbq'[At(i)]]
  BY <1>1, <1>3 DEF Queued, At
<1>6. \A i \in 1 .. RB_COUNT + 1 : rbq'[At(i)] = IF i <= RB_COUNT THEN Queued[i] ELSE x
  BY <1>1, <1>2, <1>4 DEF TypeOK
<1>7. Queued' = [i \in 1 .. RB_COUNT + 1 |-> IF i <= RB_COUNT THEN Queued[i] ELSE x]
  BY <1>5, <1>6
<1>8. Append(Queued, x) = [i \in 1 .. Len(Queued) + 1 |-> IF i <= Len(Queued) THEN Queued[i] ELSE x]
  BY <1>4, AppendIs
<1> QED BY <1>1, <1>4, <1>7, <1>8

LEMMA QueuedGet ==
  ASSUME TypeOK, TypeOK', ~RB_EMPTY, wpos' = wpos, rpos' = RB_NPOS(rpos, 1), rbq' = rbq
  PROVE  Queued # <<>> /\ Head(Queued) = rbq[rpos] /\ Queued' = Tail(Queued)
<1>1. RB_COUNT' = RB_COUNT - 1 /\ RB_COUNT > 0 /\ RB_COUNT \in Nat /\ At(1) = rpos
  BY FbqAssumption DEF TypeOK, Slots, RB_EMPTY, RB_NPOS, RB_COUNT, At
<1>2. \A i \in 1 .. RB_COUNT - 1 : At(i)' = At(i + 1)
  BY FbqAssumption DEF TypeOK, Slots, RB_EMPTY, RB_NPOS, RB_COUNT, At
<1>3. /\ Queued \in Seq(Fbs \cup {NULL}) /\ Len(Queued) = RB_COUNT
      /\ \A i \in 1 .. RB_COUNT : Queued[i] = rbq[At(i)]
  BY QueuedIs
<1>4. Queued' = [i \in 1 .. RB_COUNT - 1 |-> rbq[At(i)']]
  BY <1>1 DEF Queued, At
<1>5. Queued' = [i \in 1 .. RB_COUNT - 1 |-> Queued[i + 1]]
  BY <1>1, <1>2, <1>3, <1>4
<1>6. Queued # <<>>
  BY <1>1, <1>3
<1>7. Tail(Queued) = [i \in 1 .. Len(Queued) - 1 |-> Queued[i + 1]]
  BY <1>3, <1>6, TailIs
<1>8. Head(Queued) = rbq[rpos]
  BY <1>1, <1>3
<1> QED BY <1>3, <1>5, <1>6, <1>7, <1>8

LEMMA QueuedDiscard ==
  ASSUME TypeOK, TypeOK', NEW m \in Used, UNCHANGED <<rpos, wpos>>, rbq[m] # NULL,
         rbq' = [rbq EXCEPT ![m] = NULL]
  PROVE  \E i \in 1 .. Len(Queued) : Queued[i] # NULL /\ Queued' = [Queued EXCEPT ![i] = NULL]
<1>1. PICK i \in 1 .. RB_COUNT : At(i) = m
  BY Positions
<1>2. /\ Queued \in Seq(Fbs \cup {NULL}) /\ Len(Queued) = RB_COUNT
      /\ \A j \in 1 .. RB_COUNT : Queued[j] = rbq[At(j)]
  BY QueuedIs
<1>3. \A j \in 1 .. RB_COUNT : At(j) \in Slots /\ (At(j) = m => j = i)
  BY <1>1, Positions
<1>4. Queued' = [j \in 1 .. RB_COUNT |-> rbq'[At(j)]]
  BY DEF Queued, At, RB_COUNT, RB_NPOS
<1>5. \A j \in 1 .. RB_COUNT : rbq'[At(j)] = IF j = i THEN NULL ELSE Queued[j]
  BY <1>1, <1>2, <1>3 DEF TypeOK
<1>6. RB_COUNT \in Nat
  BY Positions
<1>7. DOMAIN Queued = 1 .. RB_COUNT
  BY <1>2, LenProperties
<1>8. Queued' = [j \in 1 .. RB_COUNT |-> IF j = i THEN NULL ELSE Queued[j]]
  BY <1>4, <1>5
<1>9. [Queued EXCEPT ![i] = NULL] = [j \in 1 .. RB_COUNT |-> IF j = i THEN NULL ELSE Queued[j]]
  BY <1>7
<1> QED BY <1>1, <1>2, <1>8, <1>9

LEMMA QueuedEmpty ==
  ASSUME RB_EMPTY, rpos \in Nat
  PROVE  Queued = <<>>
<1>1. RB_COUNT = 0
  BY DEF RB_EMPTY, RB_COUNT
<1> QED BY <1>1 DEF Queued

(* What the reader has taken and not let go. *)
Got == IF pc[Reader] = "hold" THEN <<fb[Reader]>> ELSE <<>>

(* A step that moves neither rpos nor wpos and writes no slot. *)
LEMMA FifoStutter ==
  ASSUME UNCHANGED <<init, rbq, rpos, wpos>>, Got' = Got
  PROVE  UNCHANGED Fifo!fifoVars
<1>1. Queued' = Queued
  BY DEF Queued, RB_COUNT, RB_NPOS
<1> QED BY <1>1 DEF Fifo!fifoVars, Got

LEMMA SendFifo ==
  ASSUME QueueInv, TypeOK', NEW p \in Producers, Send(p) \/ \E f \in Fbs : msi_output_fb(p, f)
  PROVE  [Fifo!Next]_(Fifo!fifoVars)
<1>0. pc'[Reader] = pc[Reader] /\ fb'[Reader] = fb[Reader]
  BY FbqAssumption DEF QueueInv, TypeOK, Threads, Send, fbq_enqueue, RB_INT_SET, os_sema_up,
     enqueue_full, output_done, msi_output_fb, Goto, Hold
<1>1. Got' = Got
  BY <1>0 DEF Got
<1>2. CASE RB_INT_SET(p) /\ ~RB_FULL
  <2>1. /\ rbq' = [rbq EXCEPT ![wpos] = fb[p]] /\ wpos' = RB_NPOS(wpos, 1) /\ rpos' = rpos
        /\ init' = init /\ init /\ fb[p] \in Fbs
    BY <1>2 DEF RB_INT_SET, QueueInv, ThreadInv
  <2>2. Queued' = Append(Queued, fb[p]) /\ Len(Queued) < QSlots - 1
    BY <1>2, <2>1, QueuedPut DEF QueueInv
  <2>3. Fifo!Put(fb[p])
    BY <1>1, <2>1, <2>2 DEF Fifo!Put, Got
  <2> QED BY <2>1, <2>3 DEF Fifo!Next
<1>3. CASE ~(RB_INT_SET(p) /\ ~RB_FULL)
  <2>1. UNCHANGED <<init, rbq, rpos, wpos>>
    BY <1>3 DEF Send, fbq_enqueue, RB_INT_SET, os_sema_up, enqueue_full, output_done,
                msi_output_fb, qVars
  <2> QED BY <1>1, <2>1, FifoStutter
<1> QED BY <1>2, <1>3

LEMMA ReadFifo ==
  ASSUME OwnTracer, QueueInv, TypeOK',
         \/ Read
         \/ \E t \in {"zero", "some", "forever"} : fbq_dequeue(t)
         \/ \E t \in Tracers : trace_put(t) \/ \E f \in Fbs : fbq_trace(t, f)
  PROVE  [Fifo!Next]_(Fifo!fifoVars)
<1>0. /\ DOMAIN pc = Threads /\ DOMAIN fb = Threads /\ Reader \in Threads
      /\ \A t \in Tracers : t = Reader
  BY DEF QueueInv, TypeOK, Threads, OwnTracer
<1> USE DEF Goto, Hold, qVars
<1>1. CASE \/ dequeue_check \/ os_sema_down \/ \E t \in {"zero", "some", "forever"} : fbq_dequeue(t)
           \/ \E t \in Tracers : trace_put(t)
  <2>1. UNCHANGED <<init, rbq, rpos, wpos>> /\ pc[Reader] # "hold" /\ pc'[Reader] # "hold"
    BY <1>0, <1>1 DEF dequeue_check, os_sema_down, fbq_dequeue, trace_put
  <2> QED BY <2>1, FifoStutter DEF Got
<1>2. CASE dequeue_advance
  <2>1. /\ pc[Reader] = "advance" /\ pc'[Reader] = "hold" /\ fb' = fb /\ init' = init /\ init
        /\ wpos' = wpos /\ rpos' = RB_NPOS(rpos, 1) /\ rbq' = rbq
        /\ ~RB_EMPTY /\ fb[Reader] = rbq[rpos]
    BY <1>0, <1>2 DEF dequeue_advance, QueueInv, ThreadInv
  <2>2. Queued # <<>> /\ Head(Queued) = rbq[rpos] /\ Queued' = Tail(Queued)
    BY <2>1, QueuedGet DEF QueueInv
  <2>3. Fifo!Get
    BY <2>1, <2>2 DEF Fifo!Get
  <2> QED BY <2>3 DEF Fifo!Next
<1>3. CASE reader_done
  <2>1. UNCHANGED <<init, rbq, rpos, wpos>> /\ pc[Reader] = "hold" /\ pc'[Reader] = "idle"
    BY <1>0, <1>3 DEF reader_done
  <2>2. Queued' = Queued
    BY <2>1 DEF Queued, RB_COUNT, RB_NPOS
  <2>3. Fifo!Release
    BY <2>1, <2>2 DEF Fifo!Release
  <2> QED BY <2>3 DEF Fifo!Next
<1>4. ASSUME NEW t \in Tracers, NEW f \in Fbs, fbq_trace(t, f) PROVE Fifo!Next
  <2>1. /\ init /\ init' = init /\ UNCHANGED <<rpos, wpos>> /\ Holds(f) # {}
        /\ rbq' = [rbq EXCEPT ![Min(Holds(f))] = NULL]
        /\ pc[Reader] # "hold" /\ pc'[Reader] # "hold"
    BY <1>0, <1>4 DEF fbq_trace, Holds
  <2>2. Min(Holds(f)) \in Holds(f)
    BY <2>1, MinIn DEF Holds, Used
  <2>3. Min(Holds(f)) \in Used /\ rbq[Min(Holds(f))] # NULL
    BY <2>2, FbqAssumption DEF Holds
  <2>4. PICK i \in 1 .. Len(Queued) : Queued[i] # NULL /\ Queued' = [Queued EXCEPT ![i] = NULL]
    BY <2>1, <2>3, QueuedDiscard DEF QueueInv
  <2>5. Fifo!Discard(i)
    BY <2>1, <2>4 DEF Fifo!Discard
  <2> QED BY <2>4, <2>5 DEF Fifo!Next
<1> QED BY <1>1, <1>2, <1>3, <1>4 DEF Read

LEMMA LifeFifo ==
  ASSUME QueueInv, TypeOK', fbq_destory \/ fbq_init
  PROVE  Fifo!Next
<1>0. rpos \in Nat /\ rpos' \in Nat
  BY FbqAssumption DEF QueueInv, TypeOK, Slots
<1>1. Queued' = <<>>
  <2>1. RB_COUNT' = 0
    BY <1>0 DEF fbq_destory, fbq_init, RB_COUNT
  <2> QED BY <2>1 DEF Queued
<1>2. Got' = Got
  BY DEF fbq_destory, fbq_init, Got
<1>3. CASE fbq_destory
  <2>1. init /\ init' = FALSE
    BY <1>3 DEF fbq_destory
  <2>2. Fifo!Close
    BY <1>1, <1>2, <2>1 DEF Fifo!Close, Got
  <2> QED BY <2>2 DEF Fifo!Next
<1>4. CASE fbq_init
  <2>1. ~init /\ init' = TRUE /\ RB_EMPTY
    BY <1>4 DEF fbq_init, QueueInv, ThreadInv
  <2>2. Queued = <<>>
    BY <1>0, <2>1, QueuedEmpty
  <2>3. Fifo!Reopen
    BY <1>1, <1>2, <2>1, <2>2 DEF Fifo!Reopen, Got
  <2> QED BY <2>3 DEF Fifo!Next
<1> QED BY <1>3, <1>4

(* The receive queue implements the bounded FIFO, for any number of        *)
(* producers and frames and any size of the ring: frames come out once     *)
(* each and in order, although RB_GET reads the slot and moves rpos in two *)
(* steps that producers may interrupt.                                     *)
THEOREM QueueIsFifo ==
  ASSUME OwnTracer
  PROVE  Spec => IsFifo
<1>1. Init => QueueInv
  BY QueueStart
<1>2. QueueInv /\ [Next]_vars => QueueInv'
  BY QueueInductive
<1>3. Init => Fifo!Init
  <2>1. ASSUME Init PROVE Fifo!Init
    <3>1. Queued = <<>>
      BY <2>1, QueuedEmpty DEF Init, RB_EMPTY
    <3>2. pc[Reader] # "hold" /\ init = TRUE
      BY <2>1 DEF Init, Threads
    <3> QED BY <3>1, <3>2 DEF Fifo!Init
  <2> QED BY <2>1
<1>4. QueueInv /\ QueueInv' /\ [Next]_vars => [Fifo!Next]_(Fifo!fifoVars)
  <2>1. SUFFICES ASSUME QueueInv, QueueInv', [Next]_vars PROVE [Fifo!Next]_(Fifo!fifoVars)
    OBVIOUS
  <2>2. TypeOK'
    BY <2>1 DEF QueueInv
  <2>3. CASE UNCHANGED vars
    BY <2>3, FifoStutter DEF vars, qVars, Got
  <2>4. CASE Next
    BY <2>1, <2>2, <2>4, SendFifo, ReadFifo, LifeFifo DEF Next
  <2> QED BY <2>1, <2>3, <2>4
<1> QED BY <1>1, <1>2, <1>3, <1>4, PTL DEF Spec, IsFifo, Fifo!Spec
=============================================================================
