---------------------------- MODULE RwLock_proofs ----------------------------
(***************************************************************************)
(* Proofs about RwLock, for any finite set of threads.                     *)
(***************************************************************************)
EXTENDS RwLock, FiniteSetTheorems, TLAPS

-----------------------------------------------------------------------------
(* The inductive invariant.                                                *)

\* Whoever is between taking and releasing rw_mutex has it.
MutexInv ==
    /\ nested = 0 <=> owner = None
    /\ \A t \in Threads : pc[t] \in {"body", "leave"} => owner = t

\* What a call may find: only an unlock holds the lock, only a locker sleeps.
CallInv ==
    \A t \in Threads :
        /\ pc[t] # "out" => req[t] \in Requests
        /\ pc[t] \notin {"out", "leave"} => (req[t].kind = "unlock" <=> held[t] # "none")
        /\ pc[t] \in {"sema", "woken", "late"} => req[t].kind \in Conds

\* While a destroy is under way nobody else is at the door.
DestroyInv ==
    \A t, u \in Threads :
        /\ pc[t] \in {"lock", "body"} /\ req[t].kind = "destroy"
        /\ pc[u] = "lock" /\ req[u].kind \in Conds \cup {"destroy"}
        => t = u

IInv ==
    /\ TypeOK /\ MutexInv /\ CallInv /\ DestroyInv
    /\ RefcountExact /\ WaitCountsExact /\ NoPhantomWaiter /\ DestroyedIsQuiet

\* What a thread does inside a call.
Step(t) ==
    \/ Lock(t) \/ Take(t) \/ Refuse(t) \/ Wait(t) \/ SemTake(t) \/ Timeout(t)
    \/ Relock(t) \/ Unlock(t) \/ Destroy(t) \/ Leave(t)

-----------------------------------------------------------------------------
LEMMA Counting ==
  ASSUME NEW S \in SUBSET Threads
  PROVE  /\ IsFiniteSet(S) /\ Cardinality(S) \in 0..Cardinality(Threads)
         /\ Cardinality(S) = 0 <=> S = {}
BY RwLockAssumption, FS_Subset, FS_CardinalityType, FS_EmptySet

LEMMA OneMore ==
  ASSUME NEW S \in SUBSET Threads, NEW t \in Threads \ S
  PROVE  Cardinality(S \cup {t}) = Cardinality(S) + 1
BY Counting, FS_AddElement

LEMMA OneLess ==
  ASSUME NEW S \in SUBSET Threads, NEW t \in S
  PROVE  Cardinality(S \ {t}) = Cardinality(S) - 1 /\ Cardinality(S) > 0
BY Counting, FS_RemoveElement

LEMMA Mutex ==
  ASSUME TypeOK, MutexInv, CallInv, NEW t \in Threads,
         Step(t) \/ \E r \in Requests : Call(t, r)
  PROVE  MutexInv'
<1> USE RwLockAssumption DEF TypeOK, MutexInv, mvars
<1>1. ASSUME NEW r \in Requests, Call(t, r) PROVE MutexInv'
  BY <1>1 DEF Call
<1>2. CASE Lock(t)
  BY <1>2 DEF Lock, Acquire
<1>3. CASE Take(t) \/ Refuse(t)
  BY <1>3 DEF Take, Refuse
<1>4. CASE Wait(t)
  BY <1>4 DEF Wait, Drop
<1>5. CASE SemTake(t) \/ Timeout(t)
  BY <1>5 DEF SemTake, Timeout
<1>6. CASE Relock(t)
  BY <1>6 DEF Relock, Acquire
<1>7. CASE Unlock(t)
  BY <1>7 DEF Unlock
<1>8. CASE Destroy(t)
  BY <1>8 DEF Destroy, Drop
<1>9. CASE Leave(t)
  BY <1>9 DEF Leave, Drop
<1> QED BY <1>1, <1>2, <1>3, <1>4, <1>5, <1>6, <1>7, <1>8, <1>9 DEF Step

LEMMA Calls ==
  ASSUME TypeOK, CallInv, NEW t \in Threads, Step(t) \/ \E r \in Requests : Call(t, r)
  PROVE  CallInv'
<1> USE DEF CallInv
<1>0. /\ pc \in [Threads -> {"out", "lock", "body", "sema", "woken", "late", "leave"}]
      /\ DOMAIN req = Threads /\ DOMAIN held = Threads
      /\ req = [u \in Threads |-> req[u]] /\ held = [u \in Threads |-> held[u]]
  BY DEF TypeOK
<1>1. ASSUME NEW r \in Requests, Call(t, r) PROVE CallInv'
  BY <1>0, <1>1 DEF Call
<1>2. CASE Lock(t) \/ Refuse(t) \/ Wait(t)
  BY <1>0, <1>2 DEF Lock, Refuse, Wait
<1>3. CASE Take(t)
  BY <1>0, <1>3 DEF Take
<1>4. CASE SemTake(t) \/ Timeout(t) \/ Relock(t)
  BY <1>0, <1>4 DEF SemTake, Timeout, Relock
<1>5. CASE Unlock(t)
  BY <1>0, <1>5 DEF Unlock
<1>6. CASE Destroy(t) \/ Leave(t)
  BY <1>0, <1>6 DEF Destroy, Leave
<1> QED BY <1>1, <1>2, <1>3, <1>4, <1>5, <1>6 DEF Step

LEMMA Destroys ==
  ASSUME TypeOK, CallInv, DestroyInv, NEW t \in Threads,
         Step(t) \/ \E r \in Requests : Call(t, r)
  PROVE  DestroyInv'
<1> USE DEF DestroyInv
<1>0. /\ pc \in [Threads -> {"out", "lock", "body", "sema", "woken", "late", "leave"}]
      /\ DOMAIN req = Threads /\ req = [u \in Threads |-> req[u]]
  BY DEF TypeOK
<1>1. ASSUME NEW r \in Requests, Call(t, r) PROVE DestroyInv'
  BY <1>0, <1>1 DEF Call, Entering, Destroying, Conds
<1>2. CASE Lock(t)
  BY <1>0, <1>2 DEF Lock
<1>3. CASE Take(t) \/ Refuse(t) \/ Wait(t) \/ SemTake(t) \/ Timeout(t) \/ Unlock(t)
  BY <1>0, <1>3 DEF Take, Refuse, Wait, SemTake, Timeout, Unlock
<1>4. CASE Relock(t)
  <2>1. req[t].kind # "destroy"
    BY <1>4 DEF Relock, CallInv, Conds
  <2> QED BY <1>0, <1>4, <2>1 DEF Relock
<1>5. CASE Destroy(t) \/ Leave(t)
  BY <1>0, <1>5 DEF Destroy, Leave
<1> QED BY <1>1, <1>2, <1>3, <1>4, <1>5 DEF Step

-----------------------------------------------------------------------------
(* Who holds the lock.                                                     *)

\* Only taking the lock and unlocking it change who holds it and refcount.
LEMMA HeldChanges ==
  ASSUME NEW t \in Threads, Step(t) \/ \E r \in Requests : Call(t, r),
         ~Take(t), ~Unlock(t)
  PROVE  UNCHANGED <<held, refcount>>
BY DEF Step, Call, Lock, Refuse, Wait, SemTake, Timeout, Relock, Destroy, Leave

\* Read as facts about single threads, RefcountExact says: below 0 there is a
\* writer and it is alone; at 0 there is nobody; above 0 there are only readers.
LEMMA Holders ==
  ASSUME TypeOK, RefcountExact
  PROVE  /\ refcount < 0 => \E u \in Threads : \A v \in Threads :
                               held[v] = IF v = u THEN "wr" ELSE "none"
         /\ refcount >= 0 => \A u \in Threads : held[u] # "wr"
         /\ refcount >= 0 => refcount = Cardinality(Holding("rd"))
         /\ refcount = 0 => \A u \in Threads : held[u] = "none"
<1>1. /\ Holding("rd") \in SUBSET Threads /\ Holding("wr") \in SUBSET Threads
      /\ \A u \in Threads : held[u] \in {"rd", "wr", "none"}
  BY DEF Holding, TypeOK, Conds
<1>2. CASE refcount = -1 /\ Holding("rd") = {} /\ Cardinality(Holding("wr")) = 1
  <2>1. PICK w : Holding("wr") = {w}
    BY <1>1, <1>2, Counting, FS_Singleton
  <2>2. w \in Threads /\ \A v \in Threads : held[v] = "wr" <=> v = w
    BY <2>1 DEF Holding
  <2>3. \A v \in Threads : held[v] # "rd"
    BY <1>2 DEF Holding
  <2>4. \A v \in Threads : held[v] = IF v = w THEN "wr" ELSE "none"
    BY <1>1, <2>2, <2>3
  <2>5. ~(refcount >= 0) /\ refcount # 0
    BY <1>2
  <2> QED BY <2>2, <2>4, <2>5
<1>3. CASE refcount = Cardinality(Holding("rd")) /\ Holding("wr") = {}
  <2>1. refcount >= 0 /\ (refcount = 0 <=> Holding("rd") = {})
    BY <1>1, <1>3, Counting
  <2>2. \A u \in Threads : held[u] # "wr"
    BY <1>3 DEF Holding
  <2>3. refcount = 0 => \A u \in Threads : held[u] = "none"
    BY <1>1, <2>1, <2>2 DEF Holding
  <2>4. ~(refcount < 0)
    BY <1>1, <1>3, Counting
  <2> QED BY <1>3, <2>2, <2>3, <2>4
<1> QED BY <1>2, <1>3 DEF RefcountExact

LEMMA TakeRefcount ==
  ASSUME TypeOK, CallInv, RefcountExact, NEW t \in Threads, Take(t)
  PROVE  /\ RefcountExact'
         /\ Promise!AcquireRead(t) \/ Promise!AcquireWrite(t)
<1>1. /\ held[t] = "none" /\ pc[t] = "body" /\ req[t].kind \in Conds /\ ~Blocked(req[t].kind)
      /\ held' = [held EXCEPT ![t] = req[t].kind]
      /\ refcount' = IF req[t].kind = "rd" THEN refcount + 1 ELSE -1
      /\ held \in [Threads -> Conds \cup {"none"}] /\ refcount \in Int
  BY DEF Take, CallInv, Conds, TypeOK
<1>2. CASE req[t].kind = "rd"
  <2>1. refcount >= 0
    BY <1>1, <1>2 DEF Blocked
  <2>2. refcount = Cardinality(Holding("rd")) /\ \A u \in Threads : held[u] # "wr"
    BY <2>1, Holders
  <2>3. Holding("rd")' = Holding("rd") \cup {t} /\ t \notin Holding("rd")
    BY <1>1, <1>2 DEF Holding
  <2>4. Cardinality(Holding("rd")') = refcount'
    BY <1>1, <1>2, <2>2, <2>3, OneMore DEF Holding
  <2>5. Holding("wr")' = {}
    BY <1>1, <1>2, <2>2 DEF Holding
  <2> QED BY <1>1, <1>2, <2>2, <2>4, <2>5 DEF RefcountExact, Promise!AcquireRead
<1>3. CASE req[t].kind = "wr"
  <2>1. \A u \in Threads : held[u] = "none"
    BY <1>1, <1>3, Holders DEF Blocked
  <2>2. Holding("rd")' = {} /\ Holding("wr")' = {t}
    BY <1>1, <1>3, <2>1 DEF Holding
  <2>3. Cardinality(Holding("wr")') = 1
    BY <2>2, FS_Singleton
  <2> QED BY <1>1, <1>3, <2>1, <2>2, <2>3 DEF RefcountExact, Promise!AcquireWrite
<1> QED BY <1>1, <1>2, <1>3 DEF Conds

LEMMA UnlockRefcount ==
  ASSUME TypeOK, CallInv, RefcountExact, NEW t \in Threads, Unlock(t)
  PROVE  RefcountExact' /\ Promise!Release(t)
<1>1. /\ held[t] # "none" /\ held' = [held EXCEPT ![t] = "none"]
      /\ refcount' = IF refcount > 0 THEN refcount - 1 ELSE 0
      /\ held \in [Threads -> {"rd", "wr", "none"}] /\ refcount \in Int
  BY DEF Unlock, CallInv, Conds, TypeOK
<1>2. CASE refcount < 0
  <2>1. \A u \in Threads : held'[u] = "none"
    BY <1>1, <1>2, Holders
  <2>2. Holding("rd")' = {} /\ Holding("wr")' = {} /\ refcount' = 0
    BY <1>1, <1>2, <2>1 DEF Holding
  <2> QED BY <1>1, <2>2, FS_EmptySet DEF RefcountExact, Promise!Release
<1>3. CASE refcount >= 0
  <2>1. held[t] = "rd" /\ refcount = Cardinality(Holding("rd"))
        /\ \A u \in Threads : held[u] # "wr"
    BY <1>1, <1>3, Holders
  <2>2. Holding("rd")' = Holding("rd") \ {t} /\ t \in Holding("rd") /\ Holding("wr")' = {}
    BY <1>1, <2>1 DEF Holding
  <2>3. Cardinality(Holding("rd")') = refcount - 1 /\ refcount > 0
    BY <2>1, <2>2, OneLess DEF Holding
  <2> QED BY <1>1, <2>2, <2>3 DEF RefcountExact, Promise!Release
<1> QED BY <1>1, <1>2, <1>3

LEMMA Refcount ==
  ASSUME TypeOK, CallInv, RefcountExact, NEW t \in Threads,
         Step(t) \/ \E r \in Requests : Call(t, r)
  PROVE  RefcountExact' /\ [Promise!Next]_held
<1>1. CASE Take(t)
  BY <1>1, TakeRefcount DEF Promise!Next
<1>2. CASE Unlock(t)
  BY <1>2, UnlockRefcount DEF Promise!Next
<1>3. CASE ~Take(t) /\ ~Unlock(t)
  <2>1. UNCHANGED <<held, refcount>>
    BY <1>3, HeldChanges
  <2> QED BY <2>1 DEF RefcountExact, Holding
<1> QED BY <1>1, <1>2, <1>3

-----------------------------------------------------------------------------
(* Who waits.                                                              *)

LEMMA WaitEnter ==
  ASSUME TypeOK, CallInv, WaitCountsExact, NoPhantomWaiter, NEW t \in Threads, Wait(t)
  PROVE  WaitCountsExact' /\ NoPhantomWaiter'
<1>0. PICK k \in Conds : k = req[t].kind
  BY DEF Wait
<1>1. /\ pc[t] = "body" /\ k = req[t].kind /\ UNCHANGED req
      /\ pc' = [pc EXCEPT ![t] = "sema"]
      /\ nwait' = [nwait EXCEPT ![k] = @ + 1]
      /\ waitings' = [waitings EXCEPT ![k] = @ + 1]
      /\ DOMAIN pc = Threads /\ nwait \in [Conds -> Nat] /\ waitings \in [Conds -> Nat]
  BY <1>0 DEF Wait, TypeOK
<1>2. /\ Waiting(k)' = Waiting(k) \cup {t} /\ t \notin Waiting(k)
      /\ \A j \in Conds \ {k} : Waiting(j)' = Waiting(j)
      /\ \A j \in Conds : Waiting(j) \in SUBSET Threads
  BY <1>1 DEF Waiting
<1>3. Cardinality(Waiting(k)') = Cardinality(Waiting(k)) + 1
  BY <1>2, <1>1, OneMore
<1>4. \A j \in Conds : Cardinality(Waiting(j)) \in Nat
  BY <1>2, Counting
<1>5. ASSUME NEW j \in Conds
      PROVE  /\ nwait'[j] = Cardinality(Waiting(j)')
             /\ waitings'[j] <= Cardinality(Waiting(j)')
  <2>1. nwait[j] = Cardinality(Waiting(j)) /\ waitings[j] <= Cardinality(Waiting(j))
    BY DEF WaitCountsExact, NoPhantomWaiter
  <2>2. CASE j = k
    <3>1. Cardinality(Waiting(j)') = Cardinality(Waiting(j)) + 1
      BY <1>3, <2>2
    <3>2. nwait'[j] = nwait[j] + 1 /\ waitings'[j] = waitings[j] + 1
      BY <1>1, <2>2
    <3>3. nwait[j] \in Nat /\ waitings[j] \in Nat
      BY <1>1
    <3> QED BY <2>1, <3>1, <3>2, <3>3
  <2>3. CASE j # k
    <3>1. nwait'[j] = nwait[j] /\ waitings'[j] = waitings[j] /\ Waiting(j)' = Waiting(j)
      BY <1>1, <1>2, <2>3
    <3>2. nwait[j] \in Nat
      BY <1>1
    <3> QED BY <2>1, <3>1, <3>2
  <2> QED BY <2>2, <2>3
<1> QED BY <1>5 DEF WaitCountsExact, NoPhantomWaiter

LEMMA WaitLeave ==
  ASSUME TypeOK, CallInv, WaitCountsExact, NoPhantomWaiter, NEW t \in Threads, Relock(t)
  PROVE  WaitCountsExact' /\ NoPhantomWaiter' /\ nwait' \in [Conds -> Nat]
<1>0. PICK k \in Conds : k = req[t].kind
  BY DEF Relock, CallInv
<1>1. /\ pc[t] \in {"woken", "late"} /\ k = req[t].kind /\ UNCHANGED req
      /\ pc' = [pc EXCEPT ![t] = IF @ = "woken" THEN "body" ELSE "leave"]
      /\ nwait' = [nwait EXCEPT ![k] = @ - 1]
      /\ waitings' = [waitings EXCEPT ![k] = IF @ > 0 THEN @ - 1 ELSE 0]
      /\ DOMAIN pc = Threads /\ nwait \in [Conds -> Nat] /\ waitings \in [Conds -> Nat]
  BY <1>0 DEF Relock, TypeOK
<1>2. /\ Waiting(k)' = Waiting(k) \ {t} /\ t \in Waiting(k)
      /\ \A j \in Conds \ {k} : Waiting(j)' = Waiting(j)
      /\ \A j \in Conds : Waiting(j) \in SUBSET Threads
  BY <1>1 DEF Waiting
<1>3. Cardinality(Waiting(k)') = Cardinality(Waiting(k)) - 1 /\ Cardinality(Waiting(k)) > 0
  BY <1>2, <1>1, OneLess
<1>4. \A j \in Conds : Cardinality(Waiting(j)) \in Nat
  BY <1>2, Counting
<1>5. ASSUME NEW j \in Conds
      PROVE  /\ nwait'[j] = Cardinality(Waiting(j)') /\ nwait'[j] \in Nat
             /\ waitings'[j] <= Cardinality(Waiting(j)')
  <2>1. nwait[j] = Cardinality(Waiting(j)) /\ waitings[j] <= Cardinality(Waiting(j))
    BY DEF WaitCountsExact, NoPhantomWaiter
  <2>2. CASE j = k
    <3>1. Cardinality(Waiting(j)') = Cardinality(Waiting(j)) - 1
      BY <1>3, <2>2
    <3>2. nwait'[j] = nwait[j] - 1 /\ waitings'[j] = IF waitings[j] > 0 THEN waitings[j] - 1 ELSE 0
      BY <1>1, <2>2
    <3>3. nwait[j] \in Nat /\ waitings[j] \in Nat /\ Cardinality(Waiting(j)) > 0
      BY <1>1, <1>3, <2>2
    <3> QED BY <2>1, <3>1, <3>2, <3>3
  <2>3. CASE j # k
    <3>1. nwait'[j] = nwait[j] /\ waitings'[j] = waitings[j] /\ Waiting(j)' = Waiting(j)
      BY <1>1, <1>2, <2>3
    <3>2. nwait[j] \in Nat
      BY <1>1
    <3> QED BY <2>1, <3>1, <3>2
  <2> QED BY <2>2, <2>3
<1>6. nwait' \in [Conds -> Nat]
  <2>1. DOMAIN nwait' = Conds /\ nwait' = [c \in Conds |-> nwait'[c]]
    BY <1>1
  <2> QED BY <1>5, <2>1
<1> QED BY <1>5, <1>6 DEF WaitCountsExact, NoPhantomWaiter

\* The other steps leave the waiters where they are.
LEMMA WaitingStays ==
  ASSUME TypeOK, NEW t \in Threads, Step(t) \/ \E r \in Requests : Call(t, r),
         ~Wait(t), ~Relock(t)
  PROVE  UNCHANGED nwait /\ \A k \in Conds : Waiting(k)' = Waiting(k)
<1> USE DEF Waiting
<1>0. /\ pc \in [Threads -> {"out", "lock", "body", "sema", "woken", "late", "leave"}]
      /\ DOMAIN req = Threads
  BY DEF TypeOK
<1>1. ASSUME NEW r \in Requests, Call(t, r)
      PROVE  UNCHANGED nwait /\ \A k \in Conds : Waiting(k)' = Waiting(k)
  BY <1>0, <1>1 DEF Call
<1>2. CASE Lock(t) \/ Take(t) \/ Refuse(t)
  BY <1>0, <1>2 DEF Lock, Take, Refuse
<1>3. CASE SemTake(t) \/ Timeout(t)
  BY <1>0, <1>3 DEF SemTake, Timeout
<1>4. CASE Unlock(t) \/ Destroy(t) \/ Leave(t)
  BY <1>0, <1>4 DEF Unlock, Destroy, Leave
<1> QED BY <1>1, <1>2, <1>3, <1>4 DEF Step

\* Posting takes as many waiters off as it gives tokens.
LEMMA Posting ==
  ASSUME TypeOK, NEW t \in Threads, Unlock(t)
  PROVE  /\ waitings' \in [Conds -> Nat] /\ sema' \in [Conds -> Nat]
         /\ \A k \in Conds : waitings'[k] <= waitings[k]
<1>1. \E c \in Conds : \E n \in 0..waitings[c] : Post(c, n)
  <2>1. waitings \in [Conds -> Nat]
    BY DEF TypeOK
  <2> QED BY <2>1 DEF Unlock, Conds
<1>2. PICK c \in Conds : \E n \in 0..waitings[c] : Post(c, n)
  BY <1>1
<1>3. PICK n \in 0..waitings[c] : Post(c, n)
  BY <1>2
<1> QED BY <1>2, <1>3 DEF Post, TypeOK

LEMMA Waiters ==
  ASSUME TypeOK, CallInv, WaitCountsExact, NoPhantomWaiter, NEW t \in Threads,
         Step(t) \/ \E r \in Requests : Call(t, r)
  PROVE  WaitCountsExact' /\ NoPhantomWaiter'
<1>1. CASE Wait(t)
  BY <1>1, WaitEnter
<1>2. CASE Relock(t)
  BY <1>2, WaitLeave
<1>3. CASE ~Wait(t) /\ ~Relock(t)
  <2>1. UNCHANGED nwait /\ \A k \in Conds : Waiting(k)' = Waiting(k)
    BY <1>3, WaitingStays
  <2>2. \A k \in Conds : waitings'[k] <= waitings[k] /\ waitings[k] \in Nat /\ waitings'[k] \in Nat
    <3>1. CASE Unlock(t)
      BY <3>1, Posting DEF TypeOK
    <3>2. CASE ~Unlock(t)
      BY <1>3, <3>2 DEF Step, Call, Lock, Take, Refuse, SemTake, Timeout, Destroy, Leave, TypeOK, cvars
    <3> QED BY <3>1, <3>2
  <2>3. \A k \in Conds : Cardinality(Waiting(k)) \in Nat
    BY Counting DEF Waiting
  <2> QED BY <2>1, <2>2, <2>3 DEF WaitCountsExact, NoPhantomWaiter
<1> QED BY <1>1, <1>2, <1>3
-----------------------------------------------------------------------------
(* The invariant.                                                          *)

LEMMA Types ==
  ASSUME TypeOK, MutexInv, CallInv, RefcountExact', WaitCountsExact, NoPhantomWaiter,
         NEW t \in Threads, Step(t) \/ \E r \in Requests : Call(t, r)
  PROVE  TypeOK'
<1>1. owner' \in Threads \cup {None} /\ nested' \in Nat
  <2>1. pc[t] = "leave" \/ pc[t] = "body" => nested > 0
    BY RwLockAssumption DEF MutexInv, TypeOK
  <2>2. CASE Lock(t) \/ Relock(t)
    BY <2>2 DEF Lock, Relock, Acquire, TypeOK
  <2>3. CASE Wait(t) \/ Destroy(t) \/ Leave(t)
    BY <2>1, <2>3 DEF Wait, Destroy, Leave, Drop, mvars, TypeOK
  <2>4. CASE ~(Lock(t) \/ Relock(t) \/ Wait(t) \/ Destroy(t) \/ Leave(t))
    BY <2>4 DEF Step, Call, Take, Refuse, SemTake, Timeout, Unlock, mvars, TypeOK
  <2> QED BY <2>2, <2>3, <2>4
<1>2. refcount' \in -1..Cardinality(Threads)
  <2>1. Holding("rd")' \in SUBSET Threads
    BY DEF Holding
  <2>2. Cardinality(Holding("rd")') \in 0..Cardinality(Threads)
    BY <2>1, Counting
  <2>3. Cardinality(Threads) \in Nat
    BY RwLockAssumption, FS_CardinalityType
  <2> QED BY <2>2, <2>3 DEF RefcountExact
<1>3. nwait' \in [Conds -> Nat] /\ waitings' \in [Conds -> Nat] /\ sema' \in [Conds -> Nat]
  <2> USE DEF TypeOK, cvars
  <2>1. CASE Wait(t)
    BY <2>1 DEF Wait
  <2>2. CASE Relock(t)
    <3>1. nwait' \in [Conds -> Nat]
      BY <2>2, WaitLeave
    <3> QED BY <2>2, <3>1 DEF Relock
  <2>3. CASE Unlock(t)
    <3>1. waitings' \in [Conds -> Nat] /\ sema' \in [Conds -> Nat]
      BY <2>3, Posting
    <3> QED BY <2>3, <3>1 DEF Unlock
  <2>4. CASE SemTake(t)
    BY <2>4 DEF SemTake, CallInv
  <2>5. CASE ~(Wait(t) \/ Relock(t) \/ Unlock(t) \/ SemTake(t))
    BY <2>5 DEF Step, Call, Lock, Take, Refuse, Timeout, Destroy, Leave
  <2> QED BY <2>1, <2>2, <2>3, <2>4, <2>5
<1>4. pc' \in [Threads -> {"out", "lock", "body", "sema", "woken", "late", "leave"}]
  BY DEF Step, Call, Lock, Take, Refuse, Wait, SemTake, Timeout, Relock, Unlock, Destroy,
         Leave, TypeOK
<1>5. req' \in [Threads -> Requests \cup {NoCall}]
  BY DEF Step, Call, Lock, Take, Refuse, Wait, SemTake, Timeout, Relock, Unlock, Destroy,
         Leave, TypeOK
<1>6. held' \in [Threads -> Conds \cup {"none"}]
  BY DEF Step, Call, Lock, Take, Refuse, Wait, SemTake, Timeout, Relock, Unlock, Destroy,
         Leave, TypeOK
<1>7. alive' \in BOOLEAN
  BY DEF Step, Call, Lock, Take, Refuse, Wait, SemTake, Timeout, Relock, Unlock, Destroy,
         Leave, TypeOK
<1>8. ndestroy' \in 0..MaxDestroy
  BY RwLockAssumption
     DEF Step, Call, Lock, Take, Refuse, Wait, SemTake, Timeout, Relock, Unlock, Destroy,
         Leave, TypeOK
<1> QED BY <1>1, <1>2, <1>3, <1>4, <1>5, <1>6, <1>7, <1>8 DEF TypeOK

\* A destroy that finds the lock free and nobody counted finds nobody at all:
\* whoever is in a call is counted, has rw_mutex, or is kept at the door.
LEMMA DestroyFindsNobody ==
  ASSUME TypeOK, MutexInv, CallInv, DestroyInv, RefcountExact, WaitCountsExact,
         NEW t \in Threads, Destroy(t), ~Busy, NEW u \in Threads \ {t}
  PROVE  pc[u] = "out" /\ held[u] = "none"
<1>1. pc[t] = "body" /\ req[t].kind = "destroy"
  BY DEF Destroy
<1>2. held[u] = "none"
  BY Holders DEF Busy
<1>3. pc[u] \notin {"body", "leave"}
  BY <1>1 DEF MutexInv
<1>4. pc[u] \notin {"sema", "woken", "late"}
  <2>1. Cardinality(Waiting("rd")) = 0 /\ Cardinality(Waiting("wr")) = 0
    BY DEF Busy, WaitCountsExact, Conds
  <2>2. Waiting("rd") = {} /\ Waiting("wr") = {}
    BY <2>1, Counting DEF Waiting
  <2>3. u \notin Waiting("rd") /\ u \notin Waiting("wr")
    BY <2>2
  <2> QED BY <2>3 DEF Waiting, CallInv, Conds
<1>5. pc[u] # "lock"
  <2>1. SUFFICES ASSUME pc[u] = "lock" PROVE FALSE
    OBVIOUS
  <2>2. req[u] \in Requests /\ req[u].kind # "unlock"
    BY <1>2, <2>1 DEF CallInv
  <2>3. req[u].kind \in Conds \cup {"destroy"}
    BY <2>2 DEF Requests
  <2> QED BY <1>1, <2>1, <2>3 DEF DestroyInv
<1> QED BY <1>2, <1>3, <1>4, <1>5 DEF TypeOK

LEMMA Quiet ==
  ASSUME TypeOK, MutexInv, CallInv, DestroyInv, RefcountExact, WaitCountsExact,
         DestroyedIsQuiet, NEW t \in Threads, Step(t) \/ \E r \in Requests : Call(t, r)
  PROVE  DestroyedIsQuiet'
<1>1. alive
  <2>1. pc[t] # "out" \/ alive
    BY DEF Step, Call, Lock, Take, Refuse, Wait, SemTake, Timeout, Relock, Unlock, Destroy,
           Leave
  <2> QED BY <2>1 DEF DestroyedIsQuiet
<1>2. CASE Destroy(t) /\ ~Busy
  <2>1. pc' = [pc EXCEPT ![t] = "out"] /\ UNCHANGED held /\ held[t] = "none"
    BY <1>2, Holders DEF Destroy, Busy
  <2>2. \A u \in Threads \ {t} : pc[u] = "out" /\ held[u] = "none"
    BY <1>2, DestroyFindsNobody
  <2> QED BY <2>1, <2>2 DEF DestroyedIsQuiet, TypeOK
<1>3. CASE ~(Destroy(t) /\ ~Busy)
  <2>1. alive'
    BY <1>1, <1>3 DEF Step, Call, Lock, Take, Refuse, Wait, SemTake, Timeout, Relock,
                      Unlock, Destroy, Leave
  <2> QED BY <2>1 DEF DestroyedIsQuiet
<1> QED BY <1>2, <1>3

LEMMA Start == Init => IInv /\ Promise!Init
<1>1. SUFFICES ASSUME Init PROVE IInv /\ Promise!Init
  OBVIOUS
<1>2. Holding("rd") = {} /\ Holding("wr") = {} /\ \A k \in Conds : Waiting(k) = {}
  BY <1>1 DEF Init, Holding, Waiting
<1>3. Cardinality({}) = 0 /\ Cardinality(Threads) \in Nat
  BY RwLockAssumption, FS_EmptySet, FS_CardinalityType
<1>4. TypeOK
  BY <1>1, <1>3, RwLockAssumption DEF Init, TypeOK
<1>5. MutexInv /\ CallInv /\ DestroyInv
  BY <1>1 DEF Init, MutexInv, CallInv, DestroyInv
<1>6. RefcountExact /\ WaitCountsExact /\ NoPhantomWaiter
  BY <1>1, <1>2, <1>3 DEF Init, RefcountExact, WaitCountsExact, NoPhantomWaiter
<1>7. DestroyedIsQuiet
  BY <1>1 DEF Init, DestroyedIsQuiet
<1> QED BY <1>1, <1>4, <1>5, <1>6, <1>7 DEF IInv, Init, Promise!Init

LEMMA Inductive == IInv /\ [Next]_vars => IInv' /\ [Promise!Next]_held
<1>1. SUFFICES ASSUME IInv, [Next]_vars PROVE IInv' /\ [Promise!Next]_held
  OBVIOUS
<1> USE <1>1
<1>2. ASSUME NEW t \in Threads, Step(t) \/ \E r \in Requests : Call(t, r)
      PROVE  IInv' /\ [Promise!Next]_held
  <2>1. RefcountExact' /\ [Promise!Next]_held
    BY <1>2, Refcount DEF IInv
  <2>2. TypeOK'
    BY <1>2, <2>1, Types DEF IInv
  <2>3. MutexInv'
    BY <1>2, Mutex DEF IInv
  <2>4. CallInv'
    BY <1>2, Calls DEF IInv
  <2>5. DestroyInv'
    BY <1>2, Destroys DEF IInv
  <2>6. WaitCountsExact' /\ NoPhantomWaiter'
    BY <1>2, Waiters DEF IInv
  <2>7. DestroyedIsQuiet'
    BY <1>2, Quiet DEF IInv
  <2> QED BY <2>1, <2>2, <2>3, <2>4, <2>5, <2>6, <2>7 DEF IInv
<1>3. CASE UNCHANGED vars
  BY <1>3 DEF vars, mvars, cvars, tvars, IInv, TypeOK, MutexInv, CallInv, DestroyInv,
              RefcountExact, WaitCountsExact, NoPhantomWaiter, DestroyedIsQuiet, Holding, Waiting
<1> QED BY <1>2, <1>3 DEF Next, Step

\* The lock's invariant holds throughout: who has rw_mutex, what each call may
\* find, and that the two counters are exact.
THEOREM Invariance == Spec => []IInv
<1>1. IInv /\ [Next]_vars => IInv'
  BY Inductive
<1> QED BY Start, <1>1, PTL DEF Spec

\* The variables of the lock keep their types; in particular rw_refcount stays
\* between -1 and the number of threads, and no count of waiters goes below 0.
THEOREM LockTypeCorrect == Spec => []TypeOK
<1>1. IInv => TypeOK
  BY DEF IInv
<1> QED BY Invariance, <1>1, PTL

\* rw_refcount is -1 exactly for one writer and otherwise the number of
\* readers, for any number of threads, whatever timeouts and retries did.
THEOREM RefcountCorrect == Spec => []RefcountExact
<1>1. IInv => RefcountExact
  BY DEF IInv
<1> QED BY Invariance, <1>1, PTL

\* rw_nwaitreaders and rw_nwaitwriters count the waiting threads, those that
\* timed out included until they have counted themselves off.
THEOREM WaitersCounted == Spec => []WaitCountsExact
<1>1. IInv => WaitCountsExact
  BY DEF IInv
<1> QED BY Invariance, <1>1, PTL

\* A condition variable never counts more waiters than there are, although
\* os_condv_signal and the waiter it wakes both take the waiter off.
THEOREM NoPhantoms == Spec => []NoPhantomWaiter
<1>1. IInv => NoPhantomWaiter
  BY DEF IInv
<1> QED BY Invariance, <1>1, PTL

\* pthread_rwlock_destroy frees the lock under nobody: its three counters tell
\* it of every holder and of every thread asleep or on its way back.
THEOREM DestroyIsSafe == Spec => []DestroyedIsQuiet
<1>1. IInv => DestroyedIsQuiet
  BY DEF IInv
<1> QED BY Invariance, <1>1, PTL

\* The lock implements many readers or one writer: every step of its code is a
\* step of RwLockSpec or leaves what is held alone.
THEOREM LockImplements == Spec => Implements
<1>1. Init => Promise!Init
  BY Start
<1>2. IInv /\ [Next]_vars => [Promise!Next]_held
  BY Inductive
<1> QED BY Invariance, <1>1, <1>2, PTL DEF Spec, Implements, Promise!Spec
=============================================================================
