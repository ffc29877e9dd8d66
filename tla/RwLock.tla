------------------------------- MODULE RwLock -------------------------------
(***************************************************************************)
(* The read-write lock of lib/posix/pthread_rwlock.c over the condition    *)
(* variable of osal/csky/condv.c and a kernel mutex and semaphore.         *)
(*                                                                         *)
(* rw_mutex protects all but the semaphores: what a thread does between    *)
(* taking and releasing it is cut only where a thread outside it could     *)
(* tell.  rw_mutex nests, as the kernel's mutexes do.  The lock was made   *)
(* by pthread_rwlock_init; the first use of a static initialiser is not    *)
(* modelled.                                                               *)
(***************************************************************************)
EXTENDS Integers, FiniteSets

CONSTANTS Threads,
          None,        \* no thread
          MaxDestroy   \* calls of pthread_rwlock_destroy

ASSUME RwLockAssumption ==
    /\ IsFiniteSet(Threads) /\ None \notin Threads
    /\ MaxDestroy \in Nat

Conds    == {"rd", "wr"}     \* rw_condreaders, rw_condwriters
Requests == [kind : Conds, how : {"wait", "try", "timed"}]
            \cup [kind : {"unlock", "destroy"}, how : {"wait"}]
NoCall   == [kind |-> "none", how |-> "wait"]

VARIABLES
    owner,     \* the thread that has rw_mutex
    nested,    \* how many times it has it
    refcount,  \* rw_refcount
    nwait,     \* rw_nwaitreaders, rw_nwaitwriters
    waitings,  \* of each condition variable
    sema,      \* its semaphore
    pc, req,   \* where each thread is, in which call
    held,      \* what it holds
    alive,     \* not destroyed
    ndestroy   \* calls of pthread_rwlock_destroy so far

mvars == <<owner, nested>>
cvars == <<waitings, sema>>
tvars == <<pc, req, held>>
vars  == <<mvars, refcount, nwait, cvars, tvars, alive, ndestroy>>

\* The variables have their types.  refcount is -1 for a writer.
TypeOK ==
    /\ owner \in Threads \cup {None} /\ nested \in Nat
    /\ refcount \in -1..Cardinality(Threads)
    /\ nwait \in [Conds -> Nat] /\ waitings \in [Conds -> Nat] /\ sema \in [Conds -> Nat]
    /\ pc \in [Threads -> {"out", "lock", "body", "sema", "woken", "late", "leave"}]
    /\ req \in [Threads -> Requests \cup {NoCall}]
    /\ held \in [Threads -> Conds \cup {"none"}]
    /\ alive \in BOOLEAN /\ ndestroy \in 0..MaxDestroy

Init ==
    /\ owner = None /\ nested = 0 /\ refcount = 0
    /\ nwait = [c \in Conds |-> 0] /\ waitings = nwait /\ sema = nwait
    /\ pc = [t \in Threads |-> "out"]
    /\ req = [t \in Threads |-> NoCall]
    /\ held = [t \in Threads |-> "none"]
    /\ alive = TRUE /\ ndestroy = 0

-----------------------------------------------------------------------------
(* rw_mutex, taken and released by thread t.                               *)

Acquire(t) == owner \in {None, t} /\ owner' = t /\ nested' = nested + 1

Drop == nested' = nested - 1 /\ owner' = IF nested = 1 THEN None ELSE owner

\* A thread that waits for rw_mutex is counted nowhere: nobody may destroy the
\* lock under it, and nobody may call once a destroy is under way.
Entering   == \E u \in Threads : pc[u] = "lock" /\ req[u].kind \in Conds
Destroying == \E u \in Threads : pc[u] \in {"lock", "body"} /\ req[u].kind = "destroy"

Call(t, r) ==
    /\ pc[t] = "out" /\ alive
    /\ r.kind = "unlock" <=> held[t] # "none"
    /\ r.kind \in Conds => ~Destroying
    /\ r.kind = "destroy" => ~Entering /\ ~Destroying /\ ndestroy < MaxDestroy
    /\ pc' = [pc EXCEPT ![t] = "lock"]
    /\ req' = [req EXCEPT ![t] = r]
    /\ ndestroy' = IF r.kind = "destroy" THEN ndestroy + 1 ELSE ndestroy
    /\ UNCHANGED <<mvars, refcount, nwait, cvars, held, alive>>

Lock(t) ==
    /\ pc[t] = "lock"
    /\ Acquire(t)
    /\ pc' = [pc EXCEPT ![t] = "body"]
    /\ UNCHANGED <<refcount, nwait, cvars, req, held, alive, ndestroy>>

Leave(t) ==
    /\ pc[t] = "leave"
    /\ Drop
    /\ pc' = [pc EXCEPT ![t] = "out"]
    /\ req' = [req EXCEPT ![t] = NoCall]
    /\ UNCHANGED <<refcount, nwait, cvars, held, alive, ndestroy>>

-----------------------------------------------------------------------------
(* rdlock, wrlock, their try and timed forms.                              *)

\* Mutant: a writer only looks for a writer.
BlockedByWriterOnly(kind) ==
    IF kind = "rd" THEN refcount < 0 \/ nwait["wr"] > 0 ELSE refcount < 0

\* Readers also give way to waiting writers.
Blocked(kind) ==
    IF kind = "rd" THEN refcount < 0 \/ nwait["wr"] > 0 ELSE refcount # 0

\* Mutant: a reader sets the count instead of raising it.
TakeAsFirst(t) ==
    LET k == req[t].kind IN
    /\ pc[t] = "body" /\ k \in Conds /\ ~Blocked(k)
    /\ refcount' = IF k = "rd" THEN 1 ELSE -1
    /\ held' = [held EXCEPT ![t] = k]
    /\ pc' = [pc EXCEPT ![t] = "leave"]
    /\ UNCHANGED <<mvars, nwait, cvars, req, alive, ndestroy>>

Take(t) ==
    LET k == req[t].kind IN
    /\ pc[t] = "body" /\ k \in Conds /\ ~Blocked(k)
    /\ refcount' = IF k = "rd" THEN refcount + 1 ELSE -1
    /\ held' = [held EXCEPT ![t] = k]
    /\ pc' = [pc EXCEPT ![t] = "leave"]
    /\ UNCHANGED <<mvars, nwait, cvars, req, alive, ndestroy>>

\* The try forms return -EBUSY.
Refuse(t) ==
    /\ pc[t] = "body" /\ req[t].kind \in Conds /\ req[t].how = "try"
    /\ Blocked(req[t].kind)
    /\ pc' = [pc EXCEPT ![t] = "leave"]
    /\ UNCHANGED <<mvars, refcount, nwait, cvars, req, held, alive, ndestroy>>

\* The others count themselves and go to sleep in os_condv_wait.
Wait(t) ==
    LET k == req[t].kind IN
    /\ pc[t] = "body" /\ k \in Conds /\ req[t].how # "try" /\ Blocked(k)
    /\ nwait' = [nwait EXCEPT ![k] = @ + 1]
    /\ waitings' = [waitings EXCEPT ![k] = @ + 1]
    /\ Drop
    /\ pc' = [pc EXCEPT ![t] = "sema"]
    /\ UNCHANGED <<refcount, sema, req, held, alive, ndestroy>>

SemTake(t) ==
    LET k == req[t].kind IN
    /\ pc[t] = "sema" /\ sema[k] > 0
    /\ sema' = [sema EXCEPT ![k] = @ - 1]
    /\ pc' = [pc EXCEPT ![t] = "woken"]
    /\ UNCHANGED <<mvars, refcount, nwait, waitings, req, held, alive, ndestroy>>

\* The kernel hands a token to a sleeper at once: it times out only with none.
Timeout(t) ==
    /\ pc[t] = "sema" /\ req[t].how = "timed" /\ sema[req[t].kind] = 0
    /\ pc' = [pc EXCEPT ![t] = "late"]
    /\ UNCHANGED <<mvars, refcount, nwait, cvars, req, held, alive, ndestroy>>

\* Mutant: the break on a timeout comes before the count goes down.
RelockBreakEarly(t) ==
    LET k == req[t].kind IN
    /\ pc[t] \in {"woken", "late"}
    /\ Acquire(t)
    /\ waitings' = [waitings EXCEPT ![k] = IF @ > 0 THEN @ - 1 ELSE 0]
    /\ nwait' = [nwait EXCEPT ![k] = IF pc[t] = "woken" THEN @ - 1 ELSE @]
    /\ pc' = [pc EXCEPT ![t] = IF @ = "woken" THEN "body" ELSE "leave"]
    /\ UNCHANGED <<refcount, sema, req, held, alive, ndestroy>>

\* Mutant: os_condv_wait leaves waitings to whoever signals.
RelockNoDec(t) ==
    LET k == req[t].kind IN
    /\ pc[t] \in {"woken", "late"}
    /\ Acquire(t)
    /\ nwait' = [nwait EXCEPT ![k] = @ - 1]
    /\ pc' = [pc EXCEPT ![t] = IF @ = "woken" THEN "body" ELSE "leave"]
    /\ UNCHANGED <<refcount, cvars, req, held, alive, ndestroy>>

\* Awake: rw_mutex again, waitings and the lock's count down (atomic_dec stops
\* at 0), then the test again, or out with -ETIMEDOUT.
Relock(t) ==
    LET k == req[t].kind IN
    /\ pc[t] \in {"woken", "late"}
    /\ Acquire(t)
    /\ waitings' = [waitings EXCEPT ![k] = IF @ > 0 THEN @ - 1 ELSE 0]
    /\ nwait' = [nwait EXCEPT ![k] = @ - 1]
    /\ pc' = [pc EXCEPT ![t] = IF @ = "woken" THEN "body" ELSE "leave"]
    /\ UNCHANGED <<refcount, sema, req, held, alive, ndestroy>>

-----------------------------------------------------------------------------
(* unlock and destroy.                                                     *)

\* os_condv_signal and os_condv_broadcast post for waiters they take off.
Post(c, n) ==
    /\ waitings' = [waitings EXCEPT ![c] = @ - n]
    /\ sema' = [sema EXCEPT ![c] = @ + n]

\* Mutant: the count goes down for a writer too.
UnlockDown(t) ==
    /\ pc[t] = "body" /\ req[t].kind = "unlock"
    /\ refcount' = refcount - 1
    /\ IF nwait["wr"] > 0
       THEN Post("wr", IF refcount' = 0 /\ waitings["wr"] > 0 THEN 1 ELSE 0)
       ELSE Post("rd", IF nwait["rd"] > 0 THEN waitings["rd"] ELSE 0)
    /\ held' = [held EXCEPT ![t] = "none"]
    /\ pc' = [pc EXCEPT ![t] = "leave"]
    /\ UNCHANGED <<mvars, nwait, req, alive, ndestroy>>

\* A waiting writer goes first, and only into a free lock.
Unlock(t) ==
    /\ pc[t] = "body" /\ req[t].kind = "unlock"
    /\ refcount' = IF refcount > 0 THEN refcount - 1 ELSE 0
    /\ IF nwait["wr"] > 0
       THEN Post("wr", IF refcount' = 0 /\ waitings["wr"] > 0 THEN 1 ELSE 0)
       ELSE Post("rd", IF nwait["rd"] > 0 THEN waitings["rd"] ELSE 0)
    /\ held' = [held EXCEPT ![t] = "none"]
    /\ pc' = [pc EXCEPT ![t] = "leave"]
    /\ UNCHANGED <<mvars, nwait, req, alive, ndestroy>>

\* Mutant: a lock that is free is not busy, whoever waits for it.
BusyIfHeld == refcount # 0

Busy == refcount # 0 \/ nwait["rd"] # 0 \/ nwait["wr"] # 0

\* -EBUSY returns with rw_mutex held.
Destroy(t) ==
    /\ pc[t] = "body" /\ req[t].kind = "destroy"
    /\ IF Busy THEN UNCHANGED <<mvars, alive>> ELSE Drop /\ alive' = FALSE
    /\ pc' = [pc EXCEPT ![t] = "out"]
    /\ req' = [req EXCEPT ![t] = NoCall]
    /\ UNCHANGED <<refcount, nwait, cvars, held, ndestroy>>

Next ==
    \E t \in Threads :
       \/ \E r \in Requests : Call(t, r)
       \/ Lock(t) \/ Take(t) \/ Refuse(t) \/ Wait(t) \/ SemTake(t) \/ Timeout(t)
       \/ Relock(t) \/ Unlock(t) \/ Destroy(t) \/ Leave(t)

Spec == Init /\ [][Next]_vars

-----------------------------------------------------------------------------
(* Properties.                                                             *)

Holding(k) == {t \in Threads : held[t] = k}

\* Threads that have counted themselves on k and not yet counted themselves off.
Waiting(k) == {t \in Threads : pc[t] \in {"sema", "woken", "late"} /\ req[t].kind = k}

\* rw_refcount says who has the lock: -1 is one writer and no reader, n > 0 are
\* n readers and no writer, through any mix of barging, retries and timeouts.
RefcountExact ==
    \/ refcount = -1 /\ Holding("rd") = {} /\ Cardinality(Holding("wr")) = 1
    \/ refcount = Cardinality(Holding("rd")) /\ Holding("wr") = {}

\* rw_nwaitreaders and rw_nwaitwriters are the numbers of threads waiting; a
\* timed-out writer that stayed counted would keep readers out for good.
WaitCountsExact == \A k \in Conds : nwait[k] = Cardinality(Waiting(k))

\* A condition variable never counts more waiters than there are, although a
\* signal, a timeout, or both at once take the same waiter off (condv.c:79).
NoPhantomWaiter == \A k \in Conds : waitings[k] <= Cardinality(Waiting(k))

\* A lock is destroyed under nobody: no thread holds it, sleeps on its
\* semaphores or is on its way back from them to rw_mutex.
DestroyedIsQuiet == ~alive => \A t \in Threads : pc[t] = "out" /\ held[t] = "none"

Promise == INSTANCE RwLockSpec

\* The lock implements many readers or one writer: a thread that was woken, or
\* that came in while another was being woken, takes it only when it is free.
Implements == Promise!Spec
=============================================================================
