----------------------------- MODULE RwLockSpec -----------------------------
(***************************************************************************)
(* What a read-write lock promises: many readers or one writer.            *)
(***************************************************************************)
CONSTANT Threads
VARIABLE held          \* what each thread holds

Init == held = [t \in Threads |-> "none"]

AcquireRead(t) ==
    /\ held[t] = "none" /\ \A u \in Threads : held[u] # "wr"
    /\ held' = [held EXCEPT ![t] = "rd"]

AcquireWrite(t) ==
    /\ \A u \in Threads : held[u] = "none"
    /\ held' = [held EXCEPT ![t] = "wr"]

Release(t) ==
    /\ held[t] # "none"
    /\ held' = [held EXCEPT ![t] = "none"]

Next == \E t \in Threads : AcquireRead(t) \/ AcquireWrite(t) \/ Release(t)

Spec == Init /\ [][Next]_held
=============================================================================
