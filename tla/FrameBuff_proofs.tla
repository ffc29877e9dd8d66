--------------------------- MODULE FrameBuff_proofs ---------------------------
EXTENDS FrameBuff, FiniteSetTheorems, TLAPS

(* Pushing onto and popping from the recursion stack. *)
LEMMA PushFacts ==
  ASSUME NEW s \in Seq(Fbs), NEW f \in Fbs
  PROVE  /\ Append(s, f) \in Seq(Fbs)
         /\ Len(Append(s, f)) = Len(s) + 1
         /\ \A i \in 1 .. Len(s) : Append(s, f)[i] = s[i]
         /\ Append(s, f)[Len(s) + 1] = f
OBVIOUS

LEMMA PopFacts ==
  ASSUME NEW s \in Seq(Fbs), s # <<>>
  PROVE  /\ Pop(s) \in Seq(Fbs)
         /\ Len(s) \in Nat \ {0}
         /\ Len(Pop(s)) = Len(s) - 1
         /\ \A i \in 1 .. Len(s) - 1 : Pop(s)[i] = s[i]
         /\ Top(s) \in Fbs /\ Top(s) = s[Len(s)]
<1>1. Len(s) \in Nat \ {0}
  OBVIOUS
<1>2. Pop(s) = [i \in 1 .. Len(s) - 1 |-> s[i]]
  BY <1>1 DEF Pop
<1>3. Pop(s) \in Seq(Fbs) /\ Len(Pop(s)) = Len(s) - 1
  BY <1>1, <1>2
<1> QED BY <1>1, <1>2, <1>3 DEF Top

(* The sets that UsersExact and OwnerExact count are finite. *)
Owers(f) == {h \in Handles : f \in owed[h]}

LEMMA CountsFinite ==
  /\ \A S \in SUBSET Handles : IsFiniteSet(S) /\ Cardinality(S) \in Nat
                               /\ Cardinality(S) < UsersMod
  /\ \A S \in SUBSET Fbs : IsFiniteSet(S) /\ Cardinality(S) \in Nat
<1> USE FbAssumption
<1>1. ASSUME NEW S \in SUBSET Handles
      PROVE  IsFiniteSet(S) /\ Cardinality(S) \in Nat /\ Cardinality(S) < UsersMod
  BY FS_Subset, FS_CardinalityType
<1>2. ASSUME NEW S \in SUBSET Fbs
      PROVE  IsFiniteSet(S) /\ Cardinality(S) \in Nat
  BY FS_Subset, FS_CardinalityType
<1> QED BY <1>1, <1>2

(* One handle more or less. *)
LEMMA CountStep ==
  ASSUME NEW S \in SUBSET Handles, NEW h \in Handles
  PROVE  /\ h \notin S => Cardinality(S \cup {h}) = Cardinality(S) + 1
         /\ h \in S => Cardinality(S \ {h}) = Cardinality(S) - 1 /\ Cardinality(S) > 0
         /\ Cardinality(S) = 0 <=> S = {}
         /\ Cardinality({h}) = 1
<1>1. IsFiniteSet(S) /\ Cardinality(S) \in Nat
  BY CountsFinite
<1>2. h \notin S => Cardinality(S \cup {h}) = Cardinality(S) + 1
  BY <1>1, FS_AddElement
<1>3. Cardinality(S) = 0 <=> S = {}
  BY <1>1, FS_EmptySet
<1>4. h \in S => Cardinality(S \ {h}) = Cardinality(S) - 1
  BY <1>1, FS_RemoveElement
<1>5. Cardinality({h}) = 1
  BY FS_Singleton
<1> QED BY <1>1, <1>2, <1>3, <1>4, <1>5

LEMMA CountStepFb ==
  ASSUME NEW S \in SUBSET Fbs, NEW f \in Fbs
  PROVE  /\ f \notin S => Cardinality(S \cup {f}) = Cardinality(S) + 1
         /\ f \in S => Cardinality(S \ {f}) = Cardinality(S) - 1 /\ Cardinality(S) > 0
         /\ Cardinality(S) = 0 <=> S = {}
<1>1. IsFiniteSet(S) /\ Cardinality(S) \in Nat
  BY CountsFinite
<1>2. f \notin S => Cardinality(S \cup {f}) = Cardinality(S) + 1
  BY <1>1, FS_AddElement
<1>3. Cardinality(S) = 0 <=> S = {}
  BY <1>1, FS_EmptySet
<1>4. f \in S => Cardinality(S \ {f}) = Cardinality(S) - 1
  BY <1>1, FS_RemoveElement
<1> QED BY <1>1, <1>2, <1>3, <1>4

(* A frame some reference accounts for has a positive counter, and a frame *)
(* with one user is accounted for by one reference only.                   *)
LEMMA UsersMeaning ==
  ASSUME UsersExact, NEW f \in Fbs
  PROVE  /\ users[f] = 0 <=> \A h \in Handles : f \notin owed[h]
         /\ users[f] \in Nat /\ users[f] < UsersMod
         /\ \A h \in Handles : f \in owed[h] =>
               /\ users[f] > 0
               /\ users[f] = 1 <=> \A g \in Handles \ {h} : f \notin owed[g]
<1> DEFINE S == Owers(f)
<1>1. S \in SUBSET Handles /\ users[f] = Cardinality(S)
  BY DEF UsersExact, Owers
<1>2. Cardinality(S) = 0 <=> S = {}
  BY <1>1, CountsFinite, FS_EmptySet
<1>3. users[f] \in Nat /\ users[f] < UsersMod
  BY <1>1, CountsFinite
<1>4. ASSUME NEW h \in Handles, f \in owed[h]
      PROVE  /\ users[f] > 0
             /\ users[f] = 1 <=> \A g \in Handles \ {h} : f \notin owed[g]
  <2>1. h \in S
    BY <1>4 DEF Owers
  <2>2. Cardinality(S \ {h}) = Cardinality(S) - 1 /\ Cardinality(S) > 0
    BY <1>1, <2>1, CountStep
  <2>3. Cardinality(S \ {h}) = 0 <=> S \ {h} = {}
    BY <1>1, CountsFinite, FS_EmptySet
  <2>4. S \ {h} = {} <=> \A g \in Handles \ {h} : f \notin owed[g]
    BY DEF Owers
  <2> QED BY <1>1, <1>3, <2>2, <2>3, <2>4
<1> QED BY <1>1, <1>2, <1>3, <1>4 DEF Owers

(***************************************************************************)
(* A step of one handle leaves what HandleOK says of the others alone.     *)
(***************************************************************************)
SameHandle(k) ==
    /\ pc'[k] = pc[k] /\ ref'[k] = ref[k] /\ cur'[k] = cur[k]
    /\ stk'[k] = stk[k] /\ src'[k] = src[k] /\ owed'[k] = owed[k]

SameChain(k) == \A f \in owed[k] : depth'[f] = depth[f] /\ next'[f] = next[f]

LEMMA OtherHandle ==
  ASSUME TypeOK, TypeOK', NEW k \in Handles,
         \A h \in Handles : HandleOK(h),
         SameHandle(k), SameChain(k), owed[k] \subseteq live',
         pc[k] \in PcGet => SameHandle(src[k]) /\ SameChain(src[k]),
         pc[k] \in PcGet /\ Linking(k)
            => \A g \in Handles \ {k} : ref[k] \notin owed'[g],
         Freeing(k) => cur[k] \in live' /\ users'[cur[k]] = users[cur[k]]
  PROVE  HandleOK(k)'
<1> USE FbAssumption
<1>1. HandleOK(k)
  OBVIOUS
<1>2. StkSet(k)' = StkSet(k) /\ (Freeing(k)' <=> Freeing(k))
  BY DEF StkSet, Freeing, SameHandle
<1>3. ReleaseOK(k)' /\ NoneOK(k)'
  BY <1>1, <1>2 DEF HandleOK, ReleaseOK, NoneOK, SameHandle, PcFree
<1>4. Covers(k) => Covers(k)'
  BY DEF Covers, SameHandle, SameChain
<1>5. IdleOK(k)'
  BY <1>1, <1>4 DEF HandleOK, IdleOK, SameHandle
<1>6. WalkOK(k)'
  <2> SUFFICES ASSUME pc[k] = "putwalk" PROVE WalkOK(k)'
    BY DEF WalkOK, SameHandle
  <2>1. Covers(k) /\ OnChain(k, k) /\ AtCur(k, k)
    BY <1>1 DEF HandleOK, WalkOK
  <2>2. depth'[ref[k]] = depth[ref[k]]
    BY <2>1 DEF Covers, SameChain
  <2>3. OnChain(k, k)'
    BY <2>1, <2>2 DEF OnChain, SameHandle, SameChain
  <2>4. AtCur(k, k)'
    BY <2>1, <2>2 DEF AtCur, SameHandle, SameChain
  <2> QED BY <1>4, <2>1, <2>3, <2>4 DEF WalkOK
<1>7. GetOK(k)'
  <2> SUFFICES ASSUME pc[k] \in PcGet PROVE GetOK(k)'
    BY DEF GetOK, SameHandle
  <2>0. PICK g \in Handles \ {k} : g = src[k] /\ pc[g] = "idle"
    BY <1>1 DEF HandleOK, GetOK
  <2>1. GetOK(k) /\ SameHandle(g) /\ SameChain(g)
    BY <1>1, <2>0 DEF HandleOK
  <2>2. Covers(g)
    BY <2>0 DEF HandleOK, IdleOK
  <2>3. ref[g] \in owed[g] /\ depth'[ref[g]] = depth[ref[g]]
    BY <2>1, <2>2 DEF Covers, SameChain
  <2>4. OnChain(k, g)'
    BY <2>0, <2>1, <2>3 DEF GetOK, OnChain, SameHandle, SameChain
  <2>5. AtCur(k, g) => AtCur(k, g)'
    BY <2>1, <2>3 DEF AtCur, SameHandle, SameChain
  <2>6. Counted(k, g)' = Counted(k, g)
    BY <2>1, <2>3 DEF Counted, SameHandle, SameChain
  <2>7. (Linking(k)' <=> Linking(k)) /\ src'[k] = g
    BY <2>0, <2>1 DEF Linking, SameHandle
  <2>8. Linking(k) => ref[k] \in owed[k] /\ next'[ref[k]] = NULL
    BY <2>1 DEF GetOK, SameChain
  <2> QED
    BY <2>0, <2>1, <2>4, <2>5, <2>6, <2>7, <2>8 DEF GetOK, SameHandle
<1> QED
  BY <1>1, <1>3, <1>5, <1>6, <1>7 DEF HandleOK, SameHandle

(***************************************************************************)
(* Every step keeps the types.                                             *)
(***************************************************************************)
LEMMA BeginType ==
  ASSUME IInv, NEW h \in Handles, Begin(h)
  PROVE  TypeOK'
<1> USE FbAssumption DEF Pcs, PcGet, PcPut, PcFree
<1>1. TypeOK /\ UsersMod \in Nat /\ 1 \in 0 .. UsersMod - 1
  <2>1. Cardinality({h}) = 1 /\ Cardinality({h}) < UsersMod
    BY CountStep, CountsFinite
  <2> QED BY <2>1 DEF IInv, FrameInv
<1>2. ASSUME NEW f \in Fbs PROVE atomic_inc(f) \in [Fbs -> 0 .. UsersMod - 1]
  BY <1>1 DEF TypeOK, FbTypeOK, MsiTypeOK, OpTypeOK, atomic_inc
<1>3. ASSUME NEW f \in HeapFbs, NEW m \in Msis, fb_alloc(h, f, m) PROVE TypeOK'
  <2>a. FbTypeOK'
    BY <1>1, <1>3 DEF fb_alloc, NewFrame, Fbs, TypeOK, FbTypeOK
  <2>b. MsiTypeOK'
    BY <1>1, <1>3 DEF fb_alloc, NewFrame, Fbs, TypeOK, MsiTypeOK
  <2>c. OpTypeOK'
    BY <1>1, <1>3 DEF fb_alloc, NewFrame, Fbs, TypeOK, OpTypeOK
  <2> QED BY <2>a, <2>b, <2>c DEF TypeOK
<1>4. ASSUME NEW f \in PoolFbs, fbpool_get(h, f) PROVE TypeOK'
  <2>1. users' \in [Fbs -> 0 .. UsersMod - 1] /\ f \in Fbs
    BY <1>2, <1>4 DEF fbpool_get, Fbs
  <2>a. FbTypeOK'
    BY <1>1, <1>4, <2>1 DEF fbpool_get, NewFrame, TypeOK, FbTypeOK
  <2>b. MsiTypeOK'
    BY <1>1, <1>4, <2>1 DEF fbpool_get, NewFrame, TypeOK, MsiTypeOK
  <2>c. OpTypeOK'
    BY <1>1, <1>4, <2>1 DEF fbpool_get, NewFrame, TypeOK, OpTypeOK
  <2> QED BY <2>a, <2>b, <2>c DEF TypeOK
<1>5. ASSUME NEW g \in Handles, NEW f \in HeapFbs, NEW m \in Msis, fb_clone(h, g, f, m)
      PROVE  TypeOK'
  <2>a. FbTypeOK'
    BY <1>1, <1>5 DEF fb_clone, NewFrame, Fbs, TypeOK, FbTypeOK
  <2>b. MsiTypeOK'
    BY <1>1, <1>5 DEF fb_clone, NewFrame, Fbs, TypeOK, MsiTypeOK
  <2>c. OpTypeOK'
    BY <1>1, <1>5 DEF fb_clone, NewFrame, Fbs, TypeOK, OpTypeOK
  <2> QED BY <2>a, <2>b, <2>c DEF TypeOK
<1>6. ASSUME NEW g \in Handles, fb_get(h, g) PROVE TypeOK'
  <2>a. FbTypeOK'
    BY <1>1, <1>6 DEF fb_get, StartGet, fbVars, msiVars, TypeOK, FbTypeOK
  <2>b. MsiTypeOK'
    BY <1>1, <1>6 DEF fb_get, StartGet, fbVars, msiVars, TypeOK, MsiTypeOK
  <2>c. OpTypeOK'
    BY <1>1, <1>6 DEF fb_get, StartGet, fbVars, msiVars, TypeOK, OpTypeOK
  <2> QED BY <2>a, <2>b, <2>c DEF TypeOK
<1>7. ASSUME NEW g \in Handles, fb_ref(h, g) PROVE TypeOK'
  <2>a. FbTypeOK'
    BY <1>1, <1>7 DEF fb_ref, StartGet, fbVars, msiVars, TypeOK, FbTypeOK
  <2>b. MsiTypeOK'
    BY <1>1, <1>7 DEF fb_ref, StartGet, fbVars, msiVars, TypeOK, MsiTypeOK
  <2>c. OpTypeOK'
    BY <1>1, <1>7 DEF fb_ref, StartGet, fbVars, msiVars, TypeOK, OpTypeOK
  <2> QED BY <2>a, <2>b, <2>c DEF TypeOK
<1>8. ASSUME fb_put(h) PROVE TypeOK'
  <2>a. FbTypeOK'
    BY <1>1, <1>8 DEF fb_put, fbVars, msiVars, TypeOK, FbTypeOK
  <2>b. MsiTypeOK'
    BY <1>1, <1>8 DEF fb_put, fbVars, msiVars, TypeOK, MsiTypeOK
  <2>c. OpTypeOK'
    BY <1>1, <1>8 DEF fb_put, fbVars, msiVars, TypeOK, OpTypeOK
  <2> QED BY <2>a, <2>b, <2>c DEF TypeOK
<1> QED BY <1>3, <1>4, <1>5, <1>6, <1>7, <1>8 DEF Begin

LEMMA ContinueType ==
  ASSUME IInv, NEW h \in Handles, Continue(h)
  PROVE  TypeOK'
<1> USE FbAssumption DEF Pcs, PcGet, PcPut, PcFree, fbVars, msiVars
<1>1. TypeOK /\ HandleOK(h) /\ 0 \in 0 .. UsersMod - 1
  <2>1. Cardinality({h}) = 1 /\ Cardinality({h}) < UsersMod
    BY CountStep, CountsFinite
  <2> QED BY <2>1 DEF IInv, FrameInv
<1>2. ASSUME NEW f \in Fbs PROVE atomic_inc(f) \in [Fbs -> 0 .. UsersMod - 1]
  BY <1>1 DEF TypeOK, FbTypeOK, MsiTypeOK, OpTypeOK, atomic_inc
<1>3. pc[h] \in PcFree => lmsi[h] \in Msis /\ cur[h] \in Fbs
  BY <1>1 DEF IInv, OwnerInv, PutOwned, HandleOK, ReleaseOK
<1>4. ASSUME NEW n \in Nat PROVE Dec(n) \in Nat /\ Dec(n) <= n
  BY DEF Dec
<1>5. ASSUME NEW p \in {"getinc", "putfree"}, Walk(h, p) PROVE TypeOK'
  <2>1. cur[h] # NULL => Append(stk[h], cur[h]) \in Seq(Fbs)
    BY <1>1, PushFacts DEF TypeOK, FbTypeOK, MsiTypeOK, OpTypeOK
  <2>2. CASE cur[h] # NULL
    <3>1. next[cur[h]] \in Fbs \cup {NULL}
      BY <1>1, <2>2 DEF TypeOK, FbTypeOK, MsiTypeOK, OpTypeOK
    <3>a. FbTypeOK'
      BY <1>1, <1>5, <2>1, <2>2, <3>1 DEF Walk, TypeOK, FbTypeOK
    <3>b. MsiTypeOK'
      BY <1>1, <1>5, <2>1, <2>2, <3>1 DEF Walk, TypeOK, MsiTypeOK
    <3>c. OpTypeOK'
      <4>1. PICK n \in Fbs \cup {NULL}, s \in Seq(Fbs) :
              /\ cur' = [cur EXCEPT ![h] = n] /\ stk' = [stk EXCEPT ![h] = s]
              /\ UNCHANGED <<pc, ref, src, lmsi, linited, owed>>
        BY <1>5, <2>1, <2>2, <3>1 DEF Walk
      <4> QED BY <1>1, <4>1 DEF TypeOK, OpTypeOK
    <3> QED BY <3>a, <3>b, <3>c DEF TypeOK
  <2>3. CASE cur[h] = NULL
    <3>a. FbTypeOK'
      BY <1>1, <1>5, <2>3 DEF Walk, TypeOK, FbTypeOK
    <3>b. MsiTypeOK'
      BY <1>1, <1>5, <2>3 DEF Walk, TypeOK, MsiTypeOK
    <3>c. OpTypeOK'
      BY <1>1, <1>5, <2>3 DEF Walk, TypeOK, OpTypeOK
    <3> QED BY <3>a, <3>b, <3>c DEF TypeOK
  <2> QED BY <2>2, <2>3
<1>6. stk[h] # <<>> => Pop(stk[h]) \in Seq(Fbs) /\ Top(stk[h]) \in Fbs
  BY <1>1, PopFacts DEF TypeOK, FbTypeOK, MsiTypeOK, OpTypeOK
<1>7. CASE fb_get_walk(h)
  BY <1>5, <1>7 DEF fb_get_walk
<1>8. CASE fb_get_inc(h)
  <2>a. FbTypeOK'
    BY <1>1, <1>2, <1>6, <1>8 DEF fb_get_inc, TypeOK, FbTypeOK
  <2>b. MsiTypeOK'
    BY <1>1, <1>2, <1>6, <1>8 DEF fb_get_inc, TypeOK, MsiTypeOK
  <2>c. OpTypeOK'
    BY <1>1, <1>2, <1>6, <1>8 DEF fb_get_inc, TypeOK, OpTypeOK
  <2> QED BY <2>a, <2>b, <2>c DEF TypeOK
<1>9. CASE fb_get_done(h)
  <2>1. src[h] \in Handles /\ depth[ref[src[h]]] \in Nat /\ ref[src[h]] \in Fbs
    BY <1>1, <1>9 DEF fb_get_done, HandleOK, GetOK, IInv, FrameInv, IdleOK, Covers, TypeOK, FbTypeOK, MsiTypeOK, OpTypeOK
  <2>2. CASE Linking(h)
    <3>a. FbTypeOK'
      <4>1. depth[ref[src[h]]] + 1 \in Nat
        BY <2>1
      <4>2. /\ next' = [next EXCEPT ![ref[h]] = ref[src[h]]]
            /\ depth' = [depth EXCEPT ![ref[h]] = depth[ref[src[h]]] + 1]
            /\ UNCHANGED <<users, live, fmsi>>
        BY <1>9, <2>2 DEF fb_get_done
      <4>3. next' \in [Fbs -> Fbs \cup {NULL}]
        BY <1>1, <2>1, <4>2 DEF TypeOK, FbTypeOK
      <4>4. depth' \in [Fbs -> Nat]
        BY <1>1, <4>1, <4>2 DEF TypeOK, FbTypeOK
      <4> QED BY <1>1, <4>2, <4>3, <4>4 DEF TypeOK, FbTypeOK
    <3>b. MsiTypeOK'
      BY <1>1, <1>9, <2>1, <2>2 DEF fb_get_done, TypeOK, MsiTypeOK
    <3>c. OpTypeOK'
      BY <1>1, <1>9, <2>1, <2>2 DEF fb_get_done, TypeOK, OpTypeOK
    <3> QED BY <3>a, <3>b, <3>c DEF TypeOK
  <2>3. CASE ~Linking(h)
    <3>a. FbTypeOK'
      BY <1>1, <1>9, <2>3 DEF fb_get_done, TypeOK, FbTypeOK
    <3>b. MsiTypeOK'
      BY <1>1, <1>9, <2>3 DEF fb_get_done, TypeOK, MsiTypeOK
    <3>c. OpTypeOK'
      BY <1>1, <1>9, <2>3 DEF fb_get_done, TypeOK, OpTypeOK
    <3> QED BY <3>a, <3>b, <3>c DEF TypeOK
  <2> QED BY <2>2, <2>3
<1>10. CASE fb_put_walk(h)
  BY <1>5, <1>10 DEF fb_put_walk
<1>11. CASE fb_free(h)
  <2> DEFINE f == Top(stk[h])
  <2>1. f \in Fbs /\ Pop(stk[h]) \in Seq(Fbs) /\ fmsi[f] \in Msis \cup {NULL}
    BY <1>1, <1>6, <1>11 DEF fb_free, TypeOK, FbTypeOK, MsiTypeOK, OpTypeOK
  <2>2. Dec(users[f]) \in 0 .. UsersMod - 1
    BY <1>1, <2>1 DEF TypeOK, FbTypeOK, MsiTypeOK, OpTypeOK, Dec
  <2> HIDE DEF f
  <2>3. /\ users' = [users EXCEPT ![f] = Dec(users[f])]
        /\ owed' = [owed EXCEPT ![h] = @ \ {f}]
        /\ stk' = [stk EXCEPT ![h] = Pop(@)]
        /\ \/ /\ cur' = [cur EXCEPT ![h] = f]
              /\ lmsi' = [lmsi EXCEPT ![h] = fmsi[f]]
              /\ pc' = [pc EXCEPT ![h] = "freecb"]
           \/ UNCHANGED <<cur, lmsi, pc>>
        /\ UNCHANGED <<next, live, fmsi, depth, msiVars, ref, src, linited>>
    BY <1>1, <1>11 DEF fb_free, f, TypeOK, FbTypeOK, MsiTypeOK, OpTypeOK
  <2>a. FbTypeOK'
    BY <1>1, <2>1, <2>2, <2>3 DEF TypeOK, FbTypeOK
  <2>b. MsiTypeOK'
    BY <1>1, <2>1, <2>2, <2>3 DEF TypeOK, MsiTypeOK
  <2>c. OpTypeOK'
    <3>1. CASE pc' = [pc EXCEPT ![h] = "freecb"]
               /\ cur' = [cur EXCEPT ![h] = f] /\ lmsi' = [lmsi EXCEPT ![h] = fmsi[f]]
      BY <1>1, <2>1, <2>3, <3>1 DEF TypeOK, OpTypeOK
    <3>2. CASE UNCHANGED <<cur, lmsi, pc>>
      BY <1>1, <2>1, <2>3, <3>2 DEF TypeOK, OpTypeOK
    <3> QED BY <2>3, <3>1, <3>2
  <2> QED BY <2>a, <2>b, <2>c DEF TypeOK
<1>12. CASE free_fb(h)
  <2>1. CASE cur[h] \in PoolFbs /\ PoolMsi \notin torn
    <3>a. FbTypeOK'
      BY <1>1, <1>3, <1>12, <2>1 DEF free_fb, fbpool_put, TypeOK, FbTypeOK
    <3>b. MsiTypeOK'
      BY <1>1, <1>3, <1>12, <2>1 DEF free_fb, fbpool_put, TypeOK, MsiTypeOK
    <3>c. OpTypeOK'
      BY <1>1, <1>3, <1>12, <2>1 DEF free_fb, fbpool_put, TypeOK, OpTypeOK
    <3> QED BY <3>a, <3>b, <3>c DEF TypeOK
  <2>2. CASE ~(cur[h] \in PoolFbs /\ PoolMsi \notin torn)
    <3>a. FbTypeOK'
      BY <1>1, <1>12, <2>2 DEF free_fb, fbpool_put, TypeOK, FbTypeOK
    <3>b. MsiTypeOK'
      BY <1>1, <1>12, <2>2 DEF free_fb, fbpool_put, TypeOK, MsiTypeOK
    <3>c. OpTypeOK'
      BY <1>1, <1>12, <2>2 DEF free_fb, fbpool_put, TypeOK, OpTypeOK
    <3> QED BY <3>a, <3>b, <3>c DEF TypeOK
  <2> QED BY <2>1, <2>2
<1>13. CASE msi_put_read(h)
  <2>a. FbTypeOK'
    BY <1>1, <1>3, <1>13 DEF msi_put_read, TypeOK, FbTypeOK
  <2>b. MsiTypeOK'
    BY <1>1, <1>3, <1>13 DEF msi_put_read, TypeOK, MsiTypeOK
  <2>c. OpTypeOK'
    <3>1. inited[lmsi[h]] \in {0, 1}
      BY <1>1, <1>3, <1>13 DEF msi_put_read, TypeOK, MsiTypeOK
    <3> QED BY <1>1, <1>13, <3>1 DEF msi_put_read, TypeOK, OpTypeOK
  <2> QED BY <2>a, <2>b, <2>c DEF TypeOK
<1>14. CASE msi_put_dec(h)
  <2>a. FbTypeOK'
    BY <1>1, <1>3, <1>4, <1>14 DEF msi_put_dec, TypeOK, FbTypeOK
  <2>b. MsiTypeOK'
    BY <1>1, <1>3, <1>4, <1>14 DEF msi_put_dec, TypeOK, MsiTypeOK
  <2>c. OpTypeOK'
    BY <1>1, <1>3, <1>4, <1>14 DEF msi_put_dec, TypeOK, OpTypeOK
  <2> QED BY <2>a, <2>b, <2>c DEF TypeOK
<1>15. CASE msi_put_destroy(h)
  <2>a. FbTypeOK'
    BY <1>1, <1>15 DEF msi_put_destroy, TypeOK, FbTypeOK
  <2>b. MsiTypeOK'
    BY <1>1, <1>3, <1>15 DEF msi_put_destroy, TypeOK, MsiTypeOK
  <2>c. OpTypeOK'
    BY <1>1, <1>15 DEF msi_put_destroy, TypeOK, OpTypeOK
  <2> QED BY <2>a, <2>b, <2>c DEF TypeOK
<1>16. CASE fb_free_mem(h)
  <2>a. FbTypeOK'
    BY <1>1, <1>16 DEF fb_free_mem, TypeOK, FbTypeOK
  <2>b. MsiTypeOK'
    BY <1>1, <1>16 DEF fb_free_mem, TypeOK, MsiTypeOK
  <2>c. OpTypeOK'
    BY <1>1, <1>16 DEF fb_free_mem, TypeOK, OpTypeOK
  <2> QED BY <2>a, <2>b, <2>c DEF TypeOK
<1>17. CASE fb_put_done(h)
  <2>a. FbTypeOK'
    BY <1>1, <1>17 DEF fb_put_done, TypeOK, FbTypeOK
  <2>b. MsiTypeOK'
    BY <1>1, <1>17 DEF fb_put_done, TypeOK, MsiTypeOK
  <2>c. OpTypeOK'
    BY <1>1, <1>17 DEF fb_put_done, TypeOK, OpTypeOK
  <2> QED BY <2>a, <2>b, <2>c DEF TypeOK
<1> QED BY <1>7, <1>8, <1>9, <1>10, <1>11, <1>12, <1>13, <1>14, <1>15, <1>16, <1>17
        DEF Continue

LEMMA DestroyType ==
  ASSUME IInv, NEW m \in Msis, Destroy(m)
  PROVE  TypeOK'
<1> USE DEF TypeOK, FbTypeOK, MsiTypeOK, OpTypeOK, fbVars, opVars, Dec
<1>1. TypeOK
  BY DEF IInv, FrameInv
<1>2. CASE msi_destroy(m)
  BY <1>1, <1>2 DEF msi_destroy
<1>3. CASE msi_destroy_dec(m)
  BY <1>1, <1>3 DEF msi_destroy_dec
<1>4. CASE msi_destroy_post(m)
  BY <1>1, <1>4 DEF msi_destroy_post
<1> QED BY <1>2, <1>3, <1>4 DEF Destroy

(***************************************************************************)
(* All handles but the one that moved.                                     *)
(***************************************************************************)
LEMMA Others ==
  ASSUME IInv, TypeOK', NEW h \in Handles,
         \A k \in Handles \ {h} : SameHandle(k),
         pc[h] # "idle" \/ Free(h),
         \A k \in Handles \ {h} : SameChain(k) /\ owed[k] \subseteq live',
         \A k \in Handles \ {h} :
            Freeing(k) => cur[k] \in live' /\ users'[cur[k]] = users[cur[k]],
         \A k \in Handles \ {h} :
            pc[k] \in PcGet /\ Linking(k) => ref[k] \notin owed'[h]
  PROVE  \A k \in Handles \ {h} : HandleOK(k)'
<1>1. TypeOK /\ \A k \in Handles : HandleOK(k)
  BY DEF IInv, FrameInv
<1> TAKE k \in Handles \ {h}
<1>2. SameHandle(k) /\ SameChain(k) /\ owed[k] \subseteq live'
  OBVIOUS
<1>3. pc[k] \in PcGet => src[k] \in Handles \ {h}
  <2>1. pc[k] \in PcGet => src[k] \in Handles /\ pc[src[k]] = "idle"
    BY <1>1 DEF HandleOK, GetOK
  <2> QED BY <2>1 DEF Free
<1>4. pc[k] \in PcGet => SameHandle(src[k]) /\ SameChain(src[k])
  BY <1>3
<1>5. pc[k] \in PcGet /\ Linking(k) => \A g \in Handles \ {k} : ref[k] \notin owed'[g]
  <2> SUFFICES ASSUME pc[k] \in PcGet, Linking(k), NEW g \in Handles \ {k}
               PROVE  ref[k] \notin owed'[g]
    OBVIOUS
  <2>1. ref[k] \notin owed[g]
    BY <1>1 DEF HandleOK, GetOK
  <2>2. g # h => owed'[g] = owed[g]
    BY DEF SameHandle
  <2> QED BY <2>1, <2>2
<1>6. Freeing(k) => cur[k] \in live' /\ users'[cur[k]] = users[cur[k]]
  OBVIOUS
<1> QED BY <1>1, <1>2, <1>4, <1>5, <1>6, OtherHandle

(***************************************************************************)
(* A new frame: f was not in use, so nobody accounts for it or frees it.   *)
(***************************************************************************)
LEMMA NewFrameStep ==
  ASSUME IInv, TypeOK', NEW h \in Handles, NEW f \in Fbs \ live, NEW m \in Msis,
         pc[h] = "none",
         NewFrame(h, f, m),
         users' = [users EXCEPT ![f] = 1],
         \/ /\ pc' = [pc EXCEPT ![h] = "idle"]
            /\ UNCHANGED <<cur, src>>
         \/ \E g \in Handles :
            /\ Free(g)
            /\ pc' = [pc EXCEPT ![h] = "getwalk"]
            /\ cur' = [cur EXCEPT ![h] = ref[g]]
            /\ src' = [src EXCEPT ![h] = g]
  PROVE  FrameInv'
<1> USE FbAssumption
<1>1. TypeOK /\ UsersExact /\ FreeOnce /\ NoLeak /\ \A k \in Handles : HandleOK(k)
  BY DEF IInv, FrameInv
<1>2. \A k \in Handles : f \notin owed[k] /\ owed[k] \subseteq live
  BY <1>1 DEF HandleOK
<1>3. owed[h] = {} /\ stk[h] = <<>> /\ cur[h] = NULL /\ src[h] = NULL
  BY <1>1 DEF HandleOK, NoneOK, PcGet
<1>4. /\ \A k \in Handles : Freeing(k) => cur[k] \in live /\ cur[k] # f /\ k # h
      /\ \A k \in Handles \ {h} : SameHandle(k)
      /\ \A k \in Handles : Freeing(k)' => k # h /\ Freeing(k) /\ cur'[k] = cur[k]
  <2>1. \A k \in Handles : Freeing(k) => cur[k] \in live /\ cur[k] # f /\ k # h
    BY <1>1 DEF HandleOK, ReleaseOK, Freeing, PcFree
  <2>2. \A k \in Handles \ {h} : SameHandle(k)
    BY <1>1 DEF SameHandle, NewFrame, TypeOK, OpTypeOK
  <2>3. pc'[h] \in {"idle", "getwalk"}
    BY <1>1 DEF TypeOK, OpTypeOK
  <2> QED BY <2>1, <2>2, <2>3 DEF Freeing, SameHandle, PcFree
<1>5. \A k \in Handles : SameChain(k) /\ owed[k] \subseteq live'
  BY <1>1, <1>2 DEF SameChain, NewFrame, TypeOK, FbTypeOK
<1>6. \A k \in Handles \ {h} : HandleOK(k)'
  <2>1. \A k \in Handles \ {h} :
            Freeing(k) => cur[k] \in live' /\ users'[cur[k]] = users[cur[k]]
    BY <1>1, <1>4 DEF NewFrame, TypeOK, FbTypeOK
  <2>2. \A k \in Handles \ {h} :
            pc[k] \in PcGet /\ Linking(k) => ref[k] \notin owed'[h]
    <3>1. owed'[h] = {f}
      BY <1>1 DEF NewFrame, TypeOK, OpTypeOK
    <3>2. \A k \in Handles : pc[k] \in PcGet /\ Linking(k) => ref[k] \in owed[k]
      BY <1>1 DEF HandleOK, GetOK
    <3> QED BY <1>2, <3>1, <3>2
  <2> QED BY <1>4, <1>5, <2>1, <2>2, Others
<1>7. HandleOK(h)'
  <2>1. /\ ref'[h] = f /\ owed'[h] = {f} /\ stk'[h] = <<>>
        /\ f \in live' /\ depth'[f] = 1 /\ next'[f] = NULL
    BY <1>1, <1>3 DEF NewFrame, TypeOK, FbTypeOK, OpTypeOK
  <2>2. CASE pc' = [pc EXCEPT ![h] = "idle"] /\ UNCHANGED <<cur, src>>
    <3>1. pc'[h] = "idle" /\ cur'[h] = NULL /\ src'[h] = NULL
      BY <1>1, <1>3, <2>2 DEF TypeOK, OpTypeOK
    <3> QED BY <2>1, <3>1 DEF HandleOK, NoneOK, IdleOK, WalkOK, ReleaseOK, GetOK, Covers,
                              PcGet, PcFree
  <2>3. CASE \E g \in Handles : /\ Free(g) /\ pc' = [pc EXCEPT ![h] = "getwalk"]
                                /\ cur' = [cur EXCEPT ![h] = ref[g]]
                                /\ src' = [src EXCEPT ![h] = g]
    <3>1. PICK g \in Handles : /\ Free(g) /\ pc' = [pc EXCEPT ![h] = "getwalk"]
                               /\ cur' = [cur EXCEPT ![h] = ref[g]]
                               /\ src' = [src EXCEPT ![h] = g]
      BY <2>3
    <3>2. /\ g # h /\ pc[g] = "idle" /\ Covers(g) /\ SameHandle(g) /\ SameChain(g)
          /\ pc'[h] = "getwalk" /\ cur'[h] = ref[g] /\ src'[h] = g
      BY <1>1, <1>4, <1>5, <3>1 DEF Free, HandleOK, IdleOK, TypeOK, OpTypeOK
    <3>3. /\ ref'[g] = ref[g] /\ ref[g] \in owed[g] /\ owed'[g] = owed[g] /\ pc'[g] = "idle"
          /\ ref[g] # f /\ ref[g] # NULL /\ depth'[ref[g]] = depth[ref[g]]
          /\ depth[ref[g]] \in Nat \ {0}
      BY <1>1, <1>2, <3>2 DEF Covers, SameHandle, SameChain, TypeOK, FbTypeOK, OpTypeOK, HandleOK
    <3>4. OnChain(h, g)' /\ AtCur(h, g)' /\ Counted(h, g)' = {}
      BY <2>1, <3>2, <3>3 DEF OnChain, AtCur, Counted
    <3>5. \A k \in Handles \ {h} : f \notin owed'[k]
      BY <1>2, <1>4 DEF SameHandle
    <3>6. Linking(h)' /\ GetOK(h)'
      BY <2>1, <3>2, <3>3, <3>4, <3>5 DEF Linking, GetOK
    <3> QED BY <2>1, <3>2, <3>6 DEF HandleOK, NoneOK, IdleOK, WalkOK, ReleaseOK, PcGet, PcFree
  <2> QED BY <2>2, <2>3
<1>8. UsersExact'
  <2> SUFFICES ASSUME NEW x \in Fbs PROVE users'[x] = Cardinality(Owers(x)')
    BY DEF UsersExact, Owers
  <2>1. x # f => Owers(x)' = Owers(x) /\ users'[x] = users[x]
    BY <1>1, <1>3 DEF Owers, NewFrame, TypeOK, FbTypeOK, OpTypeOK
  <2>2. x = f => Owers(x)' = {h} /\ users'[x] = 1
    BY <1>1, <1>2 DEF Owers, NewFrame, TypeOK, FbTypeOK, OpTypeOK
  <2> QED BY <1>1, <2>1, <2>2, CountStep DEF UsersExact, Owers
<1>9. FreeOnce'
  BY <1>1, <1>4 DEF FreeOnce
<1>10. NoLeak'
  <2>0. f \in owed'[h]
    BY <1>1 DEF NewFrame, TypeOK, OpTypeOK
  <2> SUFFICES ASSUME NEW x \in live', x # f
               PROVE  \/ \E k \in Handles : x \in owed'[k]
                      \/ \E k \in Handles : Freeing(k)' /\ cur'[k] = x
    BY <2>0 DEF NoLeak
  <2>1. x \in live
    BY DEF NewFrame
  <2>2. ASSUME NEW k \in Handles, x \in owed[k] PROVE x \in owed'[k]
    BY <1>3, <1>4, <2>2 DEF SameHandle
  <2>3. ASSUME NEW k \in Handles, Freeing(k), cur[k] = x
        PROVE  Freeing(k)' /\ cur'[k] = x
    BY <1>4, <2>3 DEF SameHandle, Freeing
  <2> QED BY <1>1, <2>1, <2>2, <2>3 DEF NoLeak
<1> QED BY <1>6, <1>7, <1>8, <1>9, <1>10 DEF FrameInv

(***************************************************************************)
(* Steps that leave the counters and the accounts alone, and that neither  *)
(* begin nor end the freeing of a frame.                                   *)
(***************************************************************************)
LEMMA QuietCounts ==
  ASSUME IInv, NEW h \in Handles,
         UNCHANGED <<users, live, owed>>,
         \A k \in Handles \ {h} : SameHandle(k),
         pc[h] \notin PcFree, pc'[h] \notin PcFree
  PROVE  UsersExact' /\ FreeOnce' /\ NoLeak'
<1>1. UsersExact /\ FreeOnce /\ NoLeak
  BY DEF IInv, FrameInv
<1>2. UsersExact'
  <2>1. \A f \in Fbs : {k \in Handles : f \in owed'[k]} = {k \in Handles : f \in owed[k]}
    OBVIOUS
  <2> QED BY <1>1, <2>1 DEF UsersExact
<1>3. \A k \in Handles : pc'[k] \in PcFree \/ pc[k] \in PcFree =>
          k # h /\ pc'[k] = pc[k] /\ cur'[k] = cur[k]
  BY DEF SameHandle
<1>4. \A k \in Handles : (Freeing(k)' <=> Freeing(k)) /\ (Freeing(k) => cur'[k] = cur[k])
  BY <1>3 DEF Freeing, PcFree
<1>5. FreeOnce'
  BY <1>1, <1>4 DEF FreeOnce
<1>6. NoLeak'
  BY <1>1, <1>4 DEF NoLeak
<1> QED BY <1>2, <1>5, <1>6

(* fb_get and fb_ref begin: the chain to take is idle in the hands of g. *)
LEMMA StartGetStep ==
  ASSUME IInv, TypeOK', NEW h \in Handles, NEW g \in Handles, fb_get(h, g) \/ fb_ref(h, g)
  PROVE  FrameInv'
<1> USE FbAssumption DEF PcGet, PcFree
<1>1. TypeOK /\ UsersExact /\ \A k \in Handles : HandleOK(k)
  BY DEF IInv, FrameInv
<1>2. /\ pc'[h] = "getwalk" /\ cur'[h] = ref[g] /\ src'[h] = g
      /\ UNCHANGED <<users, next, live, depth, stk, owed>>
      /\ pc[h] = "none" \/ Free(h)
      /\ g # h /\ Free(g)
      /\ \A k \in Handles \ {h} : SameHandle(k)
  BY <1>1 DEF fb_get, fb_ref, StartGet, SameHandle, fbVars, TypeOK, OpTypeOK, Free
<1>3. \A k \in Handles : SameChain(k) /\ owed[k] \subseteq live'
  BY <1>1, <1>2 DEF SameChain, HandleOK
<1>4. pc[h] \in {"none", "idle"} /\ pc[g] = "idle" /\ Covers(g) /\ stk[h] = <<>>
  BY <1>1, <1>2 DEF Free, HandleOK, IdleOK, NoneOK
<1>5. \A k \in Handles : Freeing(k) => cur[k] \in live
  BY <1>1 DEF HandleOK, ReleaseOK, Freeing
<1>6. \A k \in Handles \ {h} : pc[k] \in PcGet /\ Linking(k) => ref[k] \notin owed'[h]
  BY <1>1, <1>2 DEF HandleOK, GetOK
<1>7. \A k \in Handles \ {h} : HandleOK(k)'
  BY <1>2, <1>3, <1>4, <1>5, <1>6, Others
<1>8. HandleOK(h)'
  <2>1. /\ ref'[g] = ref[g] /\ pc'[g] = "idle" /\ ref[g] \in owed[g] /\ ref[g] # NULL
        /\ depth[ref[g]] \in Nat \ {0} /\ g \in Handles \ {h}
    BY <1>1, <1>2, <1>4 DEF SameHandle, Covers, TypeOK, FbTypeOK, OpTypeOK
  <2>2. OnChain(h, g)' /\ AtCur(h, g)' /\ Counted(h, g)' = {}
    BY <1>2, <1>4, <2>1 DEF OnChain, AtCur, Counted
  <2>3. GetOK(h)'
    <3>1. CASE fb_get(h, g)
      <4>1. pc[h] = "none" /\ ref'[h] = ref[g] /\ owed[h] = {}
        BY <1>1, <3>1 DEF fb_get, TypeOK, OpTypeOK, HandleOK, NoneOK
      <4>2. ~Linking(h)'
        BY <1>2, <2>1, <4>1 DEF Linking
      <4>3. ref'[h] \in Fbs
        BY <1>1, <2>1, <4>1 DEF TypeOK, OpTypeOK
      <4> QED BY <1>2, <2>1, <2>2, <4>1, <4>2, <4>3 DEF GetOK
    <3>2. CASE fb_ref(h, g)
      <4>1. /\ Free(h) /\ ref'[h] = ref[h] /\ next[ref[h]] = NULL /\ users[ref[h]] = 1
        BY <3>2 DEF fb_ref
      <4>2. Covers(h) /\ ref[h] \in owed[h] /\ ref[h] \in Fbs
        BY <1>1, <4>1 DEF HandleOK, IdleOK, Free, Covers, TypeOK, OpTypeOK
      <4>3. depth[ref[h]] = 1
        BY <1>1, <4>1, <4>2 DEF Covers, TypeOK, OpTypeOK
      <4>4. owed[h] = {ref[h]}
        BY <1>1, <4>2, <4>3 DEF Covers, TypeOK, OpTypeOK, FbTypeOK
      <4>5. \A k \in Handles \ {h} : ref[h] \notin owed[k]
        BY <1>1, <4>1, <4>2, UsersMeaning
      <4>6. Linking(h)'
        BY <1>2, <2>1, <4>1, <4>5 DEF Linking
      <4> QED BY <1>2, <2>1, <2>2, <4>1, <4>2, <4>4, <4>5, <4>6 DEF GetOK
    <3> QED BY <3>1, <3>2
  <2> QED BY <1>1, <1>2, <2>3 DEF HandleOK, NoneOK, IdleOK, WalkOK, ReleaseOK
<1>9. UsersExact' /\ FreeOnce' /\ NoLeak'
  BY <1>2, <1>4, QuietCounts
<1> QED BY <1>7, <1>8, <1>9 DEF FrameInv

(* One call deeper into the chain that reference g covers. *)
LEMMA WalkChain ==
  ASSUME TypeOK, TypeOK', NEW h \in Handles, NEW g \in Handles, NEW p \in {"getinc", "putfree"},
         Covers(g), OnChain(h, g), AtCur(h, g), Walk(h, p)
  PROVE  /\ cur[h] # NULL => OnChain(h, g)' /\ AtCur(h, g)' /\ pc' = pc
         /\ cur[h] = NULL => OnChain(h, g)' /\ Len(stk[h]) = depth[ref[g]]
                             /\ UNCHANGED <<stk, cur>> /\ pc' = [pc EXCEPT ![h] = p]
<1> USE FbAssumption
<1>1. UNCHANGED <<ref, owed, depth, next>>
  BY DEF Walk, fbVars
<1>2. ASSUME cur[h] # NULL PROVE OnChain(h, g)' /\ AtCur(h, g)' /\ pc' = pc
  <2>1. /\ cur[h] \in owed[g] /\ cur[h] \in Fbs /\ depth[cur[h]] + Len(stk[h]) = depth[ref[g]]
        /\ stk[h] \in Seq(Fbs) /\ Len(stk[h]) \in Nat
    BY <1>2 DEF AtCur, TypeOK, OpTypeOK
  <2>2. stk'[h] = Append(stk[h], cur[h]) /\ cur'[h] = next[cur[h]] /\ pc' = pc
    BY <1>2 DEF Walk, TypeOK, OpTypeOK
  <2>3. /\ 1 <= depth[cur[h]] /\ depth[cur[h]] \in Nat /\ depth[ref[g]] \in Nat
        /\ depth[cur[h]] = 1 => next[cur[h]] = NULL
        /\ depth[cur[h]] # 1 => /\ next[cur[h]] \in owed[g]
                                /\ depth[next[cur[h]]] = depth[cur[h]] - 1
    BY <2>1 DEF Covers, TypeOK, FbTypeOK, OpTypeOK
  <2>4. Len(stk'[h]) = Len(stk[h]) + 1
    BY <2>1, <2>2, PushFacts
  <2>5. AtCur(h, g)'
    <3>1. next[cur[h]] # NULL <=> depth[cur[h]] # 1
      BY <2>3 DEF TypeOK, OpTypeOK
    <3>2. CASE depth[cur[h]] = 1
      <4>1. cur'[h] = NULL /\ Len(stk'[h]) = depth[ref[g]]
        BY <2>1, <2>2, <2>3, <2>4, <3>2
      <4> QED BY <1>1, <4>1 DEF AtCur
    <3>3. CASE depth[cur[h]] # 1
      <4>1. /\ cur'[h] # NULL /\ cur'[h] \in owed[g]
            /\ depth[cur'[h]] + Len(stk'[h]) = depth[ref[g]]
        <5>1. cur'[h] # NULL /\ cur'[h] \in owed[g] /\ depth[cur'[h]] = depth[cur[h]] - 1
          BY <2>2, <2>3, <3>1, <3>3
        <5> QED BY <2>1, <2>3, <2>4, <5>1
      <4> QED BY <1>1, <4>1 DEF AtCur
    <3> QED BY <3>2, <3>3
  <2>6. OnChain(h, g)'
    <3>1. Len(stk'[h]) <= depth[ref[g]]
      BY <2>1, <2>3, <2>4
    <3>2. ASSUME NEW i \in 1 .. Len(stk'[h])
          PROVE  stk'[h][i] \in owed[g] /\ depth[stk'[h][i]] = depth[ref[g]] + 1 - i
      <4>1. CASE i \in 1 .. Len(stk[h])
        <5>1. stk'[h][i] = stk[h][i]
          BY <2>1, <2>2, <4>1, PushFacts
        <5> QED BY <4>1, <5>1 DEF OnChain
      <4>2. CASE i = Len(stk[h]) + 1
        <5>1. stk'[h][i] = cur[h]
          BY <2>1, <2>2, <4>2, PushFacts
        <5> QED BY <2>1, <2>3, <4>2, <5>1
      <4> QED BY <2>1, <2>4, <4>1, <4>2
    <3> QED BY <1>1, <3>1, <3>2 DEF OnChain
  <2> QED BY <2>2, <2>5, <2>6
<1>3. ASSUME cur[h] = NULL
      PROVE  OnChain(h, g)' /\ Len(stk[h]) = depth[ref[g]]
             /\ UNCHANGED <<stk, cur>> /\ pc' = [pc EXCEPT ![h] = p]
  BY <1>1, <1>3 DEF Walk, OnChain, AtCur
<1> QED BY <1>2, <1>3

(* What a walk leaves alone. *)
LEMMA WalkOthers ==
  ASSUME IInv, TypeOK', NEW h \in Handles, NEW p \in {"getinc", "putfree"},
         pc[h] \in {"getwalk", "putwalk"}, Walk(h, p)
  PROVE  /\ \A k \in Handles \ {h} : HandleOK(k)' /\ SameHandle(k)
         /\ UsersExact' /\ FreeOnce' /\ NoLeak'
         /\ UNCHANGED <<users, next, live, depth, ref, src, owed>>
         /\ owed[h] \subseteq live
<1> USE FbAssumption DEF PcGet, PcFree
<1>1. TypeOK /\ UsersExact /\ \A k \in Handles : HandleOK(k)
  BY DEF IInv, FrameInv
<1>2. /\ UNCHANGED <<users, next, live, depth, ref, src, owed>>
      /\ \A k \in Handles \ {h} : SameHandle(k)
      /\ pc'[h] = pc[h] \/ pc'[h] = p
  BY <1>1 DEF Walk, fbVars, SameHandle, TypeOK, OpTypeOK
<1>3. \A k \in Handles : SameChain(k) /\ owed[k] \subseteq live'
  BY <1>1, <1>2 DEF SameChain, HandleOK
<1>4. \A k \in Handles : Freeing(k) => cur[k] \in live
  BY <1>1 DEF HandleOK, ReleaseOK, Freeing
<1>5. \A k \in Handles \ {h} : pc[k] \in PcGet /\ Linking(k) => ref[k] \notin owed'[h]
  BY <1>1, <1>2 DEF HandleOK, GetOK
<1>6. \A k \in Handles \ {h} : HandleOK(k)'
  BY <1>2, <1>3, <1>4, <1>5, Others
<1>7. UsersExact' /\ FreeOnce' /\ NoLeak'
  BY <1>2, QuietCounts
<1> QED BY <1>1, <1>2, <1>6, <1>7 DEF HandleOK

LEMMA GetWalkStep ==
  ASSUME IInv, TypeOK', NEW h \in Handles, fb_get_walk(h)
  PROVE  FrameInv'
<1> USE FbAssumption DEF PcGet, PcFree
<1>1. TypeOK /\ \A k \in Handles : HandleOK(k)
  BY DEF IInv, FrameInv
<1>2. pc[h] = "getwalk" /\ Walk(h, "getinc")
  BY DEF fb_get_walk
<1>3. /\ \A k \in Handles \ {h} : HandleOK(k)' /\ SameHandle(k)
      /\ UsersExact' /\ FreeOnce' /\ NoLeak'
      /\ UNCHANGED <<users, next, live, depth, ref, src, owed>>
      /\ owed[h] \subseteq live
  BY <1>2, WalkOthers
<1>4. PICK g \in Handles \ {h} : g = src[h] /\ pc[g] = "idle"
  BY <1>1, <1>2 DEF HandleOK, GetOK
<1>5. Covers(g) /\ OnChain(h, g) /\ AtCur(h, g) /\ GetOK(h)
  BY <1>1, <1>2, <1>4 DEF HandleOK, GetOK, IdleOK
<1>6. /\ cur[h] # NULL => OnChain(h, g)' /\ AtCur(h, g)' /\ pc' = pc
      /\ cur[h] = NULL => OnChain(h, g)' /\ Len(stk[h]) = depth[ref[g]]
                          /\ UNCHANGED <<stk, cur>> /\ pc' = [pc EXCEPT ![h] = "getinc"]
  BY <1>1, <1>2, <1>5, WalkChain
<1>7. src'[h] = g /\ pc'[g] = "idle" /\ (Linking(h)' <=> Linking(h))
  BY <1>3, <1>4 DEF SameHandle, Linking
<1>8. Counted(h, g) = {} /\ Counted(h, g)' = {}
  <2>1. Counted(h, g) = {}
    BY <1>2 DEF Counted
  <2>2. CASE cur[h] # NULL
    BY <1>2, <1>6, <2>2 DEF Counted
  <2>3. CASE cur[h] = NULL
    <3>1. \A f \in owed[g] : depth[f] \in Nat /\ depth[f] >= 1 /\ depth[ref[g]] \in Nat
      BY <1>1, <1>5 DEF Covers, TypeOK, FbTypeOK, OpTypeOK
    <3> QED BY <1>3, <1>6, <2>3, <3>1 DEF Counted
  <2> QED BY <2>1, <2>2, <2>3
<1>9. GetOK(h)'
  <2>1. /\ pc'[h] \in {"getwalk", "getinc"}
        /\ pc'[h] = "getwalk" => AtCur(h, g)'
        /\ pc'[h] = "getinc" => cur'[h] = NULL
    BY <1>1, <1>2, <1>6 DEF TypeOK, OpTypeOK
  <2>2. OnChain(h, g)'
    BY <1>6
  <2>3. \A k \in Handles \ {h} : Linking(h) => ref[h] \notin owed[k]
    BY <1>2, <1>5 DEF GetOK
  <2> QED BY <1>2, <1>3, <1>4, <1>5, <1>7, <1>8, <2>1, <2>2, <2>3 DEF GetOK
<1>10. HandleOK(h)'
  <2>1. pc'[h] \in {"getwalk", "getinc"}
    BY <1>1, <1>2, <1>6 DEF TypeOK, OpTypeOK
  <2> QED BY <1>3, <1>9, <2>1 DEF HandleOK, NoneOK, IdleOK, WalkOK, ReleaseOK
<1> QED BY <1>3, <1>10 DEF FrameInv

(* At the end of fb_put's way down the stack holds the whole account. *)
LEMMA PutWalkStep ==
  ASSUME IInv, TypeOK', NEW h \in Handles, fb_put_walk(h)
  PROVE  FrameInv'
<1> USE FbAssumption DEF PcGet, PcFree
<1>1. TypeOK /\ \A k \in Handles : HandleOK(k)
  BY DEF IInv, FrameInv
<1>2. pc[h] = "putwalk" /\ Walk(h, "putfree")
  BY DEF fb_put_walk
<1>3. /\ \A k \in Handles \ {h} : HandleOK(k)'
      /\ UsersExact' /\ FreeOnce' /\ NoLeak'
      /\ UNCHANGED <<users, next, live, depth, ref, src, owed>>
      /\ owed[h] \subseteq live
  BY <1>2, WalkOthers
<1>4. Covers(h) /\ OnChain(h, h) /\ AtCur(h, h) /\ src[h] = NULL
  BY <1>1, <1>2 DEF HandleOK, WalkOK
<1>5. /\ cur[h] # NULL => OnChain(h, h)' /\ AtCur(h, h)' /\ pc' = pc
      /\ cur[h] = NULL => OnChain(h, h)' /\ Len(stk[h]) = depth[ref[h]]
                          /\ UNCHANGED <<stk, cur>> /\ pc' = [pc EXCEPT ![h] = "putfree"]
  BY <1>1, <1>2, <1>4, WalkChain
<1>6. CASE cur[h] # NULL
  <2>1. Covers(h)'
    BY <1>3, <1>4 DEF Covers
  <2> QED BY <1>2, <1>3, <1>4, <1>5, <1>6, <2>1
          DEF FrameInv, HandleOK, NoneOK, IdleOK, WalkOK, ReleaseOK, GetOK
<1>7. CASE cur[h] = NULL
  <2> DEFINE D == depth[ref[h]]
  <2>1. /\ D \in Nat /\ Len(stk[h]) = D /\ stk[h] \in Seq(Fbs)
        /\ \A i \in 1 .. D : stk[h][i] \in owed[h] /\ depth[stk[h][i]] = D + 1 - i
    <3>1. D \in Nat /\ stk[h] \in Seq(Fbs)
      BY <1>1, <1>4 DEF Covers, TypeOK, FbTypeOK, OpTypeOK
    <3>2. Len(stk[h]) = D
      BY <1>5, <1>7
    <3> QED BY <1>4, <3>1, <3>2 DEF OnChain
  <2>2. \A f \in owed[h] : depth[f] \in 1 .. D
    BY <1>1, <1>4, <2>1 DEF Covers, TypeOK, FbTypeOK, OpTypeOK
  <2>3. \A f, x \in owed[h] : depth[f] = depth[x] => f = x
    BY <1>4 DEF Covers
  <2> HIDE DEF D
  <2>4. owed[h] = StkSet(h)
    <3>1. ASSUME NEW f \in owed[h] PROVE f \in StkSet(h)
      <4>1. D + 1 - depth[f] \in 1 .. D
        BY <2>1, <2>2
      <4>2. /\ stk[h][D + 1 - depth[f]] \in owed[h]
            /\ depth[stk[h][D + 1 - depth[f]]] = D + 1 - (D + 1 - depth[f])
        BY <2>1, <4>1
      <4>3. D + 1 - (D + 1 - depth[f]) = depth[f]
        BY <2>1, <2>2
      <4>4. stk[h][D + 1 - depth[f]] = f
        BY <2>3, <4>2, <4>3
      <4> QED BY <2>1, <4>1, <4>4 DEF StkSet
    <3>2. StkSet(h) \subseteq owed[h]
      BY <2>1 DEF StkSet
    <3> QED BY <3>1, <3>2
  <2>5. \A i, j \in 1 .. Len(stk[h]) : stk[h][i] = stk[h][j] => i = j
    <3> SUFFICES ASSUME NEW i \in 1 .. D, NEW j \in 1 .. D, stk[h][i] = stk[h][j]
                 PROVE  i = j
      BY <2>1
    <3>1. D + 1 - i = D + 1 - j
      BY <2>1
    <3> QED BY <2>1, <3>1
  <2>6. StkSet(h)' = StkSet(h) /\ pc'[h] = "putfree" /\ cur'[h] = NULL /\ stk'[h] = stk[h]
    BY <1>1, <1>5, <1>7 DEF StkSet, TypeOK, OpTypeOK
  <2>7. HandleOK(h)'
    BY <1>3, <1>4, <2>4, <2>5, <2>6
       DEF HandleOK, NoneOK, IdleOK, WalkOK, ReleaseOK, GetOK, Freeing
  <2> QED BY <1>3, <2>7 DEF FrameInv
<1> QED BY <1>6, <1>7

(* One atomic_inc on the way back of fb_get. *)
LEMMA GetIncStep ==
  ASSUME IInv, TypeOK', NEW h \in Handles, fb_get_inc(h)
  PROVE  FrameInv'
<1> USE FbAssumption DEF PcGet, PcFree
<1>1. TypeOK /\ UsersExact /\ FreeOnce /\ NoLeak /\ \A k \in Handles : HandleOK(k)
  BY DEF IInv, FrameInv
<1>2. pc[h] = "getinc" /\ stk[h] # <<>> /\ stk[h] \in Seq(Fbs)
  BY <1>1 DEF fb_get_inc, TypeOK, OpTypeOK
<1>3. PICK g \in Handles \ {h} : g = src[h] /\ pc[g] = "idle"
  BY <1>1, <1>2 DEF HandleOK, GetOK
<1>4. PICK f \in Fbs : f = Top(stk[h]) /\ f = stk[h][Len(stk[h])]
  BY <1>2, PopFacts
<1>5. /\ Covers(g) /\ OnChain(h, g) /\ GetOK(h) /\ src[h] = g
      /\ Len(stk[h]) \in Nat \ {0} /\ depth[ref[g]] \in Nat /\ owed[g] \subseteq live
      /\ \A x \in owed[g] : x \in Fbs /\ depth[x] \in Nat
  <2>1. Covers(g) /\ OnChain(h, g) /\ GetOK(h) /\ src[h] = g /\ owed[g] \subseteq live
    BY <1>1, <1>2, <1>3 DEF HandleOK, IdleOK, GetOK
  <2>2. Len(stk[h]) \in Nat \ {0}
    BY <1>2, PopFacts
  <2>3. \A x \in owed[g] : x \in Fbs /\ depth[x] \in Nat
    BY <1>1 DEF TypeOK, FbTypeOK, OpTypeOK
  <2>4. depth[ref[g]] \in Nat
    BY <2>1, <2>3 DEF Covers
  <2> QED BY <2>1, <2>2, <2>3, <2>4
<1>6. f \in owed[g] /\ depth[f] = depth[ref[g]] + 1 - Len(stk[h])
  <2>1. PICK n \in 1 .. Len(stk[h]) : n = Len(stk[h])
    BY <1>5
  <2>2. stk[h][n] \in owed[g] /\ depth[stk[h][n]] = depth[ref[g]] + 1 - n
    BY <1>5 DEF OnChain
  <2> QED BY <1>4, <2>1, <2>2
<1>7. /\ f \notin Counted(h, g)
      /\ Linking(h) => f # ref[h] /\ owed[h] = Counted(h, g) \cup {ref[h]}
      /\ ~Linking(h) => owed[h] = Counted(h, g)
      /\ f \notin owed[h]
  <2>1. f \notin Counted(h, g)
    BY <1>5, <1>6 DEF Counted
  <2>2. Linking(h) => f # ref[h] /\ owed[h] = Counted(h, g) \cup {ref[h]}
    BY <1>2, <1>3, <1>5, <1>6 DEF GetOK
  <2>3. ~Linking(h) => owed[h] = Counted(h, g)
    BY <1>2, <1>5 DEF GetOK
  <2> QED BY <2>1, <2>2, <2>3
<1>8. /\ users' = atomic_inc(f) /\ owed'[h] = owed[h] \cup {f}
      /\ stk'[h] = Pop(stk[h]) /\ pc' = pc /\ cur' = cur /\ src' = src /\ ref' = ref
      /\ UNCHANGED <<next, live, depth>>
      /\ \A k \in Handles \ {h} : SameHandle(k)
  BY <1>1, <1>4 DEF fb_get_inc, SameHandle, TypeOK, OpTypeOK
<1>9. Cardinality(Owers(f)) + 1 = Cardinality(Owers(f) \cup {h})
      /\ users[f] = Cardinality(Owers(f)) /\ users[f] + 1 < UsersMod /\ users[f] > 0
      /\ users[f] \in Nat
  <2>1. Owers(f) \in SUBSET Handles /\ h \notin Owers(f) /\ users[f] = Cardinality(Owers(f))
    BY <1>1, <1>7 DEF Owers, UsersExact
  <2>2. Owers(f) \cup {h} \in SUBSET Handles
    BY <2>1
  <2>3. Cardinality(Owers(f) \cup {h}) = Cardinality(Owers(f)) + 1
    BY <2>1, CountStep
  <2>4. Cardinality(Owers(f) \cup {h}) < UsersMod
    BY <2>2, CountsFinite
  <2>5. users[f] > 0 /\ users[f] \in Nat
    BY <1>1, <1>3, <1>6, UsersMeaning
  <2> QED BY <2>1, <2>3, <2>4, <2>5
<1>10. users' = [users EXCEPT ![f] = users[f] + 1]
  <2>1. (users[f] + 1) % UsersMod = users[f] + 1
    BY <1>9
  <2> QED BY <1>8, <2>1 DEF atomic_inc
<1>11. UsersExact'
  <2> SUFFICES ASSUME NEW x \in Fbs PROVE users'[x] = Cardinality(Owers(x)')
    BY DEF UsersExact, Owers
  <2>1. x # f => Owers(x)' = Owers(x) /\ users'[x] = users[x]
    BY <1>1, <1>8, <1>10 DEF Owers, SameHandle, TypeOK, FbTypeOK
  <2>2. Owers(f)' = Owers(f) \cup {h} /\ users'[f] = users[f] + 1
    BY <1>1, <1>8, <1>10 DEF Owers, SameHandle, TypeOK, FbTypeOK
  <2> QED BY <1>1, <1>9, <2>1, <2>2 DEF UsersExact, Owers
<1>12. FreeOnce' /\ NoLeak'
  <2>1. \A k \in Handles : Freeing(k)' <=> Freeing(k)
    BY <1>8 DEF Freeing
  <2>2. FreeOnce'
    BY <1>1, <1>8, <2>1 DEF FreeOnce
  <2>3. \A k \in Handles : owed[k] \subseteq owed'[k]
    BY <1>8 DEF SameHandle
  <2> QED BY <1>1, <1>8, <2>1, <2>2, <2>3 DEF NoLeak
<1>13. \A k \in Handles \ {h} : HandleOK(k)'
  <2>1. \A k \in Handles : SameChain(k) /\ owed[k] \subseteq live'
    BY <1>1, <1>8 DEF SameChain, HandleOK
  <2>2. \A k \in Handles : Freeing(k) => cur[k] \in live' /\ users'[cur[k]] = users[cur[k]]
    <3>1. \A k \in Handles : Freeing(k) => cur[k] \in live /\ users[cur[k]] = 0
      BY <1>1 DEF HandleOK, ReleaseOK, Freeing
    <3> QED BY <1>1, <1>8, <1>9, <1>10, <3>1 DEF TypeOK, FbTypeOK
  <2>3. \A k \in Handles \ {h} : pc[k] \in PcGet /\ Linking(k) => ref[k] \notin owed'[h]
    <3> SUFFICES ASSUME NEW k \in Handles \ {h}, pc[k] \in PcGet, Linking(k)
                 PROVE  ref[k] \notin owed'[h]
      OBVIOUS
    <3>1. k # g /\ \A x \in Handles \ {k} : ref[k] \notin owed[x]
      BY <1>1, <1>3 DEF HandleOK, GetOK
    <3> QED BY <1>3, <1>6, <1>8, <3>1
  <2> QED BY <1>2, <1>8, <2>1, <2>2, <2>3, Others
<1>14. HandleOK(h)'
  <2>1. /\ Len(stk'[h]) = Len(stk[h]) - 1
        /\ \A i \in 1 .. Len(stk[h]) - 1 : stk'[h][i] = stk[h][i]
    BY <1>2, <1>8, PopFacts
  <2>2. OnChain(h, g)'
    <3>1. owed'[g] = owed[g] /\ ref'[g] = ref[g]
      BY <1>8 DEF SameHandle
    <3>2. Len(stk'[h]) <= depth[ref[g]]
      BY <1>5, <2>1 DEF OnChain
    <3>3. \A i \in 1 .. Len(stk'[h]) :
             stk'[h][i] \in owed[g] /\ depth[stk'[h][i]] = depth[ref[g]] + 1 - i
      <4> TAKE i \in 1 .. Len(stk'[h])
      <4>1. i \in 1 .. Len(stk[h]) /\ stk'[h][i] = stk[h][i]
        BY <1>5, <2>1
      <4> QED BY <1>5, <4>1 DEF OnChain
    <3> QED BY <1>8, <3>1, <3>2, <3>3 DEF OnChain
  <2>3. Counted(h, g)' = Counted(h, g) \cup {f}
    <3>1. owed'[g] = owed[g] /\ ref'[g] = ref[g] /\ depth' = depth /\ pc'[h] = "getinc"
      BY <1>2, <1>8 DEF SameHandle
    <3>2. Counted(h, g)' = {x \in owed[g] : depth[x] + (Len(stk[h]) - 1) <= depth[ref[g]]}
      BY <2>1, <3>1 DEF Counted
    <3>3. Counted(h, g) = {x \in owed[g] : depth[x] + Len(stk[h]) <= depth[ref[g]]}
      BY <1>2 DEF Counted
    <3>4. \A x \in owed[g] : depth[x] + (Len(stk[h]) - 1) <= depth[ref[g]] <=>
             \/ depth[x] + Len(stk[h]) <= depth[ref[g]]
             \/ depth[x] = depth[f]
      BY <1>5, <1>6
    <3>5. \A x \in owed[g] : depth[x] = depth[f] => x = f
      BY <1>5, <1>6 DEF Covers
    <3> QED BY <1>6, <3>2, <3>3, <3>4, <3>5
  <2>4. (Linking(h)' <=> Linking(h)) /\ pc'[g] = "idle" /\ src'[h] = g
    BY <1>3, <1>8 DEF Linking
  <2>5. /\ Linking(h) => \A k \in Handles \ {h} : ref[h] \notin owed'[k]
        /\ Linking(h) => next'[ref[h]] = NULL
        /\ ref'[h] \in Fbs /\ cur'[h] = NULL
    BY <1>2, <1>5, <1>8 DEF GetOK, SameHandle
  <2>6. GetOK(h)'
    BY <1>2, <1>3, <1>7, <1>8, <2>2, <2>3, <2>4, <2>5 DEF GetOK
  <2>7. owed'[h] \subseteq live'
    BY <1>1, <1>5, <1>6, <1>8 DEF HandleOK
  <2> QED BY <1>2, <1>8, <2>6, <2>7 DEF HandleOK, NoneOK, IdleOK, WalkOK, ReleaseOK
<1> QED BY <1>11, <1>12, <1>13, <1>14 DEF FrameInv

(* fb_get returns to fb_clone or fb_ref, which link the chain. *)
LEMMA GetDoneStep ==
  ASSUME IInv, TypeOK', NEW h \in Handles, fb_get_done(h)
  PROVE  FrameInv'
<1> USE FbAssumption DEF PcGet, PcFree
<1>1. TypeOK /\ UsersExact /\ FreeOnce /\ NoLeak /\ \A k \in Handles : HandleOK(k)
  BY DEF IInv, FrameInv
<1>2. pc[h] = "getinc" /\ stk[h] = <<>> /\ Len(stk[h]) = 0
  BY DEF fb_get_done
<1>3. PICK g \in Handles \ {h} : g = src[h] /\ pc[g] = "idle"
  BY <1>1, <1>2 DEF HandleOK, GetOK
<1>4. /\ Covers(g) /\ GetOK(h) /\ ref[g] \in owed[g] /\ ref[g] \in Fbs
      /\ depth[ref[g]] \in Nat /\ depth[ref[g]] >= 1
      /\ \A x \in owed[g] : x \in Fbs /\ depth[x] \in Nat /\ depth[x] <= depth[ref[g]]
  BY <1>1, <1>2, <1>3 DEF HandleOK, IdleOK, Covers, TypeOK, FbTypeOK, OpTypeOK
<1>5. Counted(h, g) = owed[g]
  BY <1>2, <1>4 DEF Counted
<1>6. /\ UNCHANGED <<users, live, ref, cur, stk, owed>>
      /\ pc'[h] = "idle" /\ src'[h] = NULL
      /\ \A k \in Handles \ {h} : SameHandle(k)
  BY <1>1 DEF fb_get_done, SameHandle, TypeOK, OpTypeOK
<1>7. /\ ~Linking(h) => UNCHANGED <<next, depth>> /\ ref[h] = ref[g] /\ owed[h] = owed[g]
      /\ Linking(h) => /\ next' = [next EXCEPT ![ref[h]] = ref[g]]
                       /\ depth' = [depth EXCEPT ![ref[h]] = depth[ref[g]] + 1]
                       /\ owed[h] = owed[g] \cup {ref[h]} /\ ref[h] \in Fbs
                       /\ \A k \in Handles \ {h} : ref[h] \notin owed[k]
  <2>1. ~Linking(h) => UNCHANGED <<next, depth>> /\ ref[h] = ref[g] /\ owed[h] = owed[g]
    BY <1>2, <1>3, <1>4, <1>5 DEF fb_get_done, Linking, GetOK
  <2>2. Linking(h) => /\ next' = [next EXCEPT ![ref[h]] = ref[g]]
                      /\ depth' = [depth EXCEPT ![ref[h]] = depth[ref[g]] + 1]
    BY <1>3 DEF fb_get_done
  <2>3. Linking(h) => /\ owed[h] = owed[g] \cup {ref[h]} /\ ref[h] \in Fbs
                      /\ \A k \in Handles \ {h} : ref[h] \notin owed[k]
    BY <1>2, <1>3, <1>4, <1>5 DEF GetOK
  <2> QED BY <2>1, <2>2, <2>3
<1>8. \A k \in Handles \ {h} : SameChain(k)
  <2>1. CASE ~Linking(h)
    BY <1>7, <2>1 DEF SameChain
  <2>2. CASE Linking(h)
    <3>1. \A k \in Handles : owed[k] \in SUBSET Fbs
      BY <1>1 DEF TypeOK, OpTypeOK
    <3> QED BY <1>1, <1>7, <2>2, <3>1 DEF SameChain, TypeOK, FbTypeOK
  <2> QED BY <2>1, <2>2
<1>9. UsersExact' /\ FreeOnce' /\ NoLeak'
  BY <1>2, <1>6, QuietCounts
<1>10. \A k \in Handles \ {h} : HandleOK(k)'
  <2>1. \A k \in Handles \ {h} : SameChain(k) /\ owed[k] \subseteq live'
    BY <1>1, <1>6, <1>8 DEF HandleOK
  <2>2. \A k \in Handles : Freeing(k) => cur[k] \in live' /\ users'[cur[k]] = users[cur[k]]
    BY <1>1, <1>6 DEF HandleOK, ReleaseOK, Freeing
  <2>3. \A k \in Handles \ {h} : pc[k] \in PcGet /\ Linking(k) => ref[k] \notin owed'[h]
    BY <1>1, <1>6 DEF HandleOK, GetOK
  <2> QED BY <1>2, <1>6, <2>1, <2>2, <2>3, Others
<1>11. Covers(h)'
  <2>1. CASE ~Linking(h)
    BY <1>4, <1>6, <1>7, <2>1 DEF Covers
  <2>2. CASE Linking(h)
    <3>1. /\ depth'[ref[h]] = depth[ref[g]] + 1 /\ next'[ref[h]] = ref[g]
          /\ \A x \in owed[g] : x # ref[h] /\ depth'[x] = depth[x] /\ next'[x] = next[x]
      BY <1>1, <1>3, <1>4, <1>7, <2>2 DEF TypeOK, FbTypeOK
    <3>2. ref'[h] = ref[h] /\ owed'[h] = owed[g] \cup {ref[h]}
      BY <1>6, <1>7, <2>2
    <3>3. \A f \in owed[g] \cup {ref[h]} :
            /\ 1 <= depth'[f] /\ depth'[f] <= depth[ref[g]] + 1
            /\ depth'[f] = 1 => next'[f] = NULL
            /\ depth'[f] # 1 => /\ next'[f] \in owed[g]
                                /\ depth'[next'[f]] = depth'[f] - 1
      <4> TAKE f \in owed[g] \cup {ref[h]}
      <4>1. CASE f = ref[h]
        BY <1>4, <3>1, <4>1
      <4>2. CASE f \in owed[g]
        <5>1. /\ 1 <= depth[f] /\ depth[f] <= depth[ref[g]] /\ depth[f] \in Nat
              /\ depth[f] = 1 => next[f] = NULL
              /\ depth[f] # 1 => next[f] \in owed[g] /\ depth[next[f]] = depth[f] - 1
          BY <1>4, <4>2 DEF Covers
        <5> QED BY <1>4, <3>1, <4>2, <5>1
      <4> QED BY <4>1, <4>2
    <3>4. \A f, x \in owed[g] \cup {ref[h]} : depth'[f] = depth'[x] => f = x
      <4> TAKE f, x \in owed[g] \cup {ref[h]}
      <4>1. CASE f \in owed[g] /\ x \in owed[g]
        BY <1>4, <3>1, <4>1 DEF Covers
      <4>2. CASE f = ref[h] \/ x = ref[h]
        BY <1>4, <3>1, <4>2
      <4> QED BY <4>1, <4>2
    <3> QED BY <3>1, <3>2, <3>3, <3>4 DEF Covers
  <2> QED BY <2>1, <2>2
<1>12. HandleOK(h)'
  <2>1. cur'[h] = NULL /\ stk'[h] = <<>> /\ owed'[h] \subseteq live'
    BY <1>1, <1>2, <1>4, <1>6 DEF GetOK, HandleOK
  <2> QED BY <1>6, <1>11, <2>1 DEF HandleOK, NoneOK, IdleOK, WalkOK, ReleaseOK, GetOK
<1> QED BY <1>9, <1>10, <1>12 DEF FrameInv

(* fb_put begins, and ends with an empty stack. *)
LEMMA PutEndsStep ==
  ASSUME IInv, TypeOK', NEW h \in Handles, fb_put(h) \/ fb_put_done(h)
  PROVE  FrameInv'
<1> USE FbAssumption DEF PcGet, PcFree
<1>1. TypeOK /\ \A k \in Handles : HandleOK(k)
  BY DEF IInv, FrameInv
<1>2. /\ UNCHANGED <<users, next, live, depth, stk, src, owed>>
      /\ \A k \in Handles \ {h} : SameHandle(k)
      /\ pc[h] = "putfree" \/ Free(h)
      /\ pc[h] \in {"putfree", "idle"} /\ pc'[h] \in {"putwalk", "none"}
  BY <1>1 DEF fb_put, fb_put_done, fbVars, SameHandle, TypeOK, OpTypeOK, Free
<1>3. UsersExact' /\ FreeOnce' /\ NoLeak'
  BY <1>2, QuietCounts
<1>4. \A k \in Handles \ {h} : HandleOK(k)'
  <2>1. \A k \in Handles \ {h} : SameChain(k) /\ owed[k] \subseteq live'
    BY <1>1, <1>2 DEF HandleOK, SameChain
  <2>2. \A k \in Handles : Freeing(k) => cur[k] \in live' /\ users'[cur[k]] = users[cur[k]]
    BY <1>1, <1>2 DEF HandleOK, ReleaseOK, Freeing
  <2>3. \A k \in Handles \ {h} : pc[k] \in PcGet /\ Linking(k) => ref[k] \notin owed'[h]
    BY <1>1, <1>2 DEF HandleOK, GetOK
  <2> QED BY <1>2, <2>1, <2>2, <2>3, Others
<1>5. HandleOK(h)'
  <2>1. CASE fb_put(h)
    <3>1. /\ pc[h] = "idle" /\ pc'[h] = "putwalk" /\ cur'[h] = ref[h] /\ ref'[h] = ref[h]
          /\ Covers(h) /\ stk[h] = <<>> /\ src[h] = NULL
      BY <1>1, <2>1 DEF fb_put, Free, HandleOK, IdleOK, TypeOK, OpTypeOK
    <3>2. ref[h] \in owed[h] /\ ref[h] # NULL /\ depth[ref[h]] \in Nat
      BY <1>1, <3>1 DEF Covers, TypeOK, FbTypeOK, OpTypeOK
    <3>3. Covers(h)' /\ OnChain(h, h)' /\ AtCur(h, h)'
      BY <1>2, <3>1, <3>2 DEF Covers, OnChain, AtCur
    <3> QED BY <1>1, <1>2, <3>1, <3>3 DEF HandleOK, NoneOK, IdleOK, WalkOK, ReleaseOK, GetOK
  <2>2. CASE fb_put_done(h)
    <3>1. /\ pc[h] = "putfree" /\ pc'[h] = "none" /\ cur' = cur /\ cur[h] = NULL
          /\ stk[h] = <<>> /\ src[h] = NULL /\ owed[h] = StkSet(h)
      BY <1>1, <2>2 DEF fb_put_done, HandleOK, ReleaseOK, TypeOK, OpTypeOK
    <3>2. owed[h] = {}
      BY <3>1 DEF StkSet
    <3> QED BY <1>1, <1>2, <3>1, <3>2 DEF HandleOK, NoneOK, IdleOK, WalkOK, ReleaseOK, GetOK
  <2> QED BY <2>1, <2>2
<1> QED BY <1>3, <1>4, <1>5 DEF FrameInv

(* One atomic_dec_and_test on the way back of fb_put. *)
LEMMA FreeStep ==
  ASSUME IInv, TypeOK', NEW h \in Handles, fb_free(h)
  PROVE  FrameInv'
<1> USE FbAssumption DEF PcGet, PcFree
<1>1. TypeOK /\ UsersExact /\ FreeOnce /\ NoLeak /\ \A k \in Handles : HandleOK(k)
  BY DEF IInv, FrameInv
<1>2. pc[h] = "putfree" /\ stk[h] # <<>> /\ stk[h] \in Seq(Fbs) /\ cur[h] = NULL
  BY <1>1 DEF fb_free, TypeOK, OpTypeOK, HandleOK, ReleaseOK
<1>3. PICK f \in Fbs : f = Top(stk[h]) /\ f = stk[h][Len(stk[h])]
  BY <1>2, PopFacts
<1>4. /\ owed[h] = StkSet(h) /\ Len(stk[h]) \in Nat \ {0} /\ src[h] = NULL
      /\ \A i, j \in 1 .. Len(stk[h]) : stk[h][i] = stk[h][j] => i = j
  BY <1>1, <1>2, PopFacts DEF HandleOK, ReleaseOK
<1>5. f \in owed[h] /\ f \in live
  BY <1>1, <1>3, <1>4 DEF StkSet, HandleOK
<1>6. users[f] > 0 /\ users[f] \in Nat
  BY <1>1, <1>5, UsersMeaning
<1>7. /\ users' = [users EXCEPT ![f] = users[f] - 1] /\ owed'[h] = owed[h] \ {f}
      /\ stk'[h] = Pop(stk[h]) /\ ref' = ref /\ src' = src
      /\ UNCHANGED <<next, live, depth>>
      /\ \A k \in Handles \ {h} : SameHandle(k)
      /\ users[f] = 1 => pc'[h] = "freecb" /\ cur'[h] = f
      /\ users[f] # 1 => pc'[h] = "putfree" /\ cur'[h] = NULL
  <2>1. Dec(users[f]) = users[f] - 1 /\ (Dec(users[f]) = 0 <=> users[f] = 1)
    BY <1>6 DEF Dec
  <2>2. /\ users' = [users EXCEPT ![f] = Dec(users[f])]
        /\ owed' = [owed EXCEPT ![h] = @ \ {f}]
        /\ stk' = [stk EXCEPT ![h] = Pop(@)]
        /\ Dec(users[f]) = 0 => /\ cur' = [cur EXCEPT ![h] = f]
                                /\ pc' = [pc EXCEPT ![h] = "freecb"]
        /\ Dec(users[f]) # 0 => cur' = cur /\ pc' = pc
        /\ UNCHANGED <<next, live, depth, ref, src>>
    BY <1>1, <1>3 DEF fb_free, TypeOK, FbTypeOK
  <2>3. \A k \in Handles \ {h} : SameHandle(k)
    BY <1>1, <2>2 DEF SameHandle, TypeOK, OpTypeOK
  <2> QED BY <1>1, <1>2, <2>1, <2>2, <2>3 DEF TypeOK, OpTypeOK
<1>8. users[f] = 1 => \A k \in Handles \ {h} : f \notin owed[k]
  BY <1>1, <1>5, UsersMeaning
<1>9. \A k \in Handles : Freeing(k) => cur[k] \in live /\ cur[k] # f /\ users[cur[k]] = 0
  BY <1>1, <1>6 DEF HandleOK, ReleaseOK, Freeing
<1>10. UsersExact'
  <2> SUFFICES ASSUME NEW x \in Fbs PROVE users'[x] = Cardinality(Owers(x)')
    BY DEF UsersExact, Owers
  <2>1. x # f => Owers(x)' = Owers(x) /\ users'[x] = users[x]
    BY <1>1, <1>7 DEF Owers, SameHandle, TypeOK, FbTypeOK
  <2>2. Owers(f)' = Owers(f) \ {h} /\ users'[f] = users[f] - 1
    BY <1>1, <1>7 DEF Owers, SameHandle, TypeOK, FbTypeOK
  <2>3. Owers(f) \in SUBSET Handles /\ h \in Owers(f) /\ users[f] = Cardinality(Owers(f))
    BY <1>1, <1>5 DEF Owers, UsersExact
  <2>4. Cardinality(Owers(f) \ {h}) = Cardinality(Owers(f)) - 1
    BY <2>3, CountStep
  <2> QED BY <1>1, <2>1, <2>2, <2>3, <2>4 DEF UsersExact, Owers
<1>11. FreeOnce'
  <2>1. \A k \in Handles \ {h} : (Freeing(k)' <=> Freeing(k)) /\ cur'[k] = cur[k]
    BY <1>7 DEF Freeing, SameHandle
  <2>2. Freeing(h)' => cur'[h] = f
    BY <1>7 DEF Freeing
  <2>3. ASSUME NEW a \in Handles, NEW b \in Handles, a # b, Freeing(a)', Freeing(b)'
        PROVE  cur'[a] # cur'[b]
    <3>1. CASE a = h \/ b = h
      BY <1>9, <2>1, <2>2, <2>3, <3>1
    <3>2. CASE a # h /\ b # h
      BY <1>1, <2>1, <2>3, <3>2 DEF FreeOnce
    <3> QED BY <3>1, <3>2
  <2> QED BY <2>3 DEF FreeOnce
<1>12. NoLeak'
  <2> SUFFICES ASSUME NEW x \in live
               PROVE  \/ \E k \in Handles : x \in owed'[k]
                      \/ \E k \in Handles : Freeing(k)' /\ cur'[k] = x
    BY <1>7 DEF NoLeak
  <2>1. CASE x = f
    <3>1. CASE users[f] = 1
      BY <1>7, <2>1, <3>1 DEF Freeing
    <3>2. CASE users[f] # 1
      <4>1. PICK k \in Handles \ {h} : f \in owed[k]
        BY <1>1, <1>5, <3>2, UsersMeaning
      <4> QED BY <1>7, <2>1, <4>1 DEF SameHandle
    <3> QED BY <3>1, <3>2
  <2>2. CASE x # f
    <3>1. ASSUME NEW k \in Handles, x \in owed[k] PROVE x \in owed'[k]
      BY <1>7, <2>2, <3>1 DEF SameHandle
    <3>2. ASSUME NEW k \in Handles, Freeing(k), cur[k] = x
          PROVE  Freeing(k)' /\ cur'[k] = x
      BY <1>2, <1>7, <3>2 DEF SameHandle, Freeing
    <3> QED BY <1>1, <3>1, <3>2 DEF NoLeak
  <2> QED BY <2>1, <2>2
<1>13. \A k \in Handles \ {h} : HandleOK(k)'
  <2>1. \A k \in Handles \ {h} : SameChain(k) /\ owed[k] \subseteq live'
    BY <1>1, <1>7 DEF SameChain, HandleOK
  <2>2. \A k \in Handles : Freeing(k) => cur[k] \in live' /\ users'[cur[k]] = users[cur[k]]
    BY <1>1, <1>7, <1>9 DEF TypeOK, FbTypeOK
  <2>3. \A k \in Handles \ {h} : pc[k] \in PcGet /\ Linking(k) => ref[k] \notin owed'[h]
    BY <1>1, <1>7 DEF HandleOK, GetOK
  <2> QED BY <1>2, <1>7, <2>1, <2>2, <2>3, Others
<1>14. HandleOK(h)'
  <2>1. /\ Len(stk'[h]) = Len(stk[h]) - 1
        /\ \A i \in 1 .. Len(stk[h]) - 1 : stk'[h][i] = stk[h][i]
    BY <1>2, <1>7, PopFacts
  <2>2. \A i \in 1 .. Len(stk'[h]) :
           i \in 1 .. Len(stk[h]) /\ i # Len(stk[h]) /\ stk'[h][i] = stk[h][i]
    BY <1>4, <2>1
  <2>3. \A i \in 1 .. Len(stk[h]) : i # Len(stk[h]) => i \in 1 .. Len(stk'[h])
    BY <1>4, <2>1
  <2>4. owed'[h] = StkSet(h)'
    <3>1. ASSUME NEW x \in owed'[h] PROVE x \in StkSet(h)'
      <4>1. PICK i \in 1 .. Len(stk[h]) : x = stk[h][i]
        BY <1>4, <1>7, <3>1 DEF StkSet
      <4>2. i # Len(stk[h])
        BY <1>3, <1>7, <3>1, <4>1
      <4>3. i \in 1 .. Len(stk'[h]) /\ stk'[h][i] = x
        BY <2>2, <2>3, <4>1, <4>2
      <4> QED BY <4>3 DEF StkSet
    <3>2. ASSUME NEW x \in StkSet(h)' PROVE x \in owed'[h]
      <4>1. PICK i \in 1 .. Len(stk'[h]) : x = stk'[h][i]
        BY <3>2 DEF StkSet
      <4>2. i \in 1 .. Len(stk[h]) /\ i # Len(stk[h]) /\ x = stk[h][i]
        BY <2>2, <4>1
      <4>3. Len(stk[h]) \in 1 .. Len(stk[h])
        BY <1>4
      <4>4. x # f
        BY <1>3, <1>4, <4>2, <4>3
      <4>5. x \in owed[h]
        BY <1>4, <4>2 DEF StkSet
      <4> QED BY <1>7, <4>4, <4>5
    <3> QED BY <3>1, <3>2
  <2>5. \A i, j \in 1 .. Len(stk'[h]) : stk'[h][i] = stk'[h][j] => i = j
    BY <1>4, <2>2
  <2>6. Freeing(h)' => cur'[h] \in live' /\ users'[cur'[h]] = 0
    <3>1. Freeing(h)' => users[f] = 1 /\ cur'[h] = f
      BY <1>7 DEF Freeing
    <3> QED BY <1>1, <1>5, <1>7, <3>1 DEF TypeOK, FbTypeOK
  <2>7. ReleaseOK(h)'
    BY <1>7, <2>4, <2>5, <2>6 DEF ReleaseOK
  <2>8. owed'[h] \subseteq live' /\ src'[h] = NULL /\ pc'[h] \in {"putfree", "freecb"}
    BY <1>1, <1>4, <1>7 DEF HandleOK
  <2> QED BY <2>7, <2>8 DEF HandleOK, NoneOK, IdleOK, WalkOK, GetOK
<1> QED BY <1>10, <1>11, <1>12, <1>13, <1>14 DEF FrameInv

(* While a frame of the pool is on its way home the pool exists. *)
LEMMA PoolAlive ==
  ASSUME IInv, NEW h \in Handles, pc[h] = "freecb", cur[h] \in PoolFbs
  PROVE  PoolMsi \notin torn
<1>1. lmsi[h] = PoolMsi /\ PoolMsi \in Msis
  BY FbAssumption DEF IInv, OwnerInv, PutOwned, PcFree
<1>2. h \in Putting(PoolMsi) /\ Putting(PoolMsi) \in SUBSET Handles
  BY <1>1 DEF Putting
<1>3. Cardinality(Putting(PoolMsi)) > 0 /\ Cardinality(Putting(PoolMsi)) \in Nat
  BY <1>2, CountStep, CountsFinite
<1>4. FramesOf(PoolMsi) \in SUBSET Fbs
  BY DEF FramesOf, IInv, FrameInv, TypeOK, FbTypeOK
<1>5. Cardinality(FramesOf(PoolMsi)) \in Nat
  BY <1>4, CountsFinite
<1>6. musers[PoolMsi] # 0
  BY <1>1, <1>3, <1>5 DEF IInv, OwnerInv, OwnerExact, CreatorRef
<1> QED BY <1>1, <1>6 DEF IInv, OwnerInv, MsiOK

(***************************************************************************)
(* The rest of fb_free: the frame at hand has no users and is nobody's.    *)
(***************************************************************************)
LEMMA ReturnStep ==
  ASSUME IInv, TypeOK', NEW h \in Handles,
         \/ free_fb(h) \/ msi_put_read(h) \/ msi_put_dec(h)
         \/ msi_put_destroy(h) \/ fb_free_mem(h)
  PROVE  FrameInv'
<1> USE FbAssumption DEF PcGet, PcFree
<1>1. TypeOK /\ UsersExact /\ FreeOnce /\ NoLeak /\ \A k \in Handles : HandleOK(k)
  BY DEF IInv, FrameInv
<1>2. /\ UNCHANGED <<depth, ref, stk, src, owed>>
      /\ \A k \in Handles \ {h} : SameHandle(k)
      /\ pc[h] \in PcFree /\ pc'[h] \in (PcFree \ {"freecb"}) \cup {"putfree"}
      /\ pc'[h] = "putfree" <=> pc[h] = "fbfree"
      /\ pc'[h] # "putfree" => cur'[h] = cur[h]
      /\ pc'[h] = "putfree" => cur'[h] = NULL
  <2>1. CASE free_fb(h) \/ msi_put_read(h) \/ msi_put_destroy(h)
    BY <1>1, <2>1 DEF free_fb, msi_put_read, msi_put_destroy, fbVars, SameHandle, TypeOK, OpTypeOK
  <2>2. CASE msi_put_dec(h)
    BY <1>1, <2>2 DEF msi_put_dec, fbVars, SameHandle, TypeOK, OpTypeOK
  <2>3. CASE fb_free_mem(h)
    BY <1>1, <2>3 DEF fb_free_mem, SameHandle, TypeOK, OpTypeOK
  <2> QED BY <2>1, <2>2, <2>3
<1> DEFINE f == cur[h]
<1>3. /\ f \in Fbs /\ owed[h] = StkSet(h) /\ src[h] = NULL
      /\ \A i, j \in 1 .. Len(stk[h]) : stk[h][i] = stk[h][j] => i = j
      /\ Freeing(h) => f \in live /\ users[f] = 0
  BY <1>1, <1>2 DEF HandleOK, ReleaseOK
<1> HIDE DEF f
<1>4. \/ UNCHANGED <<users, next, live>> /\ (Freeing(h)' <=> Freeing(h))
      \/ /\ Freeing(h) /\ ~Freeing(h)' /\ live' = live \ {f}
         /\ \A x \in Fbs : users'[x] = users[x] /\ (x # f => next'[x] = next[x])
  <2>1. CASE free_fb(h)
    <3>1. CASE f \in PoolFbs
      <4>1. PoolMsi \notin torn
        BY <2>1, <3>1, PoolAlive DEF free_fb, f
      <4>2. /\ live' = live \ {f} /\ users' = [users EXCEPT ![f] = 0]
            /\ next' = [next EXCEPT ![f] = NULL] /\ Freeing(h)
        BY <2>1, <3>1, <4>1 DEF free_fb, fbpool_put, f, Freeing
      <4>3. ~Freeing(h)'
        BY <1>1, <2>1, <3>1 DEF free_fb, Freeing, f, TypeOK, OpTypeOK
      <4> QED BY <1>1, <1>3, <3>1, <4>2, <4>3 DEF TypeOK, FbTypeOK
    <3>2. CASE f \notin PoolFbs
      <4>1. Freeing(h)' /\ Freeing(h)
        BY <1>1, <1>3, <2>1, <3>2 DEF free_fb, Freeing, f, Fbs, TypeOK, OpTypeOK
      <4> QED BY <2>1, <3>2, <4>1 DEF free_fb, f
    <3> QED BY <3>1, <3>2
  <2>2. CASE msi_put_read(h) \/ msi_put_dec(h) \/ msi_put_destroy(h)
    <3>1. pc[h] \in PcFree \ {"freecb"} /\ pc'[h] \in PcFree \ {"freecb"} /\ cur'[h] = cur[h]
      BY <1>2, <2>2 DEF msi_put_read, msi_put_dec, msi_put_destroy
    <3>2. Freeing(h)' <=> Freeing(h)
      BY <3>1 DEF Freeing
    <3> QED BY <2>2, <3>2 DEF msi_put_read, msi_put_dec, msi_put_destroy, fbVars
  <2>3. CASE fb_free_mem(h)
    <3>1. pc[h] = "fbfree" /\ pc'[h] = "putfree" /\ UNCHANGED <<users, next>>
      BY <1>2, <2>3 DEF fb_free_mem
    <3>2. CASE f \in PoolFbs
      <4>1. ~Freeing(h) /\ ~Freeing(h)'
        BY <3>1, <3>2 DEF Freeing, f
      <4>2. live' = live
        BY <2>3, <3>2 DEF fb_free_mem, f
      <4> QED BY <3>1, <4>1, <4>2
    <3>3. CASE f \notin PoolFbs
      <4>1. Freeing(h) /\ ~Freeing(h)'
        BY <1>3, <3>1, <3>3 DEF Freeing, f, Fbs
      <4>2. live' = live \ {f}
        BY <2>3, <3>3 DEF fb_free_mem, f
      <4> QED BY <3>1, <4>1, <4>2
    <3> QED BY <3>2, <3>3
  <2> QED BY <2>1, <2>2, <2>3
<1>5. Freeing(h) => \A k \in Handles : f \notin owed[k] /\ (k # h /\ Freeing(k) => cur[k] # f)
  <2>1. Freeing(h) => \A k \in Handles : f \notin owed[k]
    BY <1>1, <1>3, UsersMeaning
  <2> QED BY <1>1, <2>1 DEF FreeOnce, f
<1>6. \A x \in Fbs : users'[x] = users[x]
  BY <1>4
<1>7. UsersExact'
  <2>1. \A x \in Fbs : {k \in Handles : x \in owed'[k]} = {k \in Handles : x \in owed[k]}
    BY <1>2
  <2> QED BY <1>1, <1>6, <2>1 DEF UsersExact
<1>8. \A k \in Handles \ {h} : (Freeing(k)' <=> Freeing(k)) /\ cur'[k] = cur[k]
  BY <1>2 DEF Freeing, SameHandle
<1>9. Freeing(h)' => Freeing(h) /\ cur'[h] = cur[h]
  <2>1. Freeing(h)' => Freeing(h)
    BY <1>4
  <2> QED BY <1>2, <2>1 DEF Freeing
<1>10. FreeOnce'
  <2>1. \A k \in Handles : Freeing(k)' => Freeing(k) /\ cur'[k] = cur[k]
    BY <1>8, <1>9
  <2> QED BY <1>1, <2>1 DEF FreeOnce
<1>11. NoLeak'
  <2> SUFFICES ASSUME NEW x \in live'
               PROVE  \/ \E k \in Handles : x \in owed'[k]
                      \/ \E k \in Handles : Freeing(k)' /\ cur'[k] = x
    BY DEF NoLeak
  <2>1. x \in live /\ (Freeing(h) /\ cur[h] = x => Freeing(h)')
    BY <1>4 DEF f
  <2>2. ASSUME NEW k \in Handles, Freeing(k), cur[k] = x PROVE Freeing(k)' /\ cur'[k] = x
    BY <1>8, <1>9, <2>1, <2>2
  <2> QED BY <1>1, <1>2, <2>1, <2>2 DEF NoLeak
<1>12. \A k \in Handles : owed[k] \subseteq live' /\ SameChain(k)
  <2>1. \A k \in Handles : owed[k] \subseteq live /\ owed[k] \in SUBSET Fbs
    BY <1>1 DEF HandleOK, TypeOK, OpTypeOK
  <2> QED BY <1>2, <1>4, <1>5, <2>1 DEF SameChain
<1>13. \A k \in Handles \ {h} : HandleOK(k)'
  <2>1. \A k \in Handles \ {h} :
            Freeing(k) => cur[k] \in live' /\ users'[cur[k]] = users[cur[k]]
    <3>1. \A k \in Handles : Freeing(k) => cur[k] \in live /\ cur[k] \in Fbs
      BY <1>1 DEF HandleOK, ReleaseOK, Freeing
    <3> QED BY <1>4, <1>5, <1>6, <3>1
  <2>2. \A k \in Handles \ {h} : pc[k] \in PcGet /\ Linking(k) => ref[k] \notin owed'[h]
    BY <1>1, <1>2 DEF HandleOK, GetOK
  <2> QED BY <1>2, <1>12, <2>1, <2>2, Others
<1>14. HandleOK(h)'
  <2>1. StkSet(h)' = StkSet(h)
    BY <1>2 DEF StkSet
  <2>2. Freeing(h)' => cur'[h] \in live' /\ users'[cur'[h]] = 0
    <3>1. Freeing(h)' => f \in live' /\ users'[f] = 0
      BY <1>3, <1>4, <1>6, <1>9
    <3> QED BY <1>9, <3>1 DEF f
  <2>3. ReleaseOK(h)'
    BY <1>2, <1>3, <2>1, <2>2 DEF ReleaseOK, f
  <2> QED BY <1>2, <1>3, <1>12, <2>3 DEF HandleOK, NoneOK, IdleOK, WalkOK, GetOK
<1> QED BY <1>7, <1>10, <1>11, <1>13, <1>14 DEF FrameInv

(* msi_destroy touches no frame and no reference. *)
LEMMA DestroyFrames ==
  ASSUME IInv, TypeOK', NEW m \in Msis, Destroy(m)
  PROVE  FrameInv'
<1>1. TypeOK /\ UsersExact /\ FreeOnce /\ NoLeak /\ \A k \in Handles : HandleOK(k)
  BY DEF IInv, FrameInv
<1>2. UNCHANGED <<users, next, live, fmsi, depth, ref, pc, cur, stk, src, owed>>
  BY DEF Destroy, msi_destroy, msi_destroy_dec, msi_destroy_post, fbVars, opVars
<1>3. \A k \in Handles : HandleOK(k)'
  <2> SUFFICES ASSUME NEW k \in Handles PROVE HandleOK(k)'
    OBVIOUS
  <2>1. HandleOK(k)
    BY <1>1
  <2>2. \A g \in Handles : SameHandle(g) /\ SameChain(g)
    BY <1>2 DEF SameHandle, SameChain
  <2>3. pc[k] \in PcGet => src[k] \in Handles /\ (Linking(k) => \A g \in Handles \ {k} : ref[k] \notin owed[g])
    BY <2>1 DEF HandleOK, GetOK
  <2>4. Freeing(k) => cur[k] \in live
    BY <2>1 DEF HandleOK, ReleaseOK, Freeing, PcFree
  <2> QED BY <1>1, <1>2, <2>1, <2>2, <2>3, <2>4, OtherHandle DEF HandleOK
<1>4. UsersExact'
  BY <1>1, <1>2 DEF UsersExact
<1>5. FreeOnce' /\ NoLeak'
  BY <1>1, <1>2 DEF FreeOnce, NoLeak, Freeing
<1> QED BY <1>3, <1>4, <1>5 DEF FrameInv

(* Every step keeps the reference counting right. *)
LEMMA FrameStep ==
  ASSUME IInv, [Next]_vars
  PROVE  FrameInv'
<1> USE FbAssumption
<1>1. ASSUME NEW h \in Handles, Begin(h) PROVE FrameInv'
  <2>1. TypeOK'
    BY <1>1, BeginType
  <2>2. ASSUME NEW f \in HeapFbs, NEW m \in Msis, fb_alloc(h, f, m) PROVE FrameInv'
    BY <2>1, <2>2, NewFrameStep DEF fb_alloc, Fbs
  <2>3. ASSUME NEW f \in PoolFbs, fbpool_get(h, f) PROVE FrameInv'
    <3>1. f \in Fbs \ live /\ UsersExact /\ TypeOK /\ \A k \in Handles : owed[k] \subseteq live
      BY <2>3 DEF fbpool_get, Fbs, IInv, FrameInv, HandleOK
    <3>2. users[f] = 0
      BY <3>1, UsersMeaning
    <3>3. (0 + 1) % UsersMod = 1
      <4>1. Cardinality({h}) = 1 /\ Cardinality({h}) < UsersMod
        BY CountStep, CountsFinite
      <4> QED BY <4>1
    <3>4. users' = [users EXCEPT ![f] = 1]
      BY <2>3, <3>1, <3>2, <3>3 DEF fbpool_get, atomic_inc, TypeOK, FbTypeOK
    <3> QED BY <2>1, <2>3, <3>1, <3>4, NewFrameStep DEF fbpool_get
  <2>4. ASSUME NEW g \in Handles, NEW f \in HeapFbs, NEW m \in Msis, fb_clone(h, g, f, m)
        PROVE  FrameInv'
    BY <2>1, <2>4, NewFrameStep DEF fb_clone, Fbs
  <2>5. ASSUME NEW g \in Handles, fb_get(h, g) \/ fb_ref(h, g) PROVE FrameInv'
    BY <2>1, <2>5, StartGetStep
  <2>6. ASSUME fb_put(h) PROVE FrameInv'
    BY <2>1, <2>6, PutEndsStep
  <2> QED BY <1>1, <2>2, <2>3, <2>4, <2>5, <2>6 DEF Begin
<1>2. ASSUME NEW h \in Handles, Continue(h) PROVE FrameInv'
  <2>1. TypeOK'
    BY <1>2, ContinueType
  <2> QED BY <1>2, <2>1, GetWalkStep, GetIncStep, GetDoneStep, PutWalkStep, FreeStep,
             ReturnStep, PutEndsStep DEF Continue
<1>3. ASSUME NEW m \in Msis, Destroy(m) PROVE FrameInv'
  BY <1>3, DestroyType, DestroyFrames
<1>4. CASE UNCHANGED vars
  <2>1. UNCHANGED <<users, next, live, fmsi, musers, inited, torn, mpc, ref, pc, cur, stk,
                    src, lmsi, linited, owed, depth>>
    BY <1>4 DEF vars, fbVars, msiVars, opVars
  <2>2. TypeOK' /\ UsersExact' /\ FreeOnce' /\ NoLeak'
    BY <2>1 DEF IInv, FrameInv, TypeOK, FbTypeOK, MsiTypeOK, OpTypeOK, UsersExact,
                FreeOnce, NoLeak, Freeing
  <2>3. \A k \in Handles : HandleOK(k)'
    BY <2>1 DEF IInv, FrameInv, HandleOK, NoneOK, IdleOK, WalkOK, ReleaseOK, GetOK,
                Covers, OnChain, AtCur, Counted, Linking, Freeing, StkSet
  <2> QED BY <2>2, <2>3 DEF FrameInv
<1> QED BY <1>1, <1>2, <1>3, <1>4 DEF Next

(***************************************************************************)
(* Ownership.                                                              *)
(***************************************************************************)
LEMMA OwnerCounts ==
  ASSUME IInv, NEW m \in Msis
  PROVE  /\ FramesOf(m) \in SUBSET Fbs /\ Cardinality(FramesOf(m)) \in Nat
         /\ Putting(m) \in SUBSET Handles /\ Cardinality(Putting(m)) \in Nat
         /\ CreatorRef(m) \in {0, 1}
         /\ musers[m] = CreatorRef(m) + Cardinality(FramesOf(m)) + Cardinality(Putting(m))
         /\ musers[m] = 0 => FramesOf(m) = {} /\ Putting(m) = {} /\ CreatorRef(m) = 0
<1>1. FramesOf(m) \in SUBSET Fbs /\ Putting(m) \in SUBSET Handles
  BY DEF IInv, FrameInv, TypeOK, FbTypeOK, FramesOf, Putting
<1>2. Cardinality(FramesOf(m)) \in Nat /\ Cardinality(Putting(m)) \in Nat
  BY <1>1, CountsFinite
<1>3. /\ Cardinality(FramesOf(m)) = 0 <=> FramesOf(m) = {}
      /\ Cardinality(Putting(m)) = 0 <=> Putting(m) = {}
  BY <1>1, CountsFinite, FS_EmptySet
<1>4. CreatorRef(m) \in {0, 1}
  BY DEF CreatorRef
<1>5. musers[m] = CreatorRef(m) + Cardinality(FramesOf(m)) + Cardinality(Putting(m))
  BY DEF IInv, OwnerInv, OwnerExact
<1> QED BY <1>1, <1>2, <1>3, <1>4, <1>5

(* A component that is up has users, so it is neither torn down nor about  *)
(* to be.                                                                  *)
LEMMA UpIsSafe ==
  ASSUME IInv, NEW m \in Msis, inited[m] = 1
  PROVE  /\ mpc[m] = "up" /\ m \notin torn
         /\ \A h \in Handles : pc[h] = "postdestroy" => lmsi[h] # m
<1>1. mpc[m] = "up" /\ MsiOK(m) /\ CreatorRef(m) = 1
  BY DEF IInv, OwnerInv, MsiOK, CreatorRef
<1>2. musers[m] # 0
  BY <1>1, OwnerCounts
<1> QED BY <1>1, <1>2 DEF MsiOK, IInv, OwnerInv, PutOwned

(* Steps that leave every frame with users a frame with users. *)
LEMMA OwnerQuiet ==
  ASSUME IInv, NEW h \in Handles,
         \A k \in Handles \ {h} : pc'[k] = pc[k] /\ cur'[k] = cur[k],
         pc[h] \notin PcFree, pc'[h] \notin PcFree,
         UNCHANGED <<live, fmsi, musers, inited, torn, mpc, lmsi, linited>>,
         \A f \in live : users'[f] > 0 <=> users[f] > 0
  PROVE  OwnerInv'
<1> USE DEF PcFree
<1>1. FrameOwned'
  BY DEF IInv, OwnerInv, FrameOwned
<1>2. \A k \in Handles : PutOwned(k)'
  <2> SUFFICES ASSUME NEW k \in Handles PROVE PutOwned(k)'
    OBVIOUS
  <2>1. CASE k = h
    BY <2>1 DEF PutOwned
  <2>2. CASE k # h
    <3>1. PutOwned(k) /\ pc'[k] = pc[k] /\ cur'[k] = cur[k]
      BY <2>2 DEF IInv, OwnerInv
    <3>2. \A g \in Handles : pc'[g] = "postdestroy" => pc[g] = "postdestroy"
      OBVIOUS
    <3> QED BY <3>1, <3>2 DEF PutOwned
  <2> QED BY <2>1, <2>2
<1>3. \A m \in Msis : MsiOK(m)'
  BY DEF IInv, OwnerInv, MsiOK
<1>4. \A m \in Msis : FramesOf(m)' = FramesOf(m) /\ Putting(m)' = Putting(m)
  <2>1. \A m \in Msis : FramesOf(m)' = FramesOf(m)
    BY DEF FramesOf
  <2>2. \A k \in Handles : pc'[k] \in {"freecb", "msiput", "msidec"}
                              <=> pc[k] \in {"freecb", "msiput", "msidec"}
    OBVIOUS
  <2>3. \A m \in Msis : Putting(m)' = Putting(m)
    BY <2>2 DEF Putting
  <2> QED BY <2>1, <2>3
<1>5. OwnerExact'
  BY <1>4 DEF IInv, OwnerInv, OwnerExact, CreatorRef
<1> QED BY <1>1, <1>2, <1>3, <1>5 DEF OwnerInv

LEMMA OwnerQuietSteps ==
  ASSUME IInv, NEW h \in Handles,
         \/ \E g \in Handles : fb_get(h, g) \/ fb_ref(h, g)
         \/ fb_put(h) \/ fb_get_walk(h) \/ fb_get_inc(h) \/ fb_get_done(h)
         \/ fb_put_walk(h) \/ fb_put_done(h)
         \/ fb_free(h) /\ users[Top(stk[h])] > 1
  PROVE  OwnerInv'
<1> USE FbAssumption DEF PcFree, PcGet
<1>1. TypeOK /\ UsersExact /\ HandleOK(h)
  BY DEF IInv, FrameInv
<1>2. ASSUME NEW g \in Handles, fb_get(h, g) \/ fb_ref(h, g) PROVE OwnerInv'
  <2>1. /\ pc[h] \notin PcFree /\ pc'[h] \notin PcFree
        /\ \A k \in Handles \ {h} : pc'[k] = pc[k] /\ cur'[k] = cur[k]
        /\ UNCHANGED <<users, live, fmsi, musers, inited, torn, mpc, lmsi, linited>>
    BY <1>1, <1>2 DEF fb_get, fb_ref, StartGet, Free, fbVars, msiVars, TypeOK, OpTypeOK
  <2> QED BY <2>1, OwnerQuiet
<1>3. CASE fb_put(h) \/ fb_put_done(h) \/ fb_get_done(h)
  <2>1. /\ pc[h] \notin PcFree /\ pc'[h] \notin PcFree
        /\ \A k \in Handles \ {h} : pc'[k] = pc[k] /\ cur'[k] = cur[k]
        /\ UNCHANGED <<users, live, fmsi, musers, inited, torn, mpc, lmsi, linited>>
    BY <1>1, <1>3 DEF fb_put, fb_put_done, fb_get_done, Free, fbVars, msiVars, TypeOK, OpTypeOK
  <2> QED BY <2>1, OwnerQuiet
<1>4. CASE fb_get_walk(h) \/ fb_put_walk(h)
  <2>1. /\ pc[h] \notin PcFree /\ pc'[h] \notin PcFree
        /\ \A k \in Handles \ {h} : pc'[k] = pc[k] /\ cur'[k] = cur[k]
        /\ UNCHANGED <<users, live, fmsi, musers, inited, torn, mpc, lmsi, linited>>
    BY <1>1, <1>4 DEF fb_get_walk, fb_put_walk, Walk, fbVars, msiVars, TypeOK, OpTypeOK
  <2> QED BY <2>1, OwnerQuiet
<1>5. CASE fb_get_inc(h)
  <2>1. /\ pc[h] \notin PcFree /\ pc' = pc /\ cur' = cur
        /\ UNCHANGED <<live, fmsi, musers, inited, torn, mpc, lmsi, linited>>
    BY <1>5 DEF fb_get_inc, msiVars
  <2>2. PICK f \in Fbs : f = Top(stk[h]) /\ f \in owed[src[h]] /\ src[h] \in Handles
    <3>1. stk[h] \in Seq(Fbs) /\ stk[h] # <<>> /\ OnChain(h, src[h]) /\ src[h] \in Handles
      BY <1>1, <1>5 DEF fb_get_inc, TypeOK, OpTypeOK, HandleOK, GetOK
    <3>2. Top(stk[h]) \in Fbs /\ Top(stk[h]) = stk[h][Len(stk[h])] /\ Len(stk[h]) \in Nat \ {0}
      BY <3>1, PopFacts
    <3> QED BY <3>1, <3>2 DEF OnChain
  <2>3. FrameInv'
    BY <1>5, ContinueType, GetIncStep DEF Continue
  <2>4. f \in owed'[src[h]]
    BY <1>1, <1>5, <2>2 DEF fb_get_inc, TypeOK, OpTypeOK
  <2>5. users[f] > 0
    BY <1>1, <2>2, UsersMeaning
  <2>6. users'[f] \in Nat /\ users'[f] # 0
    <3>1. users'[f] = Cardinality(Owers(f)')
      BY <2>3 DEF FrameInv, UsersExact, Owers
    <3>2. Owers(f)' \in SUBSET Handles /\ src[h] \in Owers(f)'
      BY <2>2, <2>4 DEF Owers
    <3>3. PICK S \in SUBSET Handles : S = Owers(f)' /\ src[h] \in S
      BY <3>2
    <3>4. Cardinality(S) \in Nat /\ Cardinality(S) > 0
      BY <2>2, <3>3, CountStep, CountsFinite
    <3> QED BY <3>1, <3>3, <3>4
  <2>7. \A x \in Fbs \ {f} : users'[x] = users[x]
    BY <1>1, <1>5, <2>2 DEF fb_get_inc, atomic_inc, TypeOK, FbTypeOK
  <2>8. \A x \in live : users'[x] > 0 <=> users[x] > 0
    BY <1>1, <2>5, <2>6, <2>7 DEF TypeOK, FbTypeOK
  <2> QED BY <2>1, <2>8, OwnerQuiet
<1>6. CASE fb_free(h) /\ users[Top(stk[h])] > 1
  <2>1. PICK f \in Fbs : f = Top(stk[h])
    BY <1>1, <1>6, PopFacts DEF fb_free, TypeOK, OpTypeOK
  <2>2. Dec(users[f]) = users[f] - 1 /\ Dec(users[f]) > 0
    BY <1>1, <1>6, <2>1 DEF Dec, TypeOK, FbTypeOK
  <2>3. /\ pc[h] \notin PcFree /\ pc' = pc /\ cur' = cur
        /\ UNCHANGED <<live, fmsi, musers, inited, torn, mpc, lmsi, linited>>
        /\ users' = [users EXCEPT ![f] = Dec(@)]
    BY <1>6, <2>1, <2>2 DEF fb_free, msiVars
  <2>4. \A x \in Fbs : users'[x] > 0 <=> users[x] > 0
    BY <1>1, <1>6, <2>1, <2>2, <2>3 DEF TypeOK, FbTypeOK
  <2> QED BY <1>1, <2>3, <2>4, OwnerQuiet DEF TypeOK, FbTypeOK
<1> QED BY <1>2, <1>3, <1>4, <1>5, <1>6

(* A new frame adds itself and its reference to its component. *)
LEMMA OwnerNewFrame ==
  ASSUME IInv, NEW h \in Handles, NEW f \in Fbs \ live, NEW m \in Msis,
         pc[h] = "none", inited[m] = 1, f \in PoolFbs => m = PoolMsi,
         NewFrame(h, f, m),
         users'[f] = 1, \A x \in Fbs \ {f} : users'[x] = users[x],
         \A k \in Handles \ {h} : pc'[k] = pc[k] /\ cur'[k] = cur[k],
         pc'[h] \notin PcFree
  PROVE  OwnerInv'
<1> USE DEF PcFree
<1>1. TypeOK /\ OwnerInv
  BY DEF IInv, FrameInv
<1>2. /\ live' = live \cup {f} /\ fmsi'[f] = m
      /\ \A x \in live : fmsi'[x] = fmsi[x] /\ users'[x] = users[x]
      /\ musers'[m] = musers[m] + 1 /\ \A n \in Msis \ {m} : musers'[n] = musers[n]
      /\ UNCHANGED <<inited, torn, mpc, lmsi, linited>>
  BY <1>1 DEF NewFrame, TypeOK, FbTypeOK, MsiTypeOK
<1>3. /\ mpc[m] = "up" /\ m \notin torn
      /\ \A k \in Handles : pc[k] = "postdestroy" => lmsi[k] # m
  BY UpIsSafe
<1>4. FrameOwned'
  BY <1>1, <1>2 DEF OwnerInv, FrameOwned
<1>5. \A k \in Handles : PutOwned(k)'
  <2> SUFFICES ASSUME NEW k \in Handles PROVE PutOwned(k)'
    OBVIOUS
  <2>1. CASE k = h
    BY <2>1 DEF PutOwned
  <2>2. CASE k # h
    <3>1. PutOwned(k) /\ pc'[k] = pc[k] /\ cur'[k] = cur[k]
      BY <1>1, <2>2 DEF OwnerInv
    <3>2. \A g \in Handles : pc'[g] = "postdestroy" => pc[g] = "postdestroy"
      OBVIOUS
    <3>3. pc[k] = "postdestroy" => musers'[lmsi[k]] = musers[lmsi[k]]
      BY <1>2, <1>3, <3>1 DEF PutOwned
    <3> QED BY <1>2, <3>1, <3>2, <3>3 DEF PutOwned
  <2> QED BY <2>1, <2>2
<1>6. \A n \in Msis : MsiOK(n)'
  BY <1>1, <1>2, <1>3 DEF OwnerInv, MsiOK
<1>7. OwnerExact'
  <2>1. \A k \in Handles : pc'[k] \in {"freecb", "msiput", "msidec"}
                              <=> pc[k] \in {"freecb", "msiput", "msidec"}
    OBVIOUS
  <2>2. \A n \in Msis : Putting(n)' = Putting(n) /\ CreatorRef(n)' = CreatorRef(n)
    BY <1>2, <2>1 DEF Putting, CreatorRef
  <2>3. FramesOf(m)' = FramesOf(m) \cup {f} /\ f \notin FramesOf(m)
    BY <1>2 DEF FramesOf
  <2>4. \A n \in Msis \ {m} : FramesOf(n)' = FramesOf(n)
    BY <1>2 DEF FramesOf
  <2>5. Cardinality(FramesOf(m)') = Cardinality(FramesOf(m)) + 1
    BY <2>3, OwnerCounts, CountStepFb
  <2>6. ASSUME NEW n \in Msis
        PROVE  musers'[n] = CreatorRef(n)' + Cardinality(FramesOf(n)') + Cardinality(Putting(n)')
    <3>1. CASE n = m
      BY <1>2, <2>2, <2>5, <3>1, OwnerCounts
    <3>2. CASE n # m
      BY <1>2, <2>2, <2>4, <3>2, OwnerCounts
    <3> QED BY <3>1, <3>2
  <2> QED BY <2>6 DEF OwnerExact
<1> QED BY <1>4, <1>5, <1>6, <1>7 DEF OwnerInv

(* The last count of a frame passes the component on to fb_free. *)
LEMMA OwnerLastCount ==
  ASSUME IInv, NEW h \in Handles, fb_free(h), ~(users[Top(stk[h])] > 1)
  PROVE  OwnerInv'
<1> USE FbAssumption DEF PcFree
<1>1. TypeOK /\ OwnerInv /\ UsersExact /\ HandleOK(h)
  BY DEF IInv, FrameInv
<1>2. pc[h] = "putfree" /\ stk[h] # <<>> /\ stk[h] \in Seq(Fbs)
  BY <1>1 DEF fb_free, TypeOK, OpTypeOK
<1>3. PICK f \in Fbs : f = Top(stk[h]) /\ f \in owed[h]
  <2>1. PICK n \in 1 .. Len(stk[h]) : Top(stk[h]) = stk[h][n] /\ stk[h][n] \in Fbs
    BY <1>2, PopFacts
  <2>2. owed[h] = StkSet(h)
    BY <1>1, <1>2 DEF HandleOK, ReleaseOK
  <2> QED BY <2>1, <2>2 DEF StkSet
<1>4. users[f] = 1 /\ f \in live
  BY <1>1, <1>3, UsersMeaning DEF HandleOK
<1>5. PICK m \in Msis : m = fmsi[f] /\ (f \in PoolFbs => m = PoolMsi)
  BY <1>1, <1>4 DEF OwnerInv, FrameOwned
<1>6. /\ users' = [users EXCEPT ![f] = 0]
      /\ cur' = [cur EXCEPT ![h] = f] /\ lmsi' = [lmsi EXCEPT ![h] = m]
      /\ pc' = [pc EXCEPT ![h] = "freecb"]
      /\ UNCHANGED <<live, fmsi, musers, inited, torn, mpc, linited>>
  BY <1>3, <1>4, <1>5 DEF fb_free, Dec, msiVars
<1>7. /\ users'[f] = 0 /\ \A x \in Fbs \ {f} : users'[x] = users[x]
      /\ cur'[h] = f /\ lmsi'[h] = m /\ pc'[h] = "freecb"
      /\ \A k \in Handles \ {h} : cur'[k] = cur[k] /\ lmsi'[k] = lmsi[k] /\ pc'[k] = pc[k]
  BY <1>1, <1>6 DEF TypeOK, FbTypeOK, OpTypeOK
<1>8. FrameOwned'
  BY <1>1, <1>6 DEF OwnerInv, FrameOwned
<1>9. \A k \in Handles : PutOwned(k)'
  <2> SUFFICES ASSUME NEW k \in Handles PROVE PutOwned(k)'
    OBVIOUS
  <2>1. CASE k = h
    BY <1>5, <1>7, <2>1 DEF PutOwned
  <2>2. CASE k # h
    BY <1>1, <1>6, <1>7, <2>2 DEF OwnerInv, PutOwned
  <2> QED BY <2>1, <2>2
<1>10. \A n \in Msis : MsiOK(n)'
  BY <1>1, <1>6 DEF OwnerInv, MsiOK
<1>11. OwnerExact'
  <2>1. Putting(m)' = Putting(m) \cup {h} /\ h \notin Putting(m)
    BY <1>2, <1>7 DEF Putting
  <2>2. FramesOf(m)' = FramesOf(m) \ {f} /\ f \in FramesOf(m)
    BY <1>1, <1>4, <1>5, <1>6, <1>7 DEF FramesOf, TypeOK, FbTypeOK
  <2>3. \A n \in Msis \ {m} : Putting(n)' = Putting(n)
    BY <1>2, <1>7 DEF Putting
  <2>4. \A n \in Msis \ {m} : FramesOf(n)' = FramesOf(n)
    BY <1>1, <1>4, <1>5, <1>6, <1>7 DEF FramesOf, TypeOK, FbTypeOK
  <2>5. Cardinality(Putting(m)') = Cardinality(Putting(m)) + 1
    <3>1. PICK S \in SUBSET Handles : S = Putting(m)
      BY OwnerCounts
    <3>2. h \notin S /\ Putting(m)' = S \cup {h}
      BY <2>1, <3>1
    <3>3. Cardinality(S \cup {h}) = Cardinality(S) + 1
      BY <3>2, CountStep
    <3> QED BY <3>1, <3>2, <3>3
  <2>6. Cardinality(FramesOf(m)') = Cardinality(FramesOf(m)) - 1
    BY <2>2, OwnerCounts, CountStepFb
  <2>7. \A n \in Msis : CreatorRef(n)' = CreatorRef(n) /\ musers'[n] = musers[n]
    BY <1>6 DEF CreatorRef
  <2>8. ASSUME NEW n \in Msis
        PROVE  musers'[n] = CreatorRef(n)' + Cardinality(FramesOf(n)') + Cardinality(Putting(n)')
    <3>1. CASE n = m
      BY <2>5, <2>6, <2>7, <3>1, OwnerCounts
    <3>2. CASE n # m
      BY <2>3, <2>4, <2>7, <3>2, OwnerCounts
    <3> QED BY <3>1, <3>2
  <2> QED BY <2>8 DEF OwnerExact
<1> QED BY <1>8, <1>9, <1>10, <1>11 DEF OwnerInv

(* Giving the frame back touches no frame with users. *)
LEMMA OwnerReturn ==
  ASSUME IInv, NEW h \in Handles, free_fb(h) \/ fb_free_mem(h) \/ msi_put_read(h)
  PROVE  OwnerInv'
<1> USE FbAssumption DEF PcFree
<1>1. TypeOK /\ OwnerInv /\ HandleOK(h)
  BY DEF IInv, FrameInv
<1>2. pc[h] \in PcFree /\ cur[h] \in Fbs /\ lmsi[h] \in Msis
  BY <1>1 DEF free_fb, fb_free_mem, msi_put_read, HandleOK, ReleaseOK, OwnerInv, PutOwned
<1>3. Freeing(h) => users[cur[h]] = 0
  BY <1>1, <1>2 DEF HandleOK, ReleaseOK
<1>4. /\ UNCHANGED <<musers, inited, torn, mpc>>
      /\ \A k \in Handles \ {h} : pc'[k] = pc[k] /\ cur'[k] = cur[k] /\ lmsi'[k] = lmsi[k]
                                  /\ linited'[k] = linited[k]
      /\ \/ pc[h] = "freecb" /\ pc'[h] = "msiput" /\ lmsi'[h] = lmsi[h] /\ cur'[h] = cur[h]
         \/ pc[h] = "fbfree" /\ pc'[h] = "putfree"
         \/ pc[h] = "msiput" /\ pc'[h] = "msidec" /\ lmsi'[h] = lmsi[h] /\ cur'[h] = cur[h]
            /\ linited'[h] = inited[lmsi[h]]
  <2>1. CASE free_fb(h)
    BY <1>1, <2>1 DEF free_fb, msiVars, TypeOK, OpTypeOK
  <2>2. CASE fb_free_mem(h)
    BY <1>1, <2>2 DEF fb_free_mem, msiVars, TypeOK, OpTypeOK
  <2>3. CASE msi_put_read(h)
    BY <1>1, <2>3 DEF msi_put_read, msiVars, TypeOK, OpTypeOK
  <2> QED BY <2>1, <2>2, <2>3
<1>5. \/ UNCHANGED <<users, live, fmsi>>
      \/ /\ Freeing(h) /\ live' = live \ {cur[h]}
         /\ \A x \in Fbs \ {cur[h]} : users'[x] = users[x] /\ fmsi'[x] = fmsi[x]
  <2>1. CASE free_fb(h)
    <3>1. CASE cur[h] \in PoolFbs /\ PoolMsi \notin torn
      BY <1>1, <1>2, <2>1, <3>1 DEF free_fb, fbpool_put, Freeing, TypeOK, FbTypeOK
    <3>2. CASE ~(cur[h] \in PoolFbs /\ PoolMsi \notin torn)
      BY <2>1, <3>2 DEF free_fb, fbpool_put
    <3> QED BY <3>1, <3>2
  <2>2. CASE fb_free_mem(h)
    BY <1>2, <2>2 DEF fb_free_mem, Freeing, Fbs
  <2>3. CASE msi_put_read(h)
    BY <2>3 DEF msi_put_read, fbVars
  <2> QED BY <2>1, <2>2, <2>3
<1>6. FrameOwned'
  BY <1>1, <1>5 DEF OwnerInv, FrameOwned, TypeOK, FbTypeOK
<1>7. \A k \in Handles : PutOwned(k)'
  <2> SUFFICES ASSUME NEW k \in Handles PROVE PutOwned(k)'
    OBVIOUS
  <2>1. PutOwned(k)
    BY <1>1 DEF OwnerInv
  <2>2. CASE k = h
    BY <1>4, <2>1, <2>2 DEF PutOwned
  <2>3. CASE k # h
    <3>1. \A g \in Handles : pc'[g] = "postdestroy" => pc[g] = "postdestroy" /\ lmsi'[g] = lmsi[g]
      BY <1>4
    <3> QED BY <1>4, <2>1, <2>3, <3>1 DEF PutOwned
  <2> QED BY <2>2, <2>3
<1>8. \A n \in Msis : MsiOK(n)'
  BY <1>1, <1>4 DEF OwnerInv, MsiOK
<1>9. OwnerExact'
  <2>1. \A n \in Msis : FramesOf(n)' = FramesOf(n)
    <3>1. CASE UNCHANGED <<users, live, fmsi>>
      BY <3>1 DEF FramesOf
    <3>2. CASE /\ Freeing(h) /\ live' = live \ {cur[h]}
               /\ \A x \in Fbs \ {cur[h]} : users'[x] = users[x] /\ fmsi'[x] = fmsi[x]
      BY <1>1, <1>3, <3>2 DEF FramesOf, TypeOK, FbTypeOK
    <3> QED BY <1>5, <3>1, <3>2
  <2>2. \A n \in Msis : Putting(n)' = Putting(n)
    BY <1>4 DEF Putting
  <2> QED BY <1>1, <1>4, <2>1, <2>2 DEF OwnerInv, OwnerExact, CreatorRef
<1> QED BY <1>6, <1>7, <1>8, <1>9 DEF OwnerInv

(* msi_put gives the reference up, and tears down after the last one. *)
LEMMA OwnerPut ==
  ASSUME IInv, NEW h \in Handles, msi_put_dec(h) \/ msi_put_destroy(h)
  PROVE  OwnerInv'
<1> USE FbAssumption DEF PcFree
<1>1. TypeOK /\ OwnerInv /\ PutOwned(h)
  BY DEF IInv, FrameInv, OwnerInv
<1>2. PICK m \in Msis : m = lmsi[h] /\ (cur[h] \in PoolFbs => m = PoolMsi)
  BY <1>1 DEF PutOwned, msi_put_dec, msi_put_destroy
<1>3. /\ UNCHANGED <<users, live, fmsi, inited, mpc, lmsi, linited, cur>>
      /\ \A k \in Handles \ {h} : pc'[k] = pc[k]
      /\ pc'[h] \in {"postdestroy", "fbfree"}
  BY <1>1 DEF msi_put_dec, msi_put_destroy, fbVars, TypeOK, OpTypeOK
<1>4. FrameOwned'
  BY <1>1, <1>3 DEF OwnerInv, FrameOwned
<1>5. \A n \in Msis : FramesOf(n)' = FramesOf(n) /\ CreatorRef(n)' = CreatorRef(n)
  BY <1>3 DEF FramesOf, CreatorRef
<1>6. CASE msi_put_dec(h)
  <2>1. PICK S \in SUBSET Handles : S = Putting(m)
    BY OwnerCounts
  <2>2. h \in S /\ Putting(m)' = S \ {h}
    BY <1>2, <1>3, <1>6, <2>1 DEF Putting, msi_put_dec
  <2>3. Cardinality(S \ {h}) = Cardinality(S) - 1 /\ Cardinality(S) > 0
    BY <2>2, CountStep
  <2>4. \A n \in Msis \ {m} : Putting(n)' = Putting(n)
    BY <1>2, <1>3, <1>6 DEF Putting, msi_put_dec
  <2>5. musers[m] \in Nat /\ musers[m] > 0
    BY <2>1, <2>3, OwnerCounts
  <2>6. /\ musers'[m] = musers[m] - 1 /\ \A n \in Msis \ {m} : musers'[n] = musers[n]
        /\ pc'[h] = "postdestroy" => musers'[m] = 0 /\ linited[h] = 0 /\ pc[h] = "msidec"
        /\ torn' = torn
    BY <1>1, <1>2, <1>6, <2>5 DEF msi_put_dec, Dec, TypeOK, MsiTypeOK, OpTypeOK
  <2>7. OwnerExact'
    <3>1. ASSUME NEW n \in Msis
          PROVE  musers'[n] = CreatorRef(n)' + Cardinality(FramesOf(n)') + Cardinality(Putting(n)')
      <4>1. CASE n = m
        <5>1. musers[m] = CreatorRef(m) + Cardinality(FramesOf(m)) + Cardinality(S)
              /\ CreatorRef(m) \in {0, 1} /\ Cardinality(FramesOf(m)) \in Nat
              /\ Cardinality(S) \in Nat
          BY <2>1, OwnerCounts
        <5>2. musers'[m] = CreatorRef(m) + Cardinality(FramesOf(m)) + Cardinality(S \ {h})
          BY <2>3, <2>6, <5>1
        <5> QED BY <1>5, <2>2, <4>1, <5>2
      <4>2. CASE n # m
        BY <1>5, <2>4, <2>6, <4>2, OwnerCounts
      <4> QED BY <4>1, <4>2
    <3> QED BY <3>1 DEF OwnerExact
  <2>8. m \notin torn /\ mpc[m] # "postdestroy" /\ MsiOK(m)
    BY <1>1, <2>5 DEF OwnerInv, MsiOK
  <2>9. \A n \in Msis : MsiOK(n)'
    BY <1>1, <1>3, <2>6, <2>8 DEF OwnerInv, MsiOK
  <2>10. \A k \in Handles : pc[k] = "postdestroy" => lmsi[k] # m /\ lmsi[k] \in Msis
    BY <1>1, <2>5 DEF OwnerInv, PutOwned
  <2>11. pc'[h] = "postdestroy" => inited[m] = 0 /\ mpc[m] = "down"
    <3>1. pc'[h] = "postdestroy" => musers[m] = 1
      BY <2>5, <2>6
    <3>2. pc'[h] = "postdestroy" => CreatorRef(m) = 0
      BY <2>1, <2>3, <3>1, OwnerCounts
    <3>3. pc'[h] = "postdestroy" => inited[m] = 0
      BY <1>1, <1>2, <2>6 DEF PutOwned
    <3> QED BY <1>1, <2>8, <3>2, <3>3 DEF CreatorRef, TypeOK, MsiTypeOK
  <2>12. \A k \in Handles : PutOwned(k)'
    <3> SUFFICES ASSUME NEW k \in Handles PROVE PutOwned(k)'
      OBVIOUS
    <3>1. CASE k = h
      BY <1>2, <1>3, <2>6, <2>8, <2>10, <2>11, <3>1 DEF PutOwned
    <3>2. CASE k # h
      <4>1. PutOwned(k) /\ pc'[k] = pc[k]
        BY <1>1, <1>3, <3>2 DEF OwnerInv
      <4>2. pc[k] = "postdestroy" => musers'[lmsi[k]] = musers[lmsi[k]]
        BY <2>6, <2>10
      <4>3. \A g \in Handles \ {k} : pc'[g] = "postdestroy" /\ pc[k] = "postdestroy" => lmsi[g] # lmsi[k]
        BY <1>2, <1>3, <2>10, <4>1 DEF PutOwned
      <4> QED BY <1>3, <2>6, <4>1, <4>2, <4>3 DEF PutOwned
    <3> QED BY <3>1, <3>2
  <2> QED BY <1>4, <2>7, <2>9, <2>12 DEF OwnerInv
<1>7. CASE msi_put_destroy(h)
  <2>1. pc[h] = "postdestroy" /\ pc'[h] = "fbfree" /\ musers' = musers /\ torn' = torn \cup {m}
    BY <1>1, <1>2, <1>7 DEF msi_put_destroy, TypeOK, OpTypeOK
  <2>2. /\ inited[m] = 0 /\ musers[m] = 0 /\ m \notin torn /\ mpc[m] = "down"
        /\ \A g \in Handles \ {h} : pc[g] = "postdestroy" => lmsi[g] # m
    BY <1>1, <1>2, <2>1 DEF PutOwned
  <2>3. \A n \in Msis : Putting(n)' = Putting(n)
    BY <1>3, <2>1 DEF Putting
  <2>4. OwnerExact'
    BY <1>1, <1>5, <2>1, <2>3 DEF OwnerInv, OwnerExact
  <2>5. \A n \in Msis : MsiOK(n)'
    BY <1>1, <1>3, <2>1, <2>2 DEF OwnerInv, MsiOK
  <2>6. \A k \in Handles : PutOwned(k)'
    <3> SUFFICES ASSUME NEW k \in Handles PROVE PutOwned(k)'
      OBVIOUS
    <3>1. CASE k = h
      BY <1>1, <1>3, <2>1, <3>1 DEF PutOwned
    <3>2. CASE k # h
      <4>1. PutOwned(k) /\ pc'[k] = pc[k]
        BY <1>1, <1>3, <3>2 DEF OwnerInv
      <4>2. \A g \in Handles : pc'[g] = "postdestroy" => pc[g] = "postdestroy"
        BY <1>3, <2>1
      <4> QED BY <1>3, <2>1, <2>2, <3>2, <4>1, <4>2 DEF PutOwned
    <3> QED BY <3>1, <3>2
  <2> QED BY <1>4, <2>4, <2>5, <2>6 DEF OwnerInv
<1> QED BY <1>6, <1>7

(* The creator's own msi_put. *)
LEMMA OwnerDestroy ==
  ASSUME IInv, NEW m \in Msis, Destroy(m)
  PROVE  OwnerInv'
<1>1. TypeOK /\ OwnerInv /\ MsiOK(m)
  BY DEF IInv, FrameInv, OwnerInv
<1>2. UNCHANGED <<users, live, fmsi, pc, cur, lmsi, linited>>
  BY DEF Destroy, msi_destroy, msi_destroy_dec, msi_destroy_post, fbVars, opVars
<1>3. FrameOwned'
  BY <1>1, <1>2 DEF OwnerInv, FrameOwned
<1>4. \A n \in Msis : FramesOf(n)' = FramesOf(n) /\ Putting(n)' = Putting(n)
  BY <1>2 DEF FramesOf, Putting
<1>5. /\ \A n \in Msis \ {m} : inited'[n] = inited[n] /\ mpc'[n] = mpc[n] /\ musers'[n] = musers[n]
                                /\ (n \in torn' <=> n \in torn)
      /\ \A h \in Handles : pc[h] = "postdestroy" => lmsi[h] \in Msis \ {m}
      /\ inited'[m] = 1 => inited[m] = 1
      /\ \A n \in Msis : inited[n] = 0 => inited'[n] = 0
  <2>1. mpc[m] # "down"
    BY DEF Destroy, msi_destroy, msi_destroy_dec, msi_destroy_post
  <2>2. \A h \in Handles : pc[h] = "postdestroy" => lmsi[h] \in Msis \ {m}
    BY <1>1, <2>1 DEF OwnerInv, PutOwned, PcFree
  <2>3. CASE msi_destroy(m)
    BY <1>1, <2>2, <2>3 DEF msi_destroy, TypeOK, MsiTypeOK
  <2>4. CASE msi_destroy_dec(m)
    BY <1>1, <2>2, <2>4 DEF msi_destroy_dec, TypeOK, MsiTypeOK
  <2>5. CASE msi_destroy_post(m)
    BY <1>1, <2>2, <2>5 DEF msi_destroy_post, TypeOK, MsiTypeOK
  <2> QED BY <2>3, <2>4, <2>5 DEF Destroy
<1>6. \A h \in Handles : PutOwned(h)'
  <2> SUFFICES ASSUME NEW h \in Handles PROVE PutOwned(h)'
    OBVIOUS
  <2>1. PutOwned(h)
    BY <1>1 DEF OwnerInv
  <2>2. pc[h] = "msidec" => lmsi[h] \in Msis
    BY <2>1 DEF PutOwned, PcFree
  <2> QED BY <1>2, <1>5, <2>1, <2>2 DEF PutOwned
<1>7. MsiOK(m)' /\ musers'[m] - CreatorRef(m)' = musers[m] - CreatorRef(m)
      /\ musers'[m] \in Nat
  <2>1. CASE msi_destroy(m)
    <3>1. mpc'[m] = "dec" /\ inited'[m] = 0 /\ musers' = musers /\ torn' = torn /\ mpc[m] = "up"
      BY <1>1, <2>1 DEF msi_destroy, TypeOK, MsiTypeOK
    <3>2. m \notin torn
      BY <1>1, <3>1, UpIsSafe DEF MsiOK
    <3> QED BY <1>1, <3>1, <3>2 DEF MsiOK, CreatorRef, TypeOK, MsiTypeOK
  <2>2. CASE msi_destroy_dec(m)
    <3>1. CreatorRef(m) = 1 /\ musers[m] \in Nat /\ musers[m] > 0
      BY <2>2, OwnerCounts DEF msi_destroy_dec, CreatorRef
    <3>2. /\ musers'[m] = musers[m] - 1 /\ mpc[m] = "dec" /\ inited' = inited /\ torn' = torn
          /\ mpc'[m] = IF musers'[m] = 0 THEN "postdestroy" ELSE "down"
      BY <1>1, <2>2, <3>1 DEF msi_destroy_dec, Dec, TypeOK, MsiTypeOK
    <3> QED BY <1>1, <3>1, <3>2 DEF MsiOK, CreatorRef
  <2>3. CASE msi_destroy_post(m)
    <3>1. /\ mpc[m] = "postdestroy" /\ mpc'[m] = "down" /\ m \in torn'
          /\ musers' = musers /\ inited' = inited
      BY <1>1, <2>3 DEF msi_destroy_post, TypeOK, MsiTypeOK
    <3> QED BY <1>1, <3>1 DEF MsiOK, CreatorRef, TypeOK, MsiTypeOK
  <2> QED BY <2>1, <2>2, <2>3 DEF Destroy
<1>8. \A n \in Msis : MsiOK(n)'
  BY <1>1, <1>5, <1>7 DEF OwnerInv, MsiOK
<1>9. OwnerExact'
  <2>1. ASSUME NEW n \in Msis
        PROVE  musers'[n] = CreatorRef(n)' + Cardinality(FramesOf(n)') + Cardinality(Putting(n)')
    <3>1. CASE n = m
      <4>1. CreatorRef(m)' \in {0, 1}
        BY DEF CreatorRef
      <4> QED BY <1>4, <1>7, <3>1, <4>1, OwnerCounts
    <3>2. CASE n # m
      <4>1. CreatorRef(n)' = CreatorRef(n) /\ musers'[n] = musers[n]
        BY <1>5, <3>2 DEF CreatorRef
      <4> QED BY <1>4, <4>1, OwnerCounts
    <3> QED BY <3>1, <3>2
  <2> QED BY <2>1 DEF OwnerExact
<1> QED BY <1>3, <1>6, <1>8, <1>9 DEF OwnerInv

(* Every step keeps the ownership of frames right. *)
LEMMA OwnerStep ==
  ASSUME IInv, [Next]_vars
  PROVE  OwnerInv'
<1> USE FbAssumption
<1>0. TypeOK
  BY DEF IInv, FrameInv
<1>1. ASSUME NEW h \in Handles, Begin(h) PROVE OwnerInv'
  <2>1. ASSUME NEW f \in HeapFbs, NEW m \in Msis, fb_alloc(h, f, m) PROVE OwnerInv'
    <3>1. /\ f \in Fbs \ live /\ pc[h] = "none" /\ inited[m] = 1 /\ f \notin PoolFbs
          /\ NewFrame(h, f, m) /\ users'[f] = 1
          /\ \A x \in Fbs \ {f} : users'[x] = users[x]
          /\ \A k \in Handles \ {h} : pc'[k] = pc[k] /\ cur'[k] = cur[k]
          /\ pc'[h] \notin PcFree
      BY <1>0, <2>1 DEF fb_alloc, Fbs, PcFree, TypeOK, FbTypeOK, OpTypeOK
    <3> QED BY <3>1, OwnerNewFrame
  <2>2. ASSUME NEW f \in PoolFbs, fbpool_get(h, f) PROVE OwnerInv'
    <3>1. f \in Fbs \ live /\ UsersExact /\ \A k \in Handles : owed[k] \subseteq live
      BY <2>2 DEF fbpool_get, Fbs, IInv, FrameInv, HandleOK
    <3>2. users[f] = 0
      BY <3>1, UsersMeaning
    <3>3. (0 + 1) % UsersMod = 1
      <4>1. Cardinality({h}) = 1 /\ Cardinality({h}) < UsersMod
        BY CountStep, CountsFinite
      <4> QED BY <4>1
    <3>4. /\ pc[h] = "none" /\ inited[PoolMsi] = 1 /\ PoolMsi \in Msis
          /\ NewFrame(h, f, PoolMsi) /\ users'[f] = 1
          /\ \A x \in Fbs \ {f} : users'[x] = users[x]
          /\ \A k \in Handles \ {h} : pc'[k] = pc[k] /\ cur'[k] = cur[k]
          /\ pc'[h] \notin PcFree
      BY <1>0, <2>2, <3>1, <3>2, <3>3
         DEF fbpool_get, atomic_inc, PcFree, TypeOK, FbTypeOK, OpTypeOK
    <3> QED BY <3>1, <3>4, OwnerNewFrame
  <2>3. ASSUME NEW g \in Handles, NEW f \in HeapFbs, NEW m \in Msis, fb_clone(h, g, f, m)
        PROVE  OwnerInv'
    <3>1. /\ f \in Fbs \ live /\ pc[h] = "none" /\ inited[m] = 1 /\ f \notin PoolFbs
          /\ NewFrame(h, f, m) /\ users'[f] = 1
          /\ \A x \in Fbs \ {f} : users'[x] = users[x]
          /\ \A k \in Handles \ {h} : pc'[k] = pc[k] /\ cur'[k] = cur[k]
          /\ pc'[h] \notin PcFree
      BY <1>0, <2>3 DEF fb_clone, Fbs, PcFree, TypeOK, FbTypeOK, OpTypeOK
    <3> QED BY <3>1, OwnerNewFrame
  <2> QED BY <1>1, <2>1, <2>2, <2>3, OwnerQuietSteps DEF Begin
<1>2. ASSUME NEW h \in Handles, Continue(h) PROVE OwnerInv'
  BY <1>2, OwnerQuietSteps, OwnerLastCount, OwnerReturn, OwnerPut DEF Continue
<1>3. ASSUME NEW m \in Msis, Destroy(m) PROVE OwnerInv'
  BY <1>3, OwnerDestroy
<1>4. CASE UNCHANGED vars
  <2>1. UNCHANGED <<users, live, fmsi, musers, inited, torn, mpc, pc, cur, lmsi, linited>>
    BY <1>4 DEF vars, fbVars, msiVars, opVars
  <2>2. \A h \in Handles : PutOwned(h)'
    BY <2>1 DEF IInv, OwnerInv, PutOwned
  <2>3. FrameOwned' /\ \A m \in Msis : MsiOK(m)'
    BY <2>1 DEF IInv, OwnerInv, FrameOwned, MsiOK
  <2>4. OwnerExact'
    BY <2>1 DEF IInv, OwnerInv, OwnerExact, FramesOf, Putting, CreatorRef
  <2> QED BY <2>2, <2>3, <2>4 DEF OwnerInv
<1> QED BY <1>1, <1>2, <1>3, <1>4 DEF Next

LEMMA InitInv == Init => IInv
<1> SUFFICES ASSUME Init PROVE IInv
  OBVIOUS
<1> USE FbAssumption
<1>1. \A h \in Handles : pc[h] = "none" /\ owed[h] = {} /\ stk[h] = <<>> /\ cur[h] = NULL
                         /\ src[h] = NULL
  BY DEF Init
<1>2. TypeOK
  <2>1. 0 \in 0 .. UsersMod - 1
    <3>1. Cardinality({}) < UsersMod /\ Cardinality({}) \in Nat
      BY CountsFinite
    <3> QED BY <3>1
  <2>2. <<>> \in Seq(Fbs)
    OBVIOUS
  <2>3. FbTypeOK /\ MsiTypeOK
    BY <2>1 DEF Init, FbTypeOK, MsiTypeOK
  <2>4. OpTypeOK
    BY <2>2 DEF Init, OpTypeOK, Pcs
  <2> QED BY <2>3, <2>4 DEF TypeOK
<1>3. \A h \in Handles : HandleOK(h)
  BY <1>1 DEF HandleOK, NoneOK, IdleOK, WalkOK, ReleaseOK, GetOK, PcGet, PcFree
<1>4. UsersExact
  <2>1. \A f \in Fbs : {h \in Handles : f \in owed[h]} = {}
    BY <1>1
  <2> QED BY <2>1, FS_EmptySet DEF UsersExact, Init
<1>5. FreeOnce /\ NoLeak
  BY <1>1 DEF FreeOnce, NoLeak, Freeing, Init, PcFree
<1>6. OwnerExact
  <2>1. \A m \in Msis : FramesOf(m) = {} /\ Putting(m) = {} /\ CreatorRef(m) = 1 /\ musers[m] = 1
    BY <1>1 DEF Init, FramesOf, Putting, CreatorRef
  <2>2. Cardinality({}) = 0
    BY FS_EmptySet
  <2> QED BY <2>1, <2>2 DEF OwnerExact
<1>7. OwnerInv
  BY <1>1, <1>6 DEF OwnerInv, FrameOwned, PutOwned, MsiOK, Init, PcFree
<1> QED BY <1>2, <1>3, <1>4, <1>5, <1>7 DEF IInv, FrameInv

(* The invariant holds in every reachable state of every instance: any     *)
(* number of references, frames, pool slots and components.                *)
THEOREM Invariance == Spec => []IInv
<1>1. IInv /\ [Next]_vars => IInv'
  BY FrameStep, OwnerStep DEF IInv
<1> QED BY <1>1, InitInv, PTL DEF Spec

(* All variables of framebuff.c, fbpool.c and msi_put keep their types; in *)
(* particular the uint8 counter of a frame stays in its range.             *)
THEOREM TypeCorrect == Spec => []TypeOK
<1>1. IInv => TypeOK
  BY DEF IInv, FrameInv
<1> QED BY <1>1, Invariance, PTL

(* fb_get / fb_put / fb_clone count exactly: fb->users is the number of    *)
(* references that cover the frame, whatever the interleaving.             *)
THEOREM CountsExact == Spec => []UsersExact
<1>1. IInv => UsersExact
  BY DEF IInv, FrameInv
<1> QED BY <1>1, Invariance, PTL

(* No frame and no pool slot is ever lost by fb_put / fb_free / fbpool_put. *)
THEOREM FramesNotLost == Spec => []NoLeak
<1>1. IInv => NoLeak
  BY DEF IInv, FrameInv
<1> QED BY <1>1, Invariance, PTL

(* A reference covers the whole chain behind its frame. *)
THEOREM ChainsCovered == Spec => []ChainCovered
<1>1. IInv => ChainCovered
  BY DEF IInv, FrameInv, HandleOK, IdleOK, Covers, ChainCovered
<1> QED BY <1>1, Invariance, PTL

(* msi->users counts the creator and the frames in circulation. *)
THEOREM OwnerCounted == Spec => []OwnerExact
<1>1. IInv => OwnerExact
  BY DEF IInv, OwnerInv
<1> QED BY <1>1, Invariance, PTL

(* POST_DESTROY runs at most once, after the last frame has come home. *)
THEOREM OwnerLast == Spec => []OwnerOutlivesFrames
<1>1. ASSUME IInv PROVE OwnerOutlivesFrames
  <2> SUFFICES ASSUME NEW m \in Msis, m \in torn \/ mpc[m] = "postdestroy"
               PROVE  /\ FramesOf(m) = {} /\ Putting(m) = {}
                      /\ ~(m \in torn /\ mpc[m] = "postdestroy")
                      /\ \A h \in Handles : pc[h] = "postdestroy" => lmsi[h] # m
    BY DEF OwnerOutlivesFrames
  <2>1. MsiOK(m) /\ musers[m] = 0
    BY <1>1 DEF IInv, OwnerInv, MsiOK
  <2>2. FramesOf(m) = {} /\ Putting(m) = {}
    BY <1>1, <2>1, OwnerCounts
  <2>3. \A h \in Handles : pc[h] = "postdestroy" => lmsi[h] # m
    BY <1>1 DEF IInv, OwnerInv, PutOwned
  <2> QED BY <2>1, <2>2, <2>3 DEF MsiOK
<1> QED BY <1>1, Invariance, PTL

(* What an operation still reads is covered by a reference, its own or the *)
(* one it copies, or is the frame it is just giving back.                  *)
LEMMA DerefCovered ==
  ASSUME IInv, NEW h \in Handles, NEW f \in Deref(h)
  PROVE  \/ \E k \in Handles : f \in owed[k]
         \/ Freeing(h) /\ cur[h] = f
<1> USE DEF PcGet, PcFree
<1>1. TypeOK /\ \A k \in Handles : HandleOK(k)
  BY DEF IInv, FrameInv
<1>2. HandleOK(h) /\ pc[h] \in Pcs
  BY <1>1 DEF TypeOK, OpTypeOK
<1>3. CASE pc[h] \in PcGet
  <2>1. PICK g \in Handles : g = src[h] /\ pc[g] = "idle"
    BY <1>2, <1>3 DEF HandleOK, GetOK
  <2>2. ref[g] \in owed[g]
    BY <1>1, <2>1 DEF HandleOK, IdleOK, Covers
  <2>3. ref[h] \in owed[h] \/ ref[h] = ref[g]
    BY <1>2, <1>3, <2>1 DEF HandleOK, GetOK, Linking
  <2>4. \A x \in StkSet(h) : x \in owed[g]
    BY <1>2, <1>3, <2>1 DEF HandleOK, GetOK, OnChain, StkSet
  <2>5. cur[h] # NULL => cur[h] \in owed[g]
    BY <1>2, <1>3, <2>1 DEF HandleOK, GetOK, AtCur
  <2> QED BY <1>3, <2>1, <2>2, <2>3, <2>4, <2>5 DEF Deref
<1>4. CASE pc[h] \in {"none", "idle"}
  <2>1. StkSet(h) = {} /\ cur[h] = NULL
    BY <1>2, <1>4 DEF HandleOK, NoneOK, IdleOK, StkSet
  <2> QED BY <1>2, <1>4, <2>1 DEF Deref, HandleOK, IdleOK, Covers
<1>5. CASE pc[h] = "putwalk"
  <2>1. \A x \in StkSet(h) : x \in owed[h]
    BY <1>2, <1>5 DEF HandleOK, WalkOK, OnChain, StkSet
  <2>2. cur[h] # NULL => cur[h] \in owed[h]
    BY <1>2, <1>5 DEF HandleOK, WalkOK, AtCur
  <2> QED BY <1>5, <2>1, <2>2 DEF Deref
<1>6. CASE pc[h] \in {"putfree"} \cup PcFree
  <2>1. StkSet(h) = owed[h] /\ (pc[h] = "putfree" => cur[h] = NULL)
    BY <1>2, <1>6 DEF HandleOK, ReleaseOK
  <2> QED BY <1>6, <2>1 DEF Deref
<1> QED BY <1>2, <1>3, <1>4, <1>5, <1>6 DEF Pcs, PcPut

(* Nobody touches a frame, or the pool's array, after it was given back. *)
THEOREM UseBeforeFree == Spec => []NoUseAfterFree
<1>1. ASSUME IInv PROVE NoUseAfterFree
  <2> SUFFICES ASSUME NEW h \in Handles, NEW f \in Deref(h)
               PROVE  f \in live /\ (PoolMsi \in torn => f \notin PoolFbs)
    BY DEF NoUseAfterFree
  <2> USE FbAssumption
  <2>1. /\ TypeOK /\ UsersExact /\ \A k \in Handles : HandleOK(k)
        /\ FrameOwned /\ MsiOK(PoolMsi)
    BY <1>1 DEF IInv, FrameInv, OwnerInv
  <2>2. CASE \E k \in Handles : f \in owed[k]
    <3>1. f \in live /\ f \in Fbs
      BY <2>1, <2>2 DEF HandleOK, TypeOK, FbTypeOK
    <3>2. users[f] > 0
      BY <2>1, <2>2, <3>1, UsersMeaning
    <3>3. f \in PoolFbs => FramesOf(PoolMsi) # {}
      BY <2>1, <3>1, <3>2 DEF FramesOf, FrameOwned
    <3>4. PoolMsi \in torn => FramesOf(PoolMsi) = {}
      BY <1>1, <2>1, OwnerCounts DEF MsiOK
    <3> QED BY <3>1, <3>3, <3>4
  <2>3. CASE Freeing(h) /\ cur[h] = f
    <3>1. f \in live
      BY <2>1, <2>3 DEF HandleOK, ReleaseOK, Freeing, PcFree
    <3>2. f \in PoolFbs => pc[h] = "freecb"
      BY <2>3 DEF Freeing
    <3> QED BY <1>1, <2>3, <3>1, <3>2, PoolAlive
  <2> QED BY <1>1, <2>2, <2>3, DerefCovered
<1> QED BY <1>1, Invariance, PTL
=============================================================================
