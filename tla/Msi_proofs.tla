------------------------------ MODULE Msi_proofs ------------------------------
(***************************************************************************)
(* Proofs about Msi.  The types hold for any threads.  What the component  *)
(* graph promises holds when one thread makes all calls (OneThread): since *)
(* msi_put does not take g_MSI.lock, a second thread can find or create a  *)
(* component between the steps that free it.                               *)
(***************************************************************************)
EXTENDS Msi, FiniteSetTheorems, SequenceTheorems, TLAPS

OneThread == \E t : Threads = {t}

(* The records of a stack, and how many of them are in D. *)
Recs(s) == {s[i] : i \in 1 .. Len(s)}
Num(s, D) == Cardinality({i \in 1 .. Len(s) : s[i] \in D})
One(b) == IF b THEN 1 ELSE 0

(* For any threads: a call works on a component, and a frame that is being *)
(* output or lies in a queue has an owner.                                 *)
RecordOK(r) ==
    /\ r.op # "unlock" => r.obj \in Objs
    /\ r.op \in {"walk", "trans"} /\ r.fb # NULL => owner[r.fb] # NULL
CallInv == \A t \in Threads : \A r \in Recs(stk[t]) : RecordOK(r)
FrameInv == \A f \in Frames : queue[f] # NULL => owner[f] # NULL

(* The records about o: references, an msi_put past the last one (one that *)
(* is going to free o), msi_free, an entry cleared and not yet counted.    *)
Ref(o)   == {r \in Record : r.op \in RefOps /\ r.obj = o}
Last(o)  == {r \in Record : r.op \in LastOps /\ r.obj = o}
Last0(o) == {r \in Record : r.op \in LastOps /\ r.obj = o /\ r.n = 0}
Free(o)  == {r \in Record : r.op = "free" /\ r.obj = o}
Unref(o) == {r \in Record : r.op = "unref" /\ r.obj = o}

(* The output entries that point to o, the frames that o owns. *)
Ptrs(f, o) == {e \in Objs \X Outs : f[e[1]][e[2]] = o}
Owned(w, o) == {f \in Frames : w[f] = o}

RefsInv(t) == \A o \in Objs :
    users[o] = made[o] + found[o] + Cardinality(Owned(owner, o)) + Num(stk[t], Ref(o))
BoundInv(t) == \A o \in Objs :
    bound[o] = Cardinality(Ptrs(outs, o)) + Num(stk[t], Unref(o))

(* What msi_put and msi_unbind sampled is still so when they use it: these *)
(* records are on top of the stack.                                        *)
Sampled == {"dec", "unref"}
SampleInv(t) ==
    \A b \in Seq(Record), r \in Record : stk[t] = Append(b, r) =>
        /\ \A q \in Recs(b) : q.op \notin Sampled
        /\ r.op = "dec" => r.n = bound[r.obj] /\ r.k = inited[r.obj]
        /\ r.op = "unref" => r.n = users[r.obj]

(* msi->inited counts the owners; only an owned component is enabled, and  *)
(* the one whose frames are being output stays owned.                      *)
OwnedInv(t) ==
    /\ inited = made
    /\ \A o \in enable : made[o] > 0
    /\ \A r \in Recs(stk[t]) : r.op = "walk" => made[r.obj] > 0

(* Past the last reference nobody gets another one; an msi_put that is     *)
(* going to free the component is the only one, and is still entitled to.  *)
LastInv(t) ==
    \A o \in Objs :
        /\ Num(stk[t], Last(o)) > 0 => users[o] = 0
        /\ Num(stk[t], Last0(o)) > 0 => bound[o] = 0 /\ o \in list
        /\ Num(stk[t], Last0(o)) <= 1

(* A component is on the list, or off it while one activation of msi_free  *)
(* is freeing it; nobody refers to it then.                                *)
FreeInv(t) ==
    /\ list \subseteq alive
    /\ \A o \in Objs :
        /\ o \in alive /\ o \notin list <=> Num(stk[t], Free(o)) > 0
        /\ Num(stk[t], Free(o)) <= 1
        /\ Num(stk[t], Free(o)) > 0 => users[o] = 0 /\ bound[o] = 0

(* A component marked as being destroyed, or with a frame in its queue,    *)
(* has references left, or is on its way through msi_put.                  *)
DeletedInv(t) ==
    \A o \in deleted :
        /\ made[o] = 0
        /\ users[o] > 0 \/ Num(stk[t], Last(o)) > 0 \/ Num(stk[t], Free(o)) > 0
QueueInv(t) ==
    \A f \in Frames : queue[f] # NULL =>
        users[queue[f]] > 0 \/ Num(stk[t], Last(queue[f])) > 0

(* Memory that os_zalloc may return is not in use. *)
ZeroedInv ==
    \A o \in Objs \ alive :
        /\ users[o] = 0 /\ bound[o] = 0
        /\ o \notin enable \cup deleted
        /\ \A i \in Outs : outs[o][i] = NULL

NameInv ==
    /\ \A o \in list : name[o] \in Names
    /\ \A o, p \in list : name[o] = name[p] => o = p

ThreadInv(t) ==
    /\ RefsInv(t) /\ BoundInv(t) /\ SampleInv(t) /\ OwnedInv(t)
    /\ LastInv(t) /\ FreeInv(t) /\ DeletedInv(t) /\ QueueInv(t)

GraphInv ==
    /\ TypeOK /\ CallInv /\ FrameInv /\ ZeroedInv /\ NameInv
    /\ \A t \in Threads : ThreadInv(t)

-----------------------------------------------------------------------------
(* Helpers. *)

(* The first entry of a set of entries is one of them. *)
LEMMA FirstIn ==
  ASSUME NEW S, S \subseteq Outs, S # {}
  PROVE  First(S) \in S
<1>1. S \subseteq Nat
  BY MsiAssumption DEF Outs
<1>2. PICK x \in S : \A y \in S : ~ (<<y, x>> \in OpToRel(<, Nat))
  BY <1>1, NatLessThanWellFounded, WFMin
<1>3. ASSUME NEW y \in S PROVE x <= y
  <2>1. x \in Nat /\ y \in Nat
    BY <1>1
  <2>2. y < x => <<y, x>> \in OpToRel(<, Nat)
    BY <2>1 DEF OpToRel
  <2>3. ~ (y < x)
    BY <1>2, <2>2
  <2> QED BY <2>1, <2>3
<1> QED BY <1>3 DEF First

(* msi_bind takes a free entry of l, or changes nothing. *)
Binding(l, o) ==
    \/ UNCHANGED <<bound, outs>>
    \/ \E i \in Outs :
        /\ outs[l][i] = NULL
        /\ bound' = [bound EXCEPT ![o] = @ + 1]
        /\ outs' = [outs EXCEPT ![l][i] = o]

LEMMA BindIs ==
  ASSUME NEW l, NEW o, msi_bind(l, o)
  PROVE  Binding(l, o)
<1>1. CASE msi_bound(l, NULL) # {}
  <2>1. msi_bound(l, NULL) \subseteq Outs
    BY DEF msi_bound
  <2>2. First(msi_bound(l, NULL)) \in msi_bound(l, NULL)
    BY <1>1, <2>1, FirstIn
  <2>3. First(msi_bound(l, NULL)) \in Outs /\ outs[l][First(msi_bound(l, NULL))] = NULL
    BY <2>2 DEF msi_bound
  <2> QED BY <2>3 DEF msi_bind, Binding
<1>2. CASE msi_bound(l, NULL) = {}
  BY <1>2 DEF msi_bind, Binding
<1> QED BY <1>1, <1>2

(* Somebody points to o only if the pointers to o are counted. *)
LEMMA PtrsCount ==
  ASSUME NEW f, NEW o
  PROVE  /\ IsFiniteSet(Ptrs(f, o)) /\ Cardinality(Ptrs(f, o)) \in Nat
         /\ \A l \in Objs, i \in Outs : f[l][i] = o => Cardinality(Ptrs(f, o)) > 0
<1>1. IsFiniteSet(Objs \X Outs)
  <2>1. IsFiniteSet(Outs)
    BY MsiAssumption, FS_Interval DEF Outs
  <2> QED BY <2>1, MsiAssumption, FS_Product
<1>2. IsFiniteSet(Ptrs(f, o))
  BY <1>1, FS_Subset DEF Ptrs
<1>3. Cardinality(Ptrs(f, o)) \in Nat /\ (Cardinality(Ptrs(f, o)) = 0 <=> Ptrs(f, o) = {})
  BY <1>2, FS_CardinalityType, FS_EmptySet
<1>4. ASSUME NEW l \in Objs, NEW i \in Outs, f[l][i] = o PROVE Ptrs(f, o) # {}
  <2>1. <<l, i>> \in Ptrs(f, o)
    BY <1>4 DEF Ptrs
  <2> QED BY <2>1
<1> QED BY <1>2, <1>3, <1>4

(* Writing an output entry moves one pointer. *)
Written(f, g, l, i, b) ==
    \A p \in Objs, j \in Outs : g[p][j] = IF p = l /\ j = i THEN b ELSE f[p][j]

LEMMA SetOut ==
  ASSUME NEW f, NEW g, NEW l \in Objs, NEW i \in Outs, NEW b, Written(f, g, l, i, b), NEW o
  PROVE  Cardinality(Ptrs(g, o)) = Cardinality(Ptrs(f, o)) - One(f[l][i] = o) + One(b = o)
<1> DEFINE A == Ptrs(f, o)
           B == Ptrs(g, o)
           e == <<l, i>>
<1>2. IsFiniteSet(A) /\ IsFiniteSet(B)
  BY PtrsCount
<1>3. (e \in A <=> f[l][i] = o) /\ (e \in B <=> b = o)
  BY DEF Ptrs, Written
<1>4. A \ {e} = B \ {e}
  BY DEF Ptrs, Written
<1>5. Cardinality(A) \in Nat
  BY <1>2, FS_CardinalityType
<1> HIDE DEF A, B, e
<1>6. ASSUME NEW S, IsFiniteSet(S)
      PROVE  /\ Cardinality(S) = Cardinality(S \ {e}) + One(e \in S)
             /\ Cardinality(S \ {e}) \in Nat
  <2>0. IsFiniteSet(S \ {e}) /\ Cardinality(S) \in Nat /\ Cardinality(S \ {e}) \in Nat
    BY <1>6, FS_Subset, FS_CardinalityType
  <2>1. CASE e \in S
    <3>1. Cardinality(S \ {e}) = Cardinality(S) - 1
      BY <1>6, <2>1, FS_RemoveElement
    <3> QED BY <2>0, <2>1, <3>1 DEF One
  <2>2. CASE e \notin S
    <3>1. S \ {e} = S
      BY <2>2
    <3>2. Cardinality(S \ {e}) = Cardinality(S)
      BY <3>1
    <3> QED BY <2>0, <2>2, <3>2 DEF One
  <2> QED BY <2>1, <2>2
<1>7. /\ Cardinality(A) = Cardinality(A \ {e}) + One(f[l][i] = o)
      /\ Cardinality(B) = Cardinality(A \ {e}) + One(b = o)
      /\ Cardinality(A \ {e}) \in Nat
  BY <1>2, <1>3, <1>4, <1>6
<1>8. Cardinality(B) = Cardinality(A) - One(f[l][i] = o) + One(b = o)
  BY <1>5, <1>7 DEF One
<1> QED BY <1>8 DEF A, B

(* The frames of one owner, when a frame changes hands. *)
LEMMA OwnedCount ==
  ASSUME NEW w, NEW o
  PROVE  /\ IsFiniteSet(Owned(w, o)) /\ Cardinality(Owned(w, o)) \in Nat
         /\ \A f \in Frames : w[f] = o => Cardinality(Owned(w, o)) > 0
<1>1. IsFiniteSet(Owned(w, o))
  BY MsiAssumption, FS_Subset DEF Owned
<1>2. Cardinality(Owned(w, o)) \in Nat /\ (Cardinality(Owned(w, o)) = 0 <=> Owned(w, o) = {})
  BY <1>1, FS_CardinalityType, FS_EmptySet
<1>3. \A f \in Frames : w[f] = o => Owned(w, o) # {}
  BY DEF Owned
<1> QED BY <1>1, <1>2, <1>3

Given(w, v, f, p) == \A g \in Frames : v[g] = IF g = f THEN p ELSE w[g]

LEMMA SetOwner ==
  ASSUME NEW w, NEW v, NEW f \in Frames, NEW p, Given(w, v, f, p), NEW o
  PROVE  Cardinality(Owned(v, o)) = Cardinality(Owned(w, o)) - One(w[f] = o) + One(p = o)
<1> DEFINE A == Owned(w, o)
           B == Owned(v, o)
<1>1. IsFiniteSet(A) /\ IsFiniteSet(B) /\ Cardinality(A) \in Nat /\ Cardinality(B) \in Nat
  BY OwnedCount
<1>2. (f \in A <=> w[f] = o) /\ (f \in B <=> p = o) /\ A \ {f} = B \ {f}
  BY DEF Owned, Given
<1> HIDE DEF A, B
<1>3. /\ Cardinality(A \ {f}) = IF w[f] = o THEN Cardinality(A) - 1 ELSE Cardinality(A)
      /\ Cardinality(B \ {f}) = IF p = o THEN Cardinality(B) - 1 ELSE Cardinality(B)
  BY <1>1, <1>2, FS_RemoveElement
<1>4. Cardinality(A \ {f}) = Cardinality(B \ {f})
  BY <1>2
<1>5. Cardinality(B) = Cardinality(A) - One(w[f] = o) + One(p = o)
  BY <1>1, <1>3, <1>4 DEF One
<1> QED BY <1>5 DEF A, B

-----------------------------------------------------------------------------
(* Stacks of records. *)

LEMMA NumIs ==
  ASSUME NEW s \in Seq(Record), NEW D
  PROVE  /\ Num(s, D) \in Nat
         /\ Num(s, D) > 0 <=> \E r \in Recs(s) : r \in D
<1> DEFINE S == {i \in 1 .. Len(s) : s[i] \in D}
<1>1. IsFiniteSet(1 .. Len(s))
  BY FS_Interval
<1>2. IsFiniteSet(S)
  BY <1>1, FS_Subset
<1>3. Cardinality(S) \in Nat /\ (Cardinality(S) = 0 <=> S = {})
  BY <1>2, FS_CardinalityType, FS_EmptySet
<1>4. S # {} <=> \E r \in Recs(s) : r \in D
  BY DEF Recs
<1> QED BY <1>3, <1>4 DEF Num

LEMMA NumSub ==
  ASSUME NEW s \in Seq(Record), NEW D, NEW E, D \subseteq E
  PROVE  Num(s, D) <= Num(s, E)
<1> DEFINE S == {i \in 1 .. Len(s) : s[i] \in D}
           T == {i \in 1 .. Len(s) : s[i] \in E}
<1>1. IsFiniteSet(1 .. Len(s))
  BY FS_Interval
<1>2. IsFiniteSet(T)
  BY <1>1, FS_Subset
<1>3. S \in SUBSET T
  OBVIOUS
<1>4. Cardinality(S) <= Cardinality(T)
  BY <1>2, <1>3, FS_Subset
<1> QED BY <1>4 DEF Num

(* The empty stack, and a stack with one record more. *)
LEMMA NoRecords == Recs(<<>>) = {} /\ \A D : Num(<<>>, D) = 0
<1>1. Recs(<<>>) = {}
  BY DEF Recs
<1>2. ASSUME NEW D PROVE Num(<<>>, D) = 0
  <2>1. {i \in 1 .. Len(<<>>) : <<>>[i] \in D} = {}
    OBVIOUS
  <2>2. Cardinality({i \in 1 .. Len(<<>>) : <<>>[i] \in D}) = 0
    BY <2>1, FS_EmptySet
  <2> QED BY <2>2 DEF Num
<1> QED BY <1>1, <1>2

LEMMA OneMore ==
  ASSUME NEW b \in Seq(Record), NEW r \in Record
  PROVE  /\ Append(b, r) \in Seq(Record) /\ Append(b, r) # <<>>
         /\ Recs(Append(b, r)) = Recs(b) \cup {r}
         /\ \A D : Num(Append(b, r), D) = Num(b, D) + One(r \in D)
<1> DEFINE s == Append(b, r)
<1>1. /\ s \in Seq(Record) /\ Len(s) = Len(b) + 1 /\ Len(b) \in Nat
      /\ s[Len(s)] = r /\ \A i \in 1 .. Len(b) : s[i] = b[i]
  OBVIOUS
<1>2. Recs(s) = Recs(b) \cup {r}
  <2> HIDE DEF s
  <2>1. 1 .. Len(s) = (1 .. Len(b)) \cup {Len(s)}
    BY <1>1
  <2> QED BY <1>1, <2>1 DEF Recs
<1>3. ASSUME NEW D PROVE Num(s, D) = Num(b, D) + One(r \in D)
  <2> HIDE DEF s
  <2> DEFINE S == {i \in 1 .. Len(s) : s[i] \in D}
             B == {i \in 1 .. Len(b) : b[i] \in D}
  <2>1. IsFiniteSet(1 .. Len(b))
    BY <1>1, FS_Interval
  <2>2. IsFiniteSet(B) /\ Cardinality(B) \in Nat
    BY <2>1, FS_Subset, FS_CardinalityType
  <2>3. CASE r \in D
    <3>1. S = B \cup {Len(s)} /\ Len(s) \notin B
      BY <1>1, <2>3
    <3> HIDE DEF S, B
    <3>2. Cardinality(S) = Cardinality(B) + 1
      BY <2>2, <3>1, FS_AddElement
    <3> QED BY <2>3, <3>2 DEF Num, One, S, B
  <2>4. CASE r \notin D
    <3>1. S = B
      BY <1>1, <2>4
    <3> HIDE DEF S, B
    <3>2. Cardinality(S) = Cardinality(B) + 0
      BY <2>2, <3>1
    <3> QED BY <2>4, <3>2 DEF Num, One, S, B
  <2> QED BY <2>3, <2>4
<1>4. s # <<>>
  BY <1>1
<1> QED BY <1>1, <1>2, <1>3, <1>4

(* A stack that is not empty is its top on the rest. *)
LEMMA TopIs ==
  ASSUME TypeOK, NEW t \in Threads, stk[t] # <<>>
  PROVE  /\ Below(t) \in Seq(Record) /\ Top(t) \in Record
         /\ stk[t] = Append(Below(t), Top(t))
         /\ Recs(stk[t]) = Recs(Below(t)) \cup {Top(t)}
         /\ \A D : Num(stk[t], D) = Num(Below(t), D) + One(Top(t) \in D)
<1>1. stk[t] \in Seq(Record) /\ Len(stk[t]) \in Nat \ {0}
  BY DEF TypeOK
<1>2. /\ Below(t) \in Seq(Record) /\ Top(t) \in Record /\ Len(Below(t)) = Len(stk[t]) - 1
      /\ \A i \in 1 .. Len(Below(t)) : Below(t)[i] = stk[t][i]
  BY <1>1 DEF Below, Top
<1>3. stk[t] = Append(Below(t), Top(t))
  <2>1. Append(Below(t), Top(t)) \in Seq(Record)
    BY <1>2
  <2>2. Len(Append(Below(t), Top(t))) = Len(stk[t])
    BY <1>1, <1>2
  <2>3. ASSUME NEW i \in 1 .. Len(stk[t]) PROVE Append(Below(t), Top(t))[i] = stk[t][i]
    BY <1>1, <1>2 DEF Top
  <2> QED BY <1>1, <2>1, <2>2, <2>3
<1> QED BY <1>2, <1>3, OneMore

-----------------------------------------------------------------------------
(* Types, for any threads. *)

TypeInv == TypeOK /\ CallInv /\ FrameInv

(* A new stack for t. *)
LEMMA NewStack ==
  ASSUME TypeOK, NEW t \in Threads, NEW S \in Seq(Record), stk' = [stk EXCEPT ![t] = S],
         \A r \in Recs(S) : RecordOK(r)',
         \A s \in Threads \ {t} : \A r \in Recs(stk[s]) : RecordOK(r)'
  PROVE  stk' \in [Threads -> Seq(Record)] /\ CallInv'
<1>1. stk \in [Threads -> Seq(Record)]
  BY DEF TypeOK
<1>2. stk' \in [Threads -> Seq(Record)] /\ stk'[t] = S
  BY <1>1
<1>3. \A s \in Threads \ {t} : stk'[s] = stk[s]
  BY <1>1
<1>4. ASSUME NEW s \in Threads PROVE \A r \in Recs(stk'[s]) : RecordOK(r)'
  BY <1>2, <1>3
<1> QED BY <1>2, <1>4 DEF CallInv

(* The records of all threads stay right when no frame is given up, or     *)
(* when they do not carry the one that is.                                 *)
LEMMA StillOK ==
  ASSUME TypeInv, NEW r \in Record, RecordOK(r),
         \/ owner' = owner
         \/ \E f \in Frames, o \in Objs : owner' = [owner EXCEPT ![f] = o]
         \/ \E f \in Frames : owner' = [owner EXCEPT ![f] = NULL] /\ ~Carries(r, f)
  PROVE  RecordOK(r)'
<1>1. r.fb \in Frames \cup {NULL} /\ owner \in [Frames -> Objs \cup {NULL}]
  BY DEF TypeInv, TypeOK, Record
<1>2. CASE owner' = owner
  BY <1>2 DEF RecordOK
<1>3. ASSUME NEW f \in Frames, NEW o \in Objs, owner' = [owner EXCEPT ![f] = o]
      PROVE  RecordOK(r)'
  <2>1. o # NULL
    BY MsiAssumption
  <2> QED BY <1>1, <1>3, <2>1 DEF RecordOK
<1>4. ASSUME NEW f \in Frames, owner' = [owner EXCEPT ![f] = NULL], ~Carries(r, f)
      PROVE  RecordOK(r)'
  <2>1. r.op \in {"walk", "trans"} => r.fb # f
    BY <1>4 DEF Carries
  <2> QED BY <1>1, <1>4, <2>1 DEF RecordOK
<1> QED BY <1>2, <1>3, <1>4

LEMMA RecsOK ==
  ASSUME TypeInv, NEW s \in Threads
  PROVE  /\ stk[s] \in Seq(Record)
         /\ \A r \in Recs(stk[s]) : r \in Record /\ RecordOK(r)
<1>1. stk[s] \in Seq(Record)
  BY DEF TypeInv, TypeOK
<1>2. \A i \in 1 .. Len(stk[s]) : stk[s][i] \in Record
  BY <1>1
<1> QED BY <1>1, <1>2 DEF TypeInv, CallInv, Recs

(* The record a step works on. *)
LEMMA TopOK ==
  ASSUME TypeInv, NEW t \in Threads, NEW ops, At(t, ops)
  PROVE  /\ stk[t] # <<>> /\ Top(t).op \in ops /\ Top(t) \in Record /\ RecordOK(Top(t))
         /\ Top(t) \in Recs(stk[t])
         /\ Below(t) \in Seq(Record) /\ Recs(stk[t]) = Recs(Below(t)) \cup {Top(t)}
         /\ stk[t] = Append(Below(t), Top(t))
         /\ \A D : Num(stk[t], D) = Num(Below(t), D) + One(Top(t) \in D)
<1>1. stk[t] # <<>> /\ Top(t).op \in ops
  BY DEF At
<1>2. /\ Below(t) \in Seq(Record) /\ Top(t) \in Record
      /\ stk[t] = Append(Below(t), Top(t))
      /\ Recs(stk[t]) = Recs(Below(t)) \cup {Top(t)}
      /\ \A D : Num(stk[t], D) = Num(Below(t), D) + One(Top(t) \in D)
  BY <1>1, TopIs DEF TypeInv
<1>3. RecordOK(Top(t))
  BY <1>2, RecsOK
<1> QED BY <1>1, <1>2, <1>3

(* A step of t leaves or takes its top record, and puts up to two on it. *)
Grown(t, b, S) ==
    /\ b \in Seq(Record) /\ Recs(b) \subseteq Recs(stk[t])
    /\ \/ S = b
       \/ \E r \in Record : RecordOK(r)' /\ S = Append(b, r)
       \/ \E r, q \in Record : RecordOK(r)' /\ RecordOK(q)' /\ S = Append(Append(b, r), q)

(* The frame f is given up; no call has it but the record t drops. *)
Dropped(t, b, f) ==
    /\ owner' = [owner EXCEPT ![f] = NULL]
    /\ \A s \in Threads \ {t} : \A r \in Recs(stk[s]) : ~Carries(r, f)
    /\ \A r \in Recs(b) : ~Carries(r, f)

LEMMA StackTypes ==
  ASSUME TypeInv, NEW t \in Threads, NEW b, NEW S, Grown(t, b, S), stk' = [stk EXCEPT ![t] = S],
         \/ owner' = owner
         \/ \E f \in Frames, o \in Objs : owner' = [owner EXCEPT ![f] = o]
         \/ \E f \in Frames : Dropped(t, b, f)
  PROVE  stk' \in [Threads -> Seq(Record)] /\ CallInv'
<1>1. ASSUME NEW s \in Threads \ {t}, NEW r \in Recs(stk[s]) PROVE RecordOK(r)'
  <2>1. r \in Record /\ RecordOK(r)
    BY <1>1, RecsOK
  <2> QED BY <2>1, StillOK DEF Dropped
<1>2. ASSUME NEW r \in Recs(b) PROVE RecordOK(r)'
  <2>1. r \in Record /\ RecordOK(r)
    BY <1>2, RecsOK DEF Grown
  <2> QED BY <1>2, <2>1, StillOK DEF Dropped
<1>3. b \in Seq(Record) /\ TypeOK
  BY DEF Grown, TypeInv
<1>4. CASE S = b
  BY <1>1, <1>2, <1>3, <1>4, NewStack
<1>5. ASSUME NEW r \in Record, RecordOK(r)', S = Append(b, r)
      PROVE  stk' \in [Threads -> Seq(Record)] /\ CallInv'
  <2>1. S \in Seq(Record) /\ Recs(S) = Recs(b) \cup {r}
    BY <1>3, <1>5, OneMore
  <2> QED BY <1>1, <1>2, <1>3, <1>5, <2>1, NewStack
<1>6. ASSUME NEW r \in Record, NEW q \in Record, RecordOK(r)', RecordOK(q)',
             S = Append(Append(b, r), q)
      PROVE  stk' \in [Threads -> Seq(Record)] /\ CallInv'
  <2>1. Append(b, r) \in Seq(Record) /\ Recs(Append(b, r)) = Recs(b) \cup {r}
    BY <1>3, OneMore
  <2>2. S \in Seq(Record) /\ Recs(S) = Recs(b) \cup {r} \cup {q}
    BY <1>6, <2>1, OneMore
  <2> QED BY <1>1, <1>2, <1>3, <1>6, <2>2, NewStack
<1> QED BY <1>4, <1>5, <1>6 DEF Grown

LEMMA CallKept ==
  ASSUME TypeInv, UNCHANGED <<stk, owner>>
  PROVE  stk' \in [Threads -> Seq(Record)] /\ CallInv'
BY DEF TypeInv, TypeOK, CallInv, RecordOK

(* The steps of a call in progress, in terms of stacks. *)
LEMMA PutReadIs ==
  ASSUME TypeInv, NEW t \in Threads, put_read(t)
  PROVE  /\ At(t, {"pre", "trans", "put"}) /\ Top(t).obj \in Objs
         /\ \E r \in Record :
                /\ r.op = "dec" /\ r.obj = Top(t).obj /\ r.fb = NULL
                /\ r.n = bound[r.obj] /\ r.k = inited[r.obj]
                /\ stk' = [stk EXCEPT ![t] = Append(Below(t), r)]
         /\ UNCHANGED <<objVars, fbVars, refVars>>
<1>1. At(t, {"pre", "trans", "put"})
  BY DEF put_read
<1>2. Top(t).obj \in Objs
  BY <1>1, TopOK DEF RecordOK
<1>3. bound[Top(t).obj] \in Nat /\ inited[Top(t).obj] \in Nat
  BY <1>2 DEF TypeInv, TypeOK, CountType
<1> DEFINE r == [Rec("dec", Top(t).obj) EXCEPT !.n = bound[Top(t).obj], !.k = inited[Top(t).obj]]
<1>4. /\ r \in Record /\ r.op = "dec" /\ r.obj = Top(t).obj /\ r.fb = NULL
      /\ r.n = bound[Top(t).obj] /\ r.k = inited[Top(t).obj]
  BY <1>2, <1>3 DEF Rec, Record, RefOps
<1>5. stk' = [stk EXCEPT ![t] = Append(Below(t), r)] /\ UNCHANGED <<objVars, fbVars, refVars>>
  BY DEF put_read, Turn
<1> HIDE DEF r
<1> QED BY <1>1, <1>2, <1>4, <1>5

LEMMA PutDecIs ==
  ASSUME TypeInv, NEW t \in Threads, put_dec(t)
  PROVE  /\ At(t, {"dec"}) /\ Top(t).obj \in Objs
         /\ users' = [users EXCEPT ![Top(t).obj] = Dec(@)]
         /\ IF Dec(users[Top(t).obj]) = 0 /\ Top(t).k = 0
            THEN \E r \in Record :
                    /\ r.op = "post" /\ r.obj = Top(t).obj /\ r.n = Top(t).n /\ r.fb = NULL
                    /\ stk' = [stk EXCEPT ![t] = Append(Below(t), r)]
            ELSE stk' = [stk EXCEPT ![t] = Below(t)]
         /\ UNCHANGED <<graphVars, inited, deleted, enable, fbVars, refVars>>
<1>1. At(t, {"dec"})
  BY DEF put_dec
<1>2. Top(t).obj \in Objs /\ Top(t).n \in Nat
  BY <1>1, TopOK DEF RecordOK, Record
<1> DEFINE r == [Rec("post", Top(t).obj) EXCEPT !.n = Top(t).n]
<1>3. r \in Record /\ r.op = "post" /\ r.obj = Top(t).obj /\ r.n = Top(t).n /\ r.fb = NULL
  BY <1>2 DEF Rec, Record, LastOps
<1>4. /\ users' = [users EXCEPT ![Top(t).obj] = Dec(@)]
      /\ IF Dec(users[Top(t).obj]) = 0 /\ Top(t).k = 0
         THEN stk' = [stk EXCEPT ![t] = Append(Below(t), r)]
         ELSE stk' = [stk EXCEPT ![t] = Below(t)]
      /\ UNCHANGED <<graphVars, inited, deleted, enable, fbVars, refVars>>
  BY DEF put_dec, Turn, Pop
<1> HIDE DEF r
<1> QED BY <1>1, <1>2, <1>3, <1>4

(* msi_put, when it was the last one: fbq_destory puts frame f. *)
LEMMA PutDrainIs ==
  ASSUME TypeInv, NEW t \in Threads, NEW f \in Frames, put_drain(t, f)
  PROVE  /\ At(t, LastOps) /\ Top(t).obj \in Objs /\ queue[f] = Top(t).obj
         /\ queue' = [queue EXCEPT ![f] = NULL]
         /\ \E r \in Record :
              /\ r.op = "drain" /\ r.obj = Top(t).obj /\ r.n = Top(t).n
              /\ \/ stk' = [stk EXCEPT ![t] = Append(Below(t), r)] /\ owner' = owner
                 \/ /\ Dropped(t, stk[t], f)
                    /\ owner[f] \in Objs
                    /\ \E q \in Record :
                        /\ q.op = "put" /\ q.obj = owner[f]
                        /\ stk' = [stk EXCEPT ![t] = Append(Append(Below(t), r), q)]
         /\ UNCHANGED <<objVars, refVars>>
<1>1. At(t, LastOps) /\ queue[f] = Top(t).obj /\ queue' = [queue EXCEPT ![f] = NULL]
  BY DEF put_drain
<1>2. Top(t) \in Record /\ Top(t).obj \in Objs
  BY <1>1, TopOK DEF RecordOK, LastOps
<1> DEFINE r == [Top(t) EXCEPT !.op = "drain"]
           q == Rec("put", owner[f])
<1>3. r \in Record /\ r.op = "drain" /\ r.obj = Top(t).obj /\ r.n = Top(t).n
  BY <1>2 DEF Record, LastOps
<1>4. owner[f] \in Objs
  <2>1. queue[f] # NULL /\ owner[f] \in Objs \cup {NULL}
    BY <1>1, <1>2, MsiAssumption DEF TypeInv, TypeOK
  <2> QED BY <2>1 DEF TypeInv, FrameInv
<1>5. q \in Record /\ q.op = "put" /\ q.obj = owner[f]
  BY <1>4 DEF Rec, Record, RefOps
<1>6. /\ \/ stk' = [stk EXCEPT ![t] = Append(Below(t), r)] /\ owner' = owner
         \/ /\ ~Walked(f) /\ owner' = [owner EXCEPT ![f] = NULL]
            /\ stk' = [stk EXCEPT ![t] = Append(Append(Below(t), r), q)]
      /\ UNCHANGED <<objVars, refVars>>
  BY DEF put_drain
<1>7. ~Walked(f) => \A s \in Threads : \A x \in Recs(stk[s]) : ~Carries(x, f)
  BY DEF Walked, Recs
<1> HIDE DEF r, q
<1> QED BY <1>1, <1>2, <1>3, <1>4, <1>5, <1>6, <1>7 DEF Dropped

LEMMA FreeRec ==
  ASSUME NEW t \in Threads, NEW o \in Objs, msi_free(t, o)
  PROVE  /\ list' = list \ {o}
         /\ \E r \in Record :
              /\ r.op = "free" /\ r.obj = o
              /\ stk' = [stk EXCEPT ![t] = Append(Below(t), r)]
<1> DEFINE r == Rec("free", o)
<1>1. r \in Record /\ r.op = "free" /\ r.obj = o
  BY DEF Rec, Record
<1>2. list' = list \ {o} /\ stk' = [stk EXCEPT ![t] = Append(Below(t), r)]
  BY DEF msi_free, msi_list_del, Turn
<1> HIDE DEF r
<1> QED BY <1>1, <1>2

LEMMA PutPostIs ==
  ASSUME TypeInv, NEW t \in Threads, put_post(t)
  PROVE  /\ At(t, LastOps) /\ Top(t).obj \in Objs /\ \A f \in Frames : queue[f] # Top(t).obj
         /\ \/ /\ Top(t).n = 0 /\ list' = list \ {Top(t).obj} /\ deleted' = deleted
               /\ \E r \in Record :
                    /\ r.op = "free" /\ r.obj = Top(t).obj
                    /\ stk' = [stk EXCEPT ![t] = Append(Below(t), r)]
            \/ /\ Top(t).n # 0 /\ list' = list /\ deleted' = deleted \ {Top(t).obj}
               /\ stk' = [stk EXCEPT ![t] = Below(t)]
         /\ UNCHANGED <<alive, name, bound, outs, users, inited, enable, fbVars, refVars>>
<1>1. At(t, LastOps) /\ \A f \in Frames : queue[f] # Top(t).obj
  BY DEF put_post
<1>2. Top(t).obj \in Objs
  BY <1>1, TopOK DEF RecordOK, LastOps
<1>3. CASE Top(t).n = 0
  <2>1. msi_free(t, Top(t).obj) /\ deleted' = deleted
    BY <1>3 DEF put_post
  <2> QED BY <1>1, <1>2, <1>3, <2>1, FreeRec DEF put_post
<1>4. CASE Top(t).n # 0
  BY <1>1, <1>2, <1>4 DEF put_post, Pop
<1> QED BY <1>3, <1>4

(* msi_unbind takes one more entry of the component that is being freed,   *)
(* or frees it.                                                            *)
Freed(t, o) ==
    /\ \A i \in Outs : outs[o][i] = NULL
    /\ alive' = alive \ {o} /\ deleted' = deleted \ {o} /\ enable' = enable \ {o}
    /\ name' = [name EXCEPT ![o] = NULL]
    /\ stk' = [stk EXCEPT ![t] = Below(t)]
    /\ outs' = outs

Cut(t, o, i) ==
    /\ outs[o][i] \in Objs
    /\ outs' = [outs EXCEPT ![o][i] = NULL]
    /\ \E r \in Record :
        /\ r.op = "unref" /\ r.obj = outs[o][i] /\ r.n = users[outs[o][i]]
        /\ stk' = [stk EXCEPT ![t] = Append(stk[t], r)]
    /\ UNCHANGED <<alive, deleted, enable, name>>

LEMMA UnbindIs ==
  ASSUME TypeInv, NEW t \in Threads, msi_unbind(t)
  PROVE  /\ At(t, {"free"}) /\ Top(t).obj \in Objs
         /\ Freed(t, Top(t).obj) \/ \E i \in Outs : Cut(t, Top(t).obj, i)
         /\ UNCHANGED <<list, users, bound, inited, fbVars, refVars>>
<1> DEFINE o == Top(t).obj
           set == {i \in Outs : outs[o][i] # NULL}
<1>1. At(t, {"free"}) /\ UNCHANGED <<list, users, bound, inited, fbVars, refVars>>
  BY DEF msi_unbind
<1>2. o \in Objs
  BY <1>1, TopOK DEF RecordOK
<1>3. CASE set = {}
  <2>1. \A i \in Outs : outs[o][i] = NULL
    BY <1>3
  <2>2. Freed(t, o)
    BY <1>3, <2>1 DEF msi_unbind, Freed, Pop
  <2> QED BY <1>1, <1>2, <2>2
<1>4. CASE set # {}
  <2>1. First(set) \in set
    BY <1>4, FirstIn
  <2> DEFINE out == outs[o][First(set)]
             r == [Rec("unref", out) EXCEPT !.n = users[out]]
  <2>2. First(set) \in Outs /\ out \in Objs
    <3>1. First(set) \in Outs /\ out # NULL
      BY <2>1
    <3>2. outs[o] \in [Outs -> Objs \cup {NULL}]
      BY <1>2 DEF TypeInv, TypeOK, GraphType
    <3> HIDE DEF set, o
    <3> QED BY <3>1, <3>2
  <2>3. users[out] \in Nat
    BY <2>2 DEF TypeInv, TypeOK, CountType
  <2>4. r \in Record /\ r.op = "unref" /\ r.obj = out /\ r.n = users[out]
    <3> HIDE DEF out
    <3> QED BY <2>2, <2>3 DEF Rec, Record
  <2>5. /\ outs' = [outs EXCEPT ![o][First(set)] = NULL]
        /\ stk' = [stk EXCEPT ![t] = Append(stk[t], r)]
        /\ UNCHANGED <<alive, deleted, enable, name>>
    BY <1>4 DEF msi_unbind
  <2> HIDE DEF r, set
  <2>6. Cut(t, o, First(set))
    BY <2>2, <2>4, <2>5 DEF Cut
  <2> QED BY <1>1, <1>2, <2>2, <2>6
<1> QED BY <1>3, <1>4

LEMMA UnbindDecIs ==
  ASSUME TypeInv, NEW t \in Threads, unbind_dec(t)
  PROVE  /\ At(t, {"unref"}) /\ Top(t).obj \in Objs
         /\ bound' = [bound EXCEPT ![Top(t).obj] = Dec(@)]
         /\ \/ /\ Dec(bound[Top(t).obj]) = 0 /\ Top(t).n = 0 /\ list' = list \ {Top(t).obj}
               /\ \E r \in Record :
                    /\ r.op = "free" /\ r.obj = Top(t).obj
                    /\ stk' = [stk EXCEPT ![t] = Append(Below(t), r)]
            \/ list' = list /\ stk' = [stk EXCEPT ![t] = Below(t)]
         /\ UNCHANGED <<alive, name, outs, users, inited, deleted, enable, fbVars, refVars>>
<1>1. /\ At(t, {"unref"}) /\ bound' = [bound EXCEPT ![Top(t).obj] = Dec(@)]
      /\ UNCHANGED <<alive, name, outs, users, inited, deleted, enable, fbVars, refVars>>
  BY DEF unbind_dec
<1>2. Top(t).obj \in Objs
  BY <1>1, TopOK DEF RecordOK
<1>3. CASE Dec(bound[Top(t).obj]) = 0 /\ Top(t).n = 0
  <2>1. msi_free(t, Top(t).obj)
    BY <1>3 DEF unbind_dec
  <2> QED BY <1>1, <1>2, <1>3, <2>1, FreeRec
<1>4. CASE ~(Dec(bound[Top(t).obj]) = 0 /\ Top(t).n = 0)
  BY <1>1, <1>2, <1>4 DEF unbind_dec, Pop
<1> QED BY <1>3, <1>4

(* msi_output_fb at its next entry. *)
LEMMA OutputNextIs ==
  ASSUME TypeInv, NEW t \in Threads, output_next(t)
  PROVE  /\ At(t, {"walk"}) /\ Top(t).obj \in Objs
         /\ \E w \in Record :
              /\ w.op = "walk" /\ w.obj = Top(t).obj /\ w.fb = Top(t).fb
              /\ \/ /\ stk' = [stk EXCEPT ![t] = Append(Below(t), w)]
                    /\ users' = users
                 \/ \E o \in enable, r \in Record :
                     /\ users' = [users EXCEPT ![o] = @ + 1]
                     /\ r.op = "trans" /\ r.obj = o /\ r.fb = Top(t).fb
                     /\ stk' = [stk EXCEPT ![t] = Append(Append(Below(t), w), r)]
         /\ UNCHANGED <<graphVars, inited, deleted, enable, fbVars, refVars>>
<1> DEFINE r == Top(t)
           out == outs[r.obj][r.n]
           w == [r EXCEPT !.n = IF r.fb = NULL /\ out \in enable THEN OutMax + 1 ELSE @ + 1]
           q == [Rec("trans", out) EXCEPT !.fb = r.fb]
<1>1. At(t, {"walk"}) /\ UNCHANGED <<graphVars, inited, deleted, enable, fbVars, refVars>>
  BY DEF output_next
<1>2. r \in Record /\ r.obj \in Objs /\ r.op = "walk"
  BY <1>1, TopOK DEF RecordOK
<1>3. w \in Record /\ w.op = "walk" /\ w.obj = r.obj /\ w.fb = r.fb
  <2> HIDE DEF r, out
  <2> QED BY <1>2, MsiAssumption DEF Record
<1>4. CASE out \in enable
  <2>1. out \in Objs
    BY <1>4 DEF TypeInv, TypeOK, GraphType
  <2>2. q \in Record /\ q.op = "trans" /\ q.obj = out /\ q.fb = r.fb
    <3> HIDE DEF out, r
    <3> QED BY <1>2, <2>1 DEF Rec, Record, RefOps
  <2>3. /\ users' = [users EXCEPT ![out] = @ + 1]
        /\ stk' = [stk EXCEPT ![t] = Append(Append(Below(t), w), q)]
    BY <1>4 DEF output_next, msi_get
  <2> HIDE DEF w, q, out
  <2> QED BY <1>1, <1>2, <1>3, <1>4, <2>2, <2>3
<1>5. CASE out \notin enable
  <2>1. users' = users /\ stk' = [stk EXCEPT ![t] = Append(Below(t), w)]
    BY <1>5 DEF output_next, Turn
  <2> HIDE DEF w
  <2> QED BY <1>1, <1>2, <1>3, <2>1
<1> QED BY <1>4, <1>5

LEMMA EnqueueIs ==
  ASSUME TypeInv, NEW t \in Threads, fbq_enqueue(t)
  PROVE  /\ At(t, {"trans"}) /\ Top(t).obj \in Objs /\ Top(t).fb \in Frames
         /\ queue' = [queue EXCEPT ![Top(t).fb] = Top(t).obj]
         /\ \E r \in Record :
              /\ r.op = "put" /\ r.obj = Top(t).obj
              /\ stk' = [stk EXCEPT ![t] = Append(Below(t), r)]
         /\ UNCHANGED <<objVars, owner, refVars>>
<1> DEFINE r == Rec("put", Top(t).obj)
<1>1. /\ At(t, {"trans"}) /\ Top(t).fb # NULL
      /\ queue' = [queue EXCEPT ![Top(t).fb] = Top(t).obj]
      /\ stk' = [stk EXCEPT ![t] = Append(Below(t), r)]
      /\ UNCHANGED <<objVars, owner, refVars>>
  BY DEF fbq_enqueue, Turn
<1>2. Top(t).obj \in Objs /\ Top(t).fb \in Frames
  BY <1>1, TopOK DEF RecordOK, Record
<1>3. r \in Record /\ r.op = "put" /\ r.obj = Top(t).obj
  BY <1>2 DEF Rec, Record, RefOps
<1> HIDE DEF r
<1> QED BY <1>1, <1>2, <1>3

LEMMA ForwardIs ==
  ASSUME TypeInv, NEW t \in Threads, trans_forward(t)
  PROVE  /\ At(t, {"trans"}) /\ Top(t).obj \in Objs /\ Top(t).obj \in enable
         /\ \E r, w \in Record :
              /\ r.op = "put" /\ r.obj = Top(t).obj
              /\ w.op = "walk" /\ w.obj = Top(t).obj /\ w.fb = Top(t).fb
              /\ stk' = [stk EXCEPT ![t] = Append(Append(Below(t), r), w)]
         /\ UNCHANGED <<objVars, fbVars, refVars>>
<1> DEFINE r == Rec("put", Top(t).obj)
           w == [Rec("walk", Top(t).obj) EXCEPT !.n = 1, !.fb = Top(t).fb]
<1>1. /\ At(t, {"trans"}) /\ Top(t).obj \in enable
      /\ stk' = [stk EXCEPT ![t] = Append(Append(Below(t), r), w)]
      /\ UNCHANGED <<objVars, fbVars, refVars>>
  BY DEF trans_forward
<1>2. Top(t) \in Record /\ Top(t).obj \in Objs
  BY <1>1, TopOK DEF RecordOK
<1>3. /\ r \in Record /\ r.op = "put" /\ r.obj = Top(t).obj
      /\ w \in Record /\ w.op = "walk" /\ w.obj = Top(t).obj /\ w.fb = Top(t).fb
  BY <1>2 DEF Rec, Record, RefOps
<1> HIDE DEF r, w
<1> QED BY <1>1, <1>2, <1>3

LEMMA OutputDoneIs ==
  ASSUME TypeInv, NEW t \in Threads, NEW last \in BOOLEAN, output_done(t, last)
  PROVE  /\ At(t, {"walk"}) /\ Top(t).obj \in Objs
         /\ \/ stk' = [stk EXCEPT ![t] = Below(t)] /\ owner' = owner
            \/ /\ \E f \in Frames, r \in Record :
                    /\ queue[f] = NULL /\ owner[f] \in Objs
                    /\ r.op = "put" /\ r.obj = owner[f]
                    /\ stk' = [stk EXCEPT ![t] = Append(Below(t), r)]
                    /\ Dropped(t, Below(t), f)
         /\ UNCHANGED <<objVars, queue, refVars>>
<1> DEFINE f == Top(t).fb
           r == Rec("put", owner[f])
           others == \E s \in Threads : \E i \in 1 .. Len(stk[s]) :
                        Carries(stk[s][i], f) /\ ~(s = t /\ i = Len(stk[t]))
<1>1. At(t, {"walk"}) /\ UNCHANGED <<objVars, queue, refVars>>
  BY DEF output_done
<1>2. /\ Top(t) \in Record /\ Top(t).obj \in Objs /\ Top(t).op = "walk" /\ stk[t] # <<>>
      /\ f # NULL => owner[f] # NULL
  BY <1>1, TopOK DEF RecordOK
<1>3. CASE ~last
  BY <1>1, <1>2, <1>3 DEF output_done, Pop
<1>4. CASE last
  <2>1. /\ f # NULL /\ queue[f] = NULL /\ ~others
        /\ owner' = [owner EXCEPT ![f] = NULL]
        /\ stk' = [stk EXCEPT ![t] = Append(Below(t), r)]
    BY <1>4 DEF output_done, Turn
  <2>2. f \in Frames /\ owner[f] \in Objs
    BY <1>2, <2>1 DEF Record, TypeInv, TypeOK
  <2>3. r \in Record /\ r.op = "put" /\ r.obj = owner[f]
    BY <2>2 DEF Rec, Record, RefOps
  <2>4. \A s \in Threads \ {t} : \A x \in Recs(stk[s]) : ~Carries(x, f)
    BY <2>1 DEF Recs
  <2>5. \A x \in Recs(Below(t)) : ~Carries(x, f)
    <3>1. stk[t] \in Seq(Record) /\ Len(stk[t]) \in Nat \ {0}
      BY <1>2 DEF TypeInv, TypeOK
    <3>2. \A i \in 1 .. Len(Below(t)) :
             i \in 1 .. Len(stk[t]) /\ i # Len(stk[t]) /\ Below(t)[i] = stk[t][i]
      BY <3>1 DEF Below
    <3> HIDE DEF f
    <3> QED BY <2>1, <3>2 DEF Recs
  <2> HIDE DEF r, f
  <2> QED BY <1>1, <1>2, <2>1, <2>2, <2>3, <2>4, <2>5 DEF Dropped
<1> QED BY <1>3, <1>4

(* The calls that put records on the stack. *)
LEMMA Idles ==
  ASSUME TypeInv, NEW t \in Threads
  PROVE  Idle(t) => stk[t] = <<>> /\ Recs(stk[t]) = {} /\ \A D : Num(stk[t], D) = 0
BY NoRecords DEF Idle

LEMMA MsiPutIs ==
  ASSUME TypeInv, NEW t \in Threads, NEW o \in Objs, msi_put(t, o)
  PROVE  /\ Idle(t) /\ found[o] > 0 /\ found' = [found EXCEPT ![o] = @ - 1]
         /\ \E r \in Record :
              r.op = "put" /\ r.obj = o /\ stk' = [stk EXCEPT ![t] = Append(stk[t], r)]
         /\ UNCHANGED <<objVars, fbVars, made>>
<1> DEFINE r == Rec("put", o)
<1>1. /\ Idle(t) /\ found[o] > 0 /\ found' = [found EXCEPT ![o] = @ - 1]
      /\ stk' = [stk EXCEPT ![t] = Append(stk[t], r)]
      /\ UNCHANGED <<objVars, fbVars, made>>
  BY DEF msi_put
<1>2. r \in Record /\ r.op = "put" /\ r.obj = o
  BY DEF Rec, Record, RefOps
<1> HIDE DEF r
<1> QED BY <1>1, <1>2

LEMMA MsiDestroyIs ==
  ASSUME TypeInv, NEW t \in Threads, NEW o \in Objs, msi_destroy(t, o)
  PROVE  /\ Idle(t) \/ At(t, {"pre", "post"})
         /\ made[o] > 0 /\ made' = [made EXCEPT ![o] = @ - 1]
         /\ inited' = [inited EXCEPT ![o] = Dec(@)]
         /\ \A r \in Recs(stk[t]) : ~(r.op = "walk" /\ r.obj = o)
         /\ \/ /\ Dec(inited[o]) = 0 /\ users' = users
               /\ enable' = enable \ {o} /\ deleted' = deleted \cup {o}
               /\ \E u, r \in Record :
                    /\ u.op = "unlock" /\ r.op = "pre" /\ r.obj = o
                    /\ stk' = [stk EXCEPT ![t] = Append(Append(stk[t], u), r)]
            \/ /\ Dec(inited[o]) # 0 /\ users' = [users EXCEPT ![o] = Dec(@)]
               /\ UNCHANGED <<enable, deleted, stk>>
         /\ UNCHANGED <<graphVars, fbVars, found>>
<1> DEFINE u == Rec("unlock", NULL)
           r == Rec("pre", o)
<1>1. /\ Idle(t) \/ At(t, {"pre", "post"})
      /\ made[o] > 0 /\ made' = [made EXCEPT ![o] = @ - 1]
      /\ inited' = [inited EXCEPT ![o] = Dec(@)]
      /\ UNCHANGED <<graphVars, fbVars, found>>
  BY DEF msi_destroy
<1>2. \A x \in Recs(stk[t]) : ~(x.op = "walk" /\ x.obj = o)
  BY DEF msi_destroy, Recs
<1>3. \/ /\ Dec(inited[o]) = 0 /\ users' = users
         /\ enable' = enable \ {o} /\ deleted' = deleted \cup {o}
         /\ stk' = [stk EXCEPT ![t] = Append(Append(stk[t], u), r)]
      \/ /\ Dec(inited[o]) # 0 /\ users' = [users EXCEPT ![o] = Dec(@)]
         /\ UNCHANGED <<enable, deleted, stk>>
  BY DEF msi_destroy
<1>4. u \in Record /\ u.op = "unlock" /\ r \in Record /\ r.op = "pre" /\ r.obj = o
  BY DEF Rec, Record, RefOps
<1> HIDE DEF u, r
<1> QED BY <1>1, <1>2, <1>3, <1>4

LEMMA FbPutIs ==
  ASSUME TypeInv, NEW t \in Threads, NEW f \in Frames, fb_put(t, f)
  PROVE  /\ Idle(t) \/ At(t, {"pre", "post", "trans"})
         /\ owner[f] \in Objs /\ queue[f] = NULL /\ Dropped(t, stk[t], f)
         /\ \E r \in Record :
              r.op = "put" /\ r.obj = owner[f] /\ stk' = [stk EXCEPT ![t] = Append(stk[t], r)]
         /\ UNCHANGED <<objVars, queue, refVars>>
<1> DEFINE r == Rec("put", owner[f])
<1>1. /\ Idle(t) \/ At(t, {"pre", "post", "trans"})
      /\ owner[f] # NULL /\ queue[f] = NULL /\ ~Walked(f)
      /\ owner' = [owner EXCEPT ![f] = NULL]
      /\ stk' = [stk EXCEPT ![t] = Append(stk[t], r)]
      /\ UNCHANGED <<objVars, queue, refVars>>
  BY DEF fb_put
<1>2. owner[f] \in Objs
  BY <1>1 DEF TypeInv, TypeOK
<1>3. r \in Record /\ r.op = "put" /\ r.obj = owner[f]
  BY <1>2 DEF Rec, Record, RefOps
<1>4. \A s \in Threads : \A x \in Recs(stk[s]) : ~Carries(x, f)
  BY <1>1 DEF Walked, Recs
<1> HIDE DEF r
<1> QED BY <1>1, <1>2, <1>3, <1>4 DEF Dropped

LEMMA OutputFbIs ==
  ASSUME TypeInv, NEW t \in Threads, NEW o \in Objs, NEW f \in Frames \cup {NULL},
         msi_output_fb(t, o, f)
  PROVE  /\ Idle(t) /\ made[o] > 0
         /\ \E r \in Record :
              /\ r.op = "walk" /\ r.obj = o /\ (r.fb # NULL => owner[r.fb] # NULL)
              /\ stk' = [stk EXCEPT ![t] = Append(stk[t], r)]
         /\ UNCHANGED <<objVars, fbVars, refVars>>
<1> DEFINE r == [Rec("walk", o) EXCEPT !.n = 1, !.fb = f]
<1>1. /\ Idle(t) /\ made[o] > 0 /\ (f # NULL => owner[f] # NULL)
      /\ stk' = [stk EXCEPT ![t] = Append(stk[t], r)]
      /\ UNCHANGED <<objVars, fbVars, refVars>>
  BY DEF msi_output_fb
<1>2. r \in Record /\ r.op = "walk" /\ r.obj = o /\ r.fb = f
  BY DEF Rec, Record
<1> HIDE DEF r
<1> QED BY <1>1, <1>2

(* msi_del_output: S holds the unlock and the puts of what was found. *)
Deleting(t, S, ls, os, l) ==
    /\ Idle(t)
    /\ users' = [x \in Objs |-> users[x] + Cardinality(ls \cap {x}) + Cardinality(os \cap {x})]
    /\ \/ stk' = [stk EXCEPT ![t] = S] /\ outs' = outs
       \/ \E i \in Outs, r \in Record :
            /\ l \in Objs /\ outs[l][i] \in os
            /\ outs' = [outs EXCEPT ![l][i] = NULL]
            /\ r.op = "unref" /\ r.obj = outs[l][i] /\ r.n = users'[outs[l][i]]
            /\ stk' = [stk EXCEPT ![t] = Append(S, r)]
    /\ UNCHANGED <<alive, list, name, bound, inited, deleted, enable, fbVars, refVars>>

Work(S, ls, os) ==
    /\ S \in Seq(Record) /\ S # <<>> /\ S[1].op = "unlock"
    /\ \A r \in Recs(S) : r.op = "unlock" \/ (r.op = "put" /\ r.obj \in ls \cup os)
    /\ \A o \in Objs : (\A x, y \in os : x = y) =>
            Num(S, Ref(o)) = One(o \in ls) + One(o \in os)

LEMMA WorkIs ==
  ASSUME NEW ls, NEW os, ls \subseteq Objs, os \subseteq Objs, \A x, y \in ls : x = y
  PROVE  Work(<<Rec("unlock", NULL)>> \o Puts(os) \o Puts(ls), ls, os)
<1> DEFINE u == Rec("unlock", NULL)
           p == CHOOSE o \in os : TRUE
           q == CHOOSE o \in ls : TRUE
           S == <<u>> \o Puts(os)
           T == S \o Puts(ls)
<1>1. /\ u \in Record /\ u.op = "unlock"
      /\ os # {} => p \in os /\ Rec("put", p) \in Record /\ Rec("put", p).op = "put" /\ Rec("put", p).obj = p
      /\ ls # {} => q \in ls /\ Rec("put", q) \in Record /\ Rec("put", q).op = "put" /\ Rec("put", q).obj = q
  BY DEF Rec, Record, RefOps
<1>2. ASSUME NEW X \in Seq(Record), NEW r \in Record
      PROVE  X \o <<>> = X /\ X \o <<r>> = Append(X, r) /\ Append(X, r) # <<>>
             /\ (X # <<>> => Append(X, r)[1] = X[1])
  <2>1. X \o <<>> = X /\ X \o <<r>> = Append(X, r) /\ Append(X, r) # <<>>
    BY ConcatEmptySeq, AppendIsConcat, AppendProperties
  <2>2. X # <<>> => Append(X, r)[1] = X[1]
    OBVIOUS
  <2> QED BY <2>1, <2>2
<1>3. /\ <<u>> \in Seq(Record) /\ <<u>> # <<>> /\ <<u>>[1] = u /\ Recs(<<u>>) = {u}
      /\ \A o \in Objs : Num(<<u>>, Ref(o)) = 0
  <2>1. Append(<<>>, u) = <<u>> /\ <<>> \in Seq(Record) /\ <<u>>[1] = u
    BY <1>1
  <2>2. /\ <<u>> \in Seq(Record) /\ <<u>> # <<>> /\ Recs(<<u>>) = Recs(<<>>) \cup {u}
        /\ \A D : Num(<<u>>, D) = Num(<<>>, D) + One(u \in D)
    BY <1>1, <2>1, OneMore
  <2>3. \A o \in Objs : u \notin Ref(o)
    BY <1>1 DEF Ref, RefOps
  <2> HIDE DEF u
  <2> QED BY <2>1, <2>2, <2>3, NoRecords DEF One
<1>4. ASSUME NEW o \in Objs
      PROVE  /\ os # {} => One(Rec("put", p) \in Ref(o)) = One(p = o)
             /\ ls # {} => One(Rec("put", q) \in Ref(o)) = One(q = o)
  BY <1>1 DEF Ref, RefOps, One
<1>5. /\ S \in Seq(Record) /\ S # <<>> /\ S[1] = u
      /\ \A r \in Recs(S) : r.op = "unlock" \/ (r.op = "put" /\ r.obj \in os)
      /\ \A o \in Objs : Num(S, Ref(o)) = IF os = {} THEN 0 ELSE One(p = o)
  <2>1. CASE os = {}
    <3>1. S = <<u>>
      BY <1>2, <1>3, <1>1, <2>1 DEF Puts
    <3> HIDE DEF S, u
    <3> QED BY <1>1, <1>3, <2>1, <3>1
  <2>2. CASE os # {}
    <3>1. S = Append(<<u>>, Rec("put", p)) /\ Rec("put", p) \in Record
      BY <1>1, <1>2, <1>3, <2>2 DEF Puts
    <3> HIDE DEF S, u, p
    <3>2. /\ S \in Seq(Record) /\ Recs(S) = {u} \cup {Rec("put", p)} /\ S # <<>> /\ S[1] = u
          /\ \A D : Num(S, D) = Num(<<u>>, D) + One(Rec("put", p) \in D)
      BY <1>2, <1>3, <3>1, OneMore
    <3>3. \A o \in Objs : Num(S, Ref(o)) = 0 + One(p = o)
      BY <1>3, <1>4, <2>2, <3>2
    <3>4. \A o \in Objs : Num(S, Ref(o)) = One(p = o)
      BY <3>3 DEF One
    <3> QED BY <1>1, <2>2, <3>2, <3>4
  <2> QED BY <2>1, <2>2
<1>6. /\ T \in Seq(Record) /\ T # <<>> /\ T[1] = u
      /\ \A r \in Recs(T) : r.op = "unlock" \/ (r.op = "put" /\ r.obj \in ls \cup os)
      /\ \A o \in Objs : Num(T, Ref(o)) = Num(S, Ref(o)) + IF ls = {} THEN 0 ELSE One(q = o)
  <2>1. CASE ls = {}
    <3>1. T = S
      <4> HIDE DEF S
      <4> QED BY <1>1, <1>2, <1>5, <2>1 DEF Puts
    <3> HIDE DEF S, T, u
    <3>2. \A o \in Objs : Num(S, Ref(o)) \in Nat
      BY <1>5, NumIs
    <3> QED BY <1>5, <2>1, <3>1, <3>2
  <2>2. CASE ls # {}
    <3>1. T = Append(S, Rec("put", q)) /\ Rec("put", q) \in Record
      <4> HIDE DEF S
      <4> QED BY <1>1, <1>2, <1>5, <2>2 DEF Puts
    <3> HIDE DEF S, T, u, q
    <3>2. /\ T \in Seq(Record) /\ Recs(T) = Recs(S) \cup {Rec("put", q)} /\ T # <<>> /\ T[1] = u
          /\ \A D : Num(T, D) = Num(S, D) + One(Rec("put", q) \in D)
      BY <1>2, <1>5, <3>1, OneMore
    <3> QED BY <1>1, <1>4, <1>5, <2>2, <3>2
  <2> QED BY <2>1, <2>2
<1>7. ASSUME NEW o \in Objs, \A x, y \in os : x = y
      PROVE  Num(T, Ref(o)) = One(o \in ls) + One(o \in os)
  <2>1. (IF ls = {} THEN 0 ELSE One(q = o)) = One(o \in ls)
    BY <1>1 DEF One
  <2>2. (IF os = {} THEN 0 ELSE One(p = o)) = One(o \in os)
    BY <1>1, <1>7 DEF One
  <2> HIDE DEF S, T, p, q
  <2> QED BY <1>5, <1>6, <2>1, <2>2 DEF One
<1>8. T[1].op = "unlock"
  BY <1>1, <1>6
<1> HIDE DEF T
<1> QED BY <1>6, <1>7, <1>8 DEF Work, T

LEMMA DelOutputIs ==
  ASSUME TypeInv, NEW t \in Threads, NEW l \in Objs \cup {NULL}, NEW on, NEW ls,
         ls \subseteq list, \A x, y \in ls : x = y, DelOutput(t, ls, l, on)
  PROVE  \E S : Work(S, ls, msi_find_lock(on)) /\ Deleting(t, S, ls, msi_find_lock(on), l)
<1> DEFINE os == msi_find_lock(on)
           hit == {i \in Outs : l # NULL /\ outs[l][i] \in os}
           S == <<Rec("unlock", NULL)>> \o Puts(os) \o Puts(ls)
<1>1. os \subseteq Objs /\ ls \subseteq Objs
  BY DEF msi_find_lock, TypeInv, TypeOK, GraphType
<1>2. Work(S, ls, os)
  BY <1>1, WorkIs
<1>3. /\ Idle(t)
      /\ users' = [x \in Objs |-> users[x] + Cardinality(ls \cap {x}) + Cardinality(os \cap {x})]
      /\ UNCHANGED <<alive, list, name, bound, inited, deleted, enable, fbVars, refVars>>
  BY DEF DelOutput
<1>4. CASE hit = {}
  <2>1. stk' = [stk EXCEPT ![t] = S] /\ outs' = outs
    BY <1>4 DEF DelOutput
  <2> HIDE DEF S, os
  <2> QED BY <1>2, <1>3, <2>1 DEF Deleting, os
<1>5. CASE hit # {}
  <2>1. First(hit) \in hit
    BY <1>5, FirstIn
  <2> DEFINE o == outs[l][First(hit)]
             r == [Rec("unref", o) EXCEPT !.n = users'[o]]
  <2>2. First(hit) \in Outs /\ l \in Objs /\ o \in os
    BY <2>1
  <2>3. /\ outs' = [outs EXCEPT ![l][First(hit)] = NULL]
        /\ stk' = [stk EXCEPT ![t] = Append(S, r)]
    BY <1>5 DEF DelOutput
  <2>4. users'[o] \in Nat
    <3>1. o \in Objs
      BY <1>1, <2>2
    <3>2. users'[o] = users[o] + Cardinality(ls \cap {o}) + Cardinality(os \cap {o})
      <4> HIDE DEF o, os
      <4> QED BY <1>3, <3>1
    <3>3. Cardinality(ls \cap {o}) \in Nat /\ Cardinality(os \cap {o}) \in Nat
      <4> HIDE DEF o, os
      <4>1. IsFiniteSet({o})
        BY FS_Singleton
      <4>2. IsFiniteSet(ls \cap {o}) /\ IsFiniteSet(os \cap {o})
        BY <4>1, FS_Subset
      <4> QED BY <4>2, FS_CardinalityType
    <3>4. users[o] \in Nat
      BY <3>1 DEF TypeInv, TypeOK, CountType
    <3> HIDE DEF o, os
    <3> QED BY <3>2, <3>3, <3>4
  <2>5. r \in Record /\ r.op = "unref" /\ r.obj = o /\ r.n = users'[o]
    <3>1. o \in Objs
      BY <1>1, <2>2
    <3> HIDE DEF o
    <3> QED BY <2>4, <3>1 DEF Rec, Record
  <2> HIDE DEF S, r, hit, os
  <2> QED BY <1>2, <1>3, <2>2, <2>3, <2>5 DEF Deleting, os
<1> QED BY <1>4, <1>5

(* The callers of DelOutput. *)
LEMMA DeletingIs ==
  ASSUME TypeInv, NEW t \in Threads,
         \/ \E l \in Objs, on \in Names : del_output_of(t, l, on)
         \/ \E ln, on \in Names : msi_del_output(t, ln, on)
  PROVE  \E S, l, on : \E ls \in SUBSET list :
            /\ \A x, y \in ls : x = y
            /\ Work(S, ls, msi_find_lock(on)) /\ Deleting(t, S, ls, msi_find_lock(on), l)
<1>1. ASSUME NEW l \in Objs \cup {NULL}, NEW on \in Names, NEW ls \in SUBSET list,
             \A x, y \in ls : x = y, DelOutput(t, ls, l, on)
      PROVE  \E S : Work(S, ls, msi_find_lock(on)) /\ Deleting(t, S, ls, msi_find_lock(on), l)
  BY <1>1, DelOutputIs
<1>2. ASSUME NEW l \in Objs, NEW on \in Names, del_output_of(t, l, on)
      PROVE  DelOutput(t, {}, l, on)
  BY <1>2 DEF del_output_of
<1>3. ASSUME NEW ln \in Names, NEW on \in Names, msi_del_output(t, ln, on)
      PROVE  \/ \E l \in Objs : l \in list /\ DelOutput(t, {l}, l, on)
             \/ DelOutput(t, {}, NULL, on)
  BY <1>3 DEF msi_del_output, msi_find_lock, TypeInv, TypeOK, GraphType
<1>4. PICK l \in Objs \cup {NULL}, on \in Names, ls \in SUBSET list :
           (\A x, y \in ls : x = y) /\ DelOutput(t, ls, l, on)
  <2>1. {} \in SUBSET list /\ \A x, y \in {} : x = y
    OBVIOUS
  <2>2. \A l \in list : {l} \in SUBSET list /\ \A x, y \in {l} : x = y
    OBVIOUS
  <2>3. CASE \E l \in Objs, on \in Names : del_output_of(t, l, on)
    BY <1>2, <2>1, <2>3
  <2>4. CASE \E ln, on \in Names : msi_del_output(t, ln, on)
    BY <1>3, <2>1, <2>2, <2>4
  <2> QED BY <2>3, <2>4
<1> QED BY <1>1, <1>4

(* The calls, but for those that only concern frames. *)
LEMMA CallTypes ==
  ASSUME TypeInv, NEW t \in Threads, Call(t)
  PROVE  TypeInv'
<1> USE MsiAssumption DEF objVars, graphVars, fbVars, refVars, Dec, msi_get
<1>t. TypeOK /\ CallInv /\ FrameInv /\ GraphType /\ CountType
  BY DEF TypeInv, TypeOK
<1>p. ASSUME GraphType', CountType', UNCHANGED fbVars,
             stk' \in [Threads -> Seq(Record)], CallInv'
      PROVE  TypeInv'
  BY <1>t, <1>p DEF TypeInv, TypeOK, FrameInv
<1>g. UNCHANGED <<alive, list, deleted, enable, name, outs>> => GraphType'
  BY <1>t DEF GraphType
<1>c. UNCHANGED <<users, bound, inited, made, found>> => CountType'
  BY <1>t DEF CountType
<1>s. UNCHANGED <<stk, owner>> => stk' \in [Threads -> Seq(Record)] /\ CallInv'
  BY CallKept
<1>1. ASSUME NEW n \in Names, NEW o \in Objs, msi_new(t, n, o) PROVE TypeInv'
  <2>1. GraphType'
    BY <1>t, <1>1 DEF GraphType, msi_new, Join
  <2>2. CountType'
    BY <1>t, <1>1 DEF CountType, msi_new
  <2> QED BY <1>p, <1>s, <1>1, <2>1, <2>2 DEF msi_new
<1>2. ASSUME NEW n \in Names, NEW o \in Objs, add_output_nomem(t, n, o) PROVE TypeInv'
  <2>1. GraphType'
    BY <1>t, <1>2 DEF GraphType, add_output_nomem, Join
  <2> QED BY <1>p, <1>c, <1>s, <1>2, <2>1 DEF add_output_nomem
<1>3. ASSUME NEW n \in Names, NEW only \in BOOLEAN, msi_find(t, n, only) PROVE TypeInv'
  <2>1. CountType'
    BY <1>t, <1>3 DEF CountType, GraphType, msi_find, msi_find_lock
  <2> QED BY <1>p, <1>g, <1>s, <1>3, <2>1 DEF msi_find
<1>4. ASSUME NEW o \in Objs, msi_put(t, o) PROVE TypeInv'
  <2>1. /\ found[o] > 0 /\ found' = [found EXCEPT ![o] = @ - 1]
        /\ UNCHANGED <<objVars, fbVars, made>>
    BY <1>4, MsiPutIs
  <2>2. PICK r \in Record : r.op = "put" /\ r.obj = o /\ stk' = [stk EXCEPT ![t] = Append(stk[t], r)]
    BY <1>4, MsiPutIs
  <2>3. RecordOK(r)'
    BY <2>2 DEF RecordOK
  <2>4. Grown(t, stk[t], Append(stk[t], r))
    BY <2>3, RecsOK DEF Grown
  <2>5. stk' \in [Threads -> Seq(Record)] /\ CallInv'
    BY <2>1, <2>2, <2>4, StackTypes
  <2>6. CountType'
    BY <1>t, <2>1 DEF CountType
  <2> QED BY <1>p, <1>g, <2>1, <2>5, <2>6
<1>5. ASSUME NEW o \in Objs, msi_destroy(t, o) PROVE TypeInv'
  <2>1. /\ made[o] > 0 /\ made' = [made EXCEPT ![o] = @ - 1] /\ inited' = [inited EXCEPT ![o] = Dec(@)]
        /\ users' = users \/ users' = [users EXCEPT ![o] = Dec(@)]
        /\ enable' \subseteq enable /\ deleted' \subseteq deleted \cup {o}
        /\ UNCHANGED <<graphVars, fbVars, found>>
    BY <1>5, MsiDestroyIs
  <2>2. GraphType'
    BY <1>t, <2>1 DEF GraphType
  <2>3. CountType'
    BY <1>t, <2>1 DEF CountType
  <2>4. CASE stk' = stk
    BY <1>p, <1>s, <2>1, <2>2, <2>3, <2>4
  <2>5. ASSUME NEW u \in Record, NEW r \in Record, u.op = "unlock", r.op = "pre", r.obj = o,
               stk' = [stk EXCEPT ![t] = Append(Append(stk[t], u), r)]
        PROVE  TypeInv'
    <3>1. RecordOK(u)' /\ RecordOK(r)'
      BY <2>5 DEF RecordOK
    <3>2. Grown(t, stk[t], Append(Append(stk[t], u), r))
      BY <3>1, RecsOK DEF Grown
    <3>3. stk' \in [Threads -> Seq(Record)] /\ CallInv'
      BY <2>1, <2>5, <3>2, StackTypes
    <3> QED BY <1>p, <2>1, <2>2, <2>3, <3>3
  <2> QED BY <1>5, <2>4, <2>5, MsiDestroyIs
<1>6. ASSUME NEW o \in Objs, msi_enable(t, o) PROVE TypeInv'
  <2>1. GraphType'
    BY <1>t, <1>6 DEF GraphType, msi_enable
  <2> QED BY <1>p, <1>c, <1>s, <1>6, <2>1 DEF msi_enable
<1>7. ASSUME NEW l \in Objs, NEW o \in Objs, Binding(l, o)
      PROVE  /\ bound' \in [Objs -> Nat]
             /\ outs' \in [Objs -> [Outs -> Objs \cup {NULL}]]
  <2>1. bound \in [Objs -> Nat] /\ outs \in [Objs -> [Outs -> Objs \cup {NULL}]]
    BY <1>t DEF GraphType, CountType
  <2>2. ASSUME NEW i \in Outs
        PROVE  [outs EXCEPT ![l][i] = o] \in [Objs -> [Outs -> Objs \cup {NULL}]]
    BY <2>1
  <2>3. [bound EXCEPT ![o] = @ + 1] \in [Objs -> Nat]
    BY <2>1
  <2>4. \/ bound' = bound /\ outs' = outs
        \/ /\ bound' = [bound EXCEPT ![o] = @ + 1]
           /\ \E i \in Outs : outs' = [outs EXCEPT ![l][i] = o]
    BY <1>7 DEF Binding
  <2> QED BY <2>1, <2>2, <2>3, <2>4
<1>8. ASSUME NEW l \in Objs, NEW o \in Objs, NEW on \in Names, add_output_of(t, l, on, o)
      PROVE  TypeInv'
  <2>1. Binding(l, o)
    BY <1>8, BindIs DEF add_output_of
  <2>2. GraphType'
    BY <1>t, <1>7, <1>8, <2>1 DEF GraphType, add_output_of, Join
  <2>3. CountType'
    BY <1>t, <1>7, <1>8, <2>1 DEF CountType, add_output_of
  <2> QED BY <1>p, <1>s, <1>8, <2>2, <2>3 DEF add_output_of
<1>9. ASSUME NEW ln \in Names, NEW on \in Names, NEW l \in Objs, NEW o \in Objs,
             msi_add_output(t, ln, l, on, o)
      PROVE  TypeInv'
  <2>1. Binding(l, o)
    BY <1>9, BindIs DEF msi_add_output
  <2>2. GraphType'
    BY <1>t, <1>7, <1>9, <2>1 DEF GraphType, msi_add_output
  <2>3. CountType'
    BY <1>t, <1>7, <1>9, <2>1 DEF CountType, msi_add_output
  <2> QED BY <1>p, <1>s, <1>9, <2>2, <2>3 DEF msi_add_output
<1>10. ASSUME NEW S, NEW l, NEW os \in SUBSET Objs, NEW ls \in SUBSET Objs,
              Work(S, ls, os), Deleting(t, S, ls, os, l)
       PROVE  TypeInv'
  <2>1. S \in Seq(Record) /\ \A r \in Recs(S) : RecordOK(r)'
    BY <1>10 DEF Work, RecordOK
  <2>2. \A s \in Threads \ {t} : \A r \in Recs(stk[s]) : RecordOK(r)'
    <3>1. owner' = owner
      BY <1>10 DEF Deleting
    <3> QED BY <3>1, RecsOK DEF RecordOK
  <2>3. /\ users' = [x \in Objs |-> users[x] + Cardinality(ls \cap {x}) + Cardinality(os \cap {x})]
        /\ UNCHANGED <<alive, list, name, bound, inited, deleted, enable, fbVars, refVars>>
    BY <1>10 DEF Deleting
  <2>4. CountType'
    <3>1. ASSUME NEW x \in Objs
          PROVE  users[x] + Cardinality(ls \cap {x}) + Cardinality(os \cap {x}) \in Nat
      <4>1. IsFiniteSet(ls \cap {x}) /\ IsFiniteSet(os \cap {x})
        BY FS_Singleton, FS_Subset
      <4>2. Cardinality(ls \cap {x}) \in Nat /\ Cardinality(os \cap {x}) \in Nat
        BY <4>1, FS_CardinalityType
      <4>3. users[x] \in Nat
        BY <1>t DEF CountType
      <4> QED BY <4>2, <4>3
    <3>2. users' \in [Objs -> Nat]
      BY <2>3, <3>1
    <3> QED BY <1>t, <2>3, <3>2 DEF CountType
  <2>5. CASE stk' = [stk EXCEPT ![t] = S] /\ outs' = outs
    <3>1. stk' \in [Threads -> Seq(Record)] /\ CallInv'
      BY <1>t, <2>1, <2>2, <2>5, NewStack
    <3> QED BY <1>p, <1>g, <2>3, <2>4, <2>5, <3>1
  <2>6. ASSUME NEW i \in Outs, NEW r \in Record, l \in Objs, outs[l][i] \in os,
               outs' = [outs EXCEPT ![l][i] = NULL], r.op = "unref", r.obj = outs[l][i],
               stk' = [stk EXCEPT ![t] = Append(S, r)]
        PROVE  TypeInv'
    <3>1. RecordOK(r)'
      BY <2>6 DEF RecordOK
    <3>2. Append(S, r) \in Seq(Record) /\ Recs(Append(S, r)) = Recs(S) \cup {r}
      BY <2>1, OneMore
    <3>3. stk' \in [Threads -> Seq(Record)] /\ CallInv'
      BY <1>t, <2>1, <2>2, <2>6, <3>1, <3>2, NewStack
    <3>4. outs' \in [Objs -> [Outs -> Objs \cup {NULL}]]
      BY <1>t, <2>6 DEF GraphType
    <3>5. GraphType'
      BY <1>t, <2>3, <3>4 DEF GraphType
    <3> QED BY <1>p, <2>3, <2>4, <3>3, <3>5
  <2> QED BY <1>10, <2>5, <2>6 DEF Deleting
<1>11. ASSUME \/ \E l \in Objs, on \in Names : del_output_of(t, l, on)
              \/ \E ln, on \in Names : msi_del_output(t, ln, on)
       PROVE  TypeInv'
  <2>1. PICK S, l, on : \E ls \in SUBSET list :
            Work(S, ls, msi_find_lock(on)) /\ Deleting(t, S, ls, msi_find_lock(on), l)
    BY <1>11, DeletingIs
  <2>2. list \subseteq Objs /\ msi_find_lock(on) \in SUBSET Objs
    BY <1>t DEF GraphType, msi_find_lock
  <2> QED BY <1>10, <2>1, <2>2
<1> QED BY <1>1, <1>2, <1>3, <1>4, <1>5, <1>6, <1>8, <1>9, <1>11 DEF Call

(* The calls that concern frames. *)
LEMMA FrameTypes ==
  ASSUME TypeInv, NEW t \in Threads, FrameCall(t)
  PROVE  TypeInv'
<1> USE MsiAssumption DEF objVars, graphVars, fbVars, refVars, msi_get
<1>t. /\ TypeOK /\ CallInv /\ FrameInv /\ GraphType /\ CountType
      /\ owner \in [Frames -> Objs \cup {NULL}] /\ queue \in [Frames -> Objs \cup {NULL}]
  BY DEF TypeInv, TypeOK
<1>g. UNCHANGED <<alive, list, deleted, enable, name, outs>> => GraphType'
  BY <1>t DEF GraphType
<1>c. UNCHANGED <<users, bound, inited, made, found>> => CountType'
  BY <1>t DEF CountType
<1>1. ASSUME NEW o \in Objs, NEW f \in Frames, fb_alloc(t, o, f) PROVE TypeInv'
  <2>1. /\ owner[f] = NULL /\ owner' = [owner EXCEPT ![f] = o] /\ users' = [users EXCEPT ![o] = @ + 1]
        /\ UNCHANGED <<graphVars, inited, deleted, enable, queue, stk, refVars>>
    BY <1>1 DEF fb_alloc
  <2>2. GraphType' /\ CountType'
    BY <1>t, <2>1 DEF GraphType, CountType
  <2>3. CallInv'
    <3>1. ASSUME NEW s \in Threads, NEW r \in Recs(stk[s]) PROVE RecordOK(r)'
      BY <2>1, StillOK, RecsOK
    <3> QED BY <2>1, <3>1 DEF CallInv
  <2>4. FrameInv' /\ owner' \in [Frames -> Objs \cup {NULL}]
    BY <1>t, <2>1 DEF FrameInv
  <2> QED BY <1>t, <2>1, <2>2, <2>3, <2>4 DEF TypeInv, TypeOK
<1>2. ASSUME NEW o \in Objs, NEW f \in Frames, msi_get_fb(t, o, f) PROVE TypeInv'
  <2>1. queue' = [queue EXCEPT ![f] = NULL] /\ UNCHANGED <<objVars, owner, stk, refVars>>
    BY <1>2 DEF msi_get_fb
  <2>2. queue' \in [Frames -> Objs \cup {NULL}] /\ FrameInv'
    BY <1>t, <2>1 DEF FrameInv
  <2>3. CallInv'
    BY <2>1, CallKept
  <2> QED BY <1>t, <1>g, <1>c, <2>1, <2>2, <2>3 DEF TypeInv, TypeOK
<1>3. ASSUME NEW f \in Frames, fb_put(t, f) PROVE TypeInv'
  <2>1. owner[f] \in Objs /\ queue[f] = NULL /\ Dropped(t, stk[t], f) /\ UNCHANGED <<objVars, queue, refVars>>
    BY <1>3, FbPutIs
  <2>2. PICK r \in Record : r.op = "put" /\ r.obj = owner[f] /\ stk' = [stk EXCEPT ![t] = Append(stk[t], r)]
    BY <1>3, FbPutIs
  <2>3. RecordOK(r)'
    BY <2>1, <2>2 DEF RecordOK
  <2>4. Grown(t, stk[t], Append(stk[t], r))
    BY <2>3, RecsOK DEF Grown
  <2>5. stk' \in [Threads -> Seq(Record)] /\ CallInv'
    BY <2>1, <2>2, <2>4, StackTypes
  <2>6. owner' \in [Frames -> Objs \cup {NULL}] /\ FrameInv'
    BY <1>t, <2>1 DEF FrameInv, Dropped
  <2> QED BY <1>t, <1>g, <1>c, <2>1, <2>5, <2>6 DEF TypeInv, TypeOK
<1>4. ASSUME NEW o \in Objs, NEW f \in Frames \cup {NULL}, msi_output_fb(t, o, f) PROVE TypeInv'
  <2>1. UNCHANGED <<objVars, fbVars, refVars>>
    BY <1>4, OutputFbIs
  <2>2. PICK r \in Record :
          /\ r.op = "walk" /\ r.obj = o /\ (r.fb # NULL => owner[r.fb] # NULL)
          /\ stk' = [stk EXCEPT ![t] = Append(stk[t], r)]
    BY <1>4, OutputFbIs
  <2>3. RecordOK(r)'
    BY <2>1, <2>2 DEF RecordOK
  <2>4. Grown(t, stk[t], Append(stk[t], r))
    BY <2>3, RecsOK DEF Grown
  <2>5. stk' \in [Threads -> Seq(Record)] /\ CallInv'
    BY <2>1, <2>2, <2>4, StackTypes
  <2> QED BY <1>t, <1>g, <1>c, <2>1, <2>5 DEF TypeInv, TypeOK, FrameInv
<1> QED BY <1>1, <1>2, <1>3, <1>4 DEF FrameCall

(* The steps of a call in progress. *)
LEMMA StepTypes ==
  ASSUME TypeInv, NEW t \in Threads, Step(t)
  PROVE  TypeInv'
<1> USE MsiAssumption DEF objVars, graphVars, fbVars, refVars
<1>t. /\ TypeOK /\ CallInv /\ FrameInv /\ GraphType /\ CountType
      /\ owner \in [Frames -> Objs \cup {NULL}] /\ queue \in [Frames -> Objs \cup {NULL}]
  BY DEF TypeInv, TypeOK
<1>p. ASSUME GraphType', CountType', UNCHANGED fbVars,
             stk' \in [Threads -> Seq(Record)], CallInv'
      PROVE  TypeInv'
  BY <1>t, <1>p DEF TypeInv, TypeOK, FrameInv
<1>g. UNCHANGED <<alive, list, deleted, enable, name, outs>> => GraphType'
  BY <1>t DEF GraphType
<1>c. UNCHANGED <<users, bound, inited, made, found>> => CountType'
  BY <1>t DEF CountType
<1>0. ASSUME NEW ops, At(t, ops), stk' = [stk EXCEPT ![t] = Below(t)], owner' = owner
      PROVE  stk' \in [Threads -> Seq(Record)] /\ CallInv'
  <2>1. Grown(t, Below(t), Below(t))
    BY <1>0, TopOK DEF Grown
  <2> QED BY <1>0, <2>1, StackTypes
<1>1. ASSUME NEW ops, At(t, ops), NEW r \in Record, RecordOK(r)', owner' = owner,
             stk' = [stk EXCEPT ![t] = Append(Below(t), r)]
      PROVE  stk' \in [Threads -> Seq(Record)] /\ CallInv'
  <2>1. Grown(t, Below(t), Append(Below(t), r))
    BY <1>1, TopOK DEF Grown
  <2> QED BY <1>1, <2>1, StackTypes
<1>2. ASSUME NEW ops, At(t, ops), NEW r \in Record, NEW q \in Record, RecordOK(r)', RecordOK(q)',
             owner' = owner \/ \E f \in Frames : Dropped(t, Below(t), f),
             stk' = [stk EXCEPT ![t] = Append(Append(Below(t), r), q)]
      PROVE  stk' \in [Threads -> Seq(Record)] /\ CallInv'
  <2>1. Grown(t, Below(t), Append(Append(Below(t), r), q))
    BY <1>2, TopOK DEF Grown
  <2> QED BY <1>2, <2>1, StackTypes
<1>3. CASE put_read(t)
  <2>1. At(t, {"pre", "trans", "put"}) /\ Top(t).obj \in Objs /\ UNCHANGED <<objVars, fbVars, refVars>>
    BY <1>3, PutReadIs
  <2>2. PICK r \in Record : /\ r.op = "dec" /\ r.obj = Top(t).obj
                            /\ stk' = [stk EXCEPT ![t] = Append(Below(t), r)]
    BY <1>3, PutReadIs
  <2>3. RecordOK(r)'
    BY <2>1, <2>2 DEF RecordOK
  <2> QED BY <1>p, <1>g, <1>c, <1>1, <2>1, <2>2, <2>3
<1>4. CASE put_dec(t)
  <2>1. /\ At(t, {"dec"}) /\ Top(t).obj \in Objs
        /\ users' = [users EXCEPT ![Top(t).obj] = Dec(@)]
        /\ UNCHANGED <<graphVars, inited, deleted, enable, fbVars, refVars>>
    BY <1>4, PutDecIs
  <2>2. CountType'
    BY <1>t, <2>1 DEF CountType, Dec
  <2>3. CASE stk' = [stk EXCEPT ![t] = Below(t)]
    BY <1>p, <1>g, <1>0, <2>1, <2>2, <2>3
  <2>4. ASSUME NEW r \in Record, r.op = "post", r.obj = Top(t).obj,
               stk' = [stk EXCEPT ![t] = Append(Below(t), r)]
        PROVE  TypeInv'
    <3>1. RecordOK(r)'
      BY <2>1, <2>4 DEF RecordOK
    <3> QED BY <1>p, <1>g, <1>1, <2>1, <2>2, <2>4, <3>1
  <2> QED BY <1>4, <2>3, <2>4, PutDecIs
<1>5. ASSUME NEW r \in Record, r.op = "free", r.obj \in Objs PROVE RecordOK(r)'
  BY <1>5 DEF RecordOK
<1>6. CASE put_post(t)
  <2>1. /\ At(t, LastOps) /\ Top(t).obj \in Objs /\ list' \subseteq list /\ deleted' \subseteq deleted
        /\ UNCHANGED <<alive, name, bound, outs, users, inited, enable, fbVars, refVars>>
    BY <1>6, PutPostIs
  <2>2. GraphType'
    BY <1>t, <2>1 DEF GraphType
  <2>3. CASE stk' = [stk EXCEPT ![t] = Below(t)]
    BY <1>p, <1>c, <1>0, <2>1, <2>2, <2>3
  <2>4. ASSUME NEW r \in Record, r.op = "free", r.obj = Top(t).obj,
               stk' = [stk EXCEPT ![t] = Append(Below(t), r)]
        PROVE  TypeInv'
    BY <1>p, <1>c, <1>1, <1>5, <2>1, <2>2, <2>4
  <2> QED BY <1>6, <2>3, <2>4, PutPostIs
<1>7. CASE msi_unbind(t)
  <2>1. At(t, {"free"}) /\ Top(t).obj \in Objs /\ UNCHANGED <<list, users, bound, inited, fbVars, refVars>>
    BY <1>7, UnbindIs
  <2>2. CASE Freed(t, Top(t).obj)
    <3>1. GraphType'
      BY <1>t, <2>1, <2>2 DEF GraphType, Freed
    <3>2. stk' \in [Threads -> Seq(Record)] /\ CallInv'
      BY <1>0, <2>1, <2>2 DEF Freed
    <3> QED BY <1>p, <1>c, <2>1, <3>1, <3>2
  <2>3. ASSUME NEW i \in Outs, Cut(t, Top(t).obj, i) PROVE TypeInv'
    <3>1. PICK r \in Record :
            r.op = "unref" /\ r.obj = outs[Top(t).obj][i] /\ stk' = [stk EXCEPT ![t] = Append(stk[t], r)]
      BY <2>3 DEF Cut
    <3>2. RecordOK(r)'
      BY <2>3, <3>1 DEF RecordOK, Cut
    <3>3. Grown(t, stk[t], Append(stk[t], r))
      BY <3>2, RecsOK DEF Grown
    <3>4. stk' \in [Threads -> Seq(Record)] /\ CallInv'
      BY <2>1, <3>1, <3>3, StackTypes
    <3>5. outs' \in [Objs -> [Outs -> Objs \cup {NULL}]]
      <4>1. outs \in [Objs -> [Outs -> Objs \cup {NULL}]] /\ outs' = [outs EXCEPT ![Top(t).obj][i] = NULL]
        BY <1>t, <2>3 DEF GraphType, Cut
      <4> QED BY <2>1, <4>1
    <3>6. GraphType'
      BY <1>t, <2>1, <2>3, <3>5 DEF GraphType, Cut
    <3> QED BY <1>p, <1>c, <2>1, <3>4, <3>6
  <2> QED BY <1>7, <2>2, <2>3, UnbindIs
<1>8. CASE unbind_dec(t)
  <2>1. /\ At(t, {"unref"}) /\ Top(t).obj \in Objs /\ list' \subseteq list
        /\ bound' = [bound EXCEPT ![Top(t).obj] = Dec(@)]
        /\ UNCHANGED <<alive, name, outs, users, inited, deleted, enable, fbVars, refVars>>
    BY <1>8, UnbindDecIs
  <2>2. GraphType' /\ CountType'
    BY <1>t, <2>1 DEF GraphType, CountType, Dec
  <2>3. CASE stk' = [stk EXCEPT ![t] = Below(t)]
    BY <1>p, <1>0, <2>1, <2>2, <2>3
  <2>4. ASSUME NEW r \in Record, r.op = "free", r.obj = Top(t).obj,
               stk' = [stk EXCEPT ![t] = Append(Below(t), r)]
        PROVE  TypeInv'
    BY <1>p, <1>1, <1>5, <2>1, <2>2, <2>4
  <2> QED BY <1>8, <2>3, <2>4, UnbindDecIs
<1>9. CASE unlock(t)
  <2>1. At(t, {"unlock"}) /\ stk' = [stk EXCEPT ![t] = Below(t)] /\ UNCHANGED <<objVars, fbVars, refVars>>
    BY <1>9 DEF unlock, Pop
  <2> QED BY <1>p, <1>g, <1>c, <1>0, <2>1
<1>10. CASE output_next(t)
  <2>1. /\ At(t, {"walk"}) /\ Top(t).obj \in Objs
        /\ UNCHANGED <<graphVars, inited, deleted, enable, fbVars, refVars>>
    BY <1>10, OutputNextIs
  <2>2. PICK w \in Record :
          /\ w.op = "walk" /\ w.obj = Top(t).obj /\ w.fb = Top(t).fb
          /\ \/ stk' = [stk EXCEPT ![t] = Append(Below(t), w)] /\ users' = users
             \/ \E o \in enable, r \in Record :
                 /\ users' = [users EXCEPT ![o] = @ + 1]
                 /\ r.op = "trans" /\ r.obj = o /\ r.fb = Top(t).fb
                 /\ stk' = [stk EXCEPT ![t] = Append(Append(Below(t), w), r)]
    BY <1>10, OutputNextIs
  <2>3. RecordOK(w)' /\ (Top(t).fb # NULL => owner[Top(t).fb] # NULL)
    BY <2>1, <2>2, TopOK DEF RecordOK
  <2>4. CASE stk' = [stk EXCEPT ![t] = Append(Below(t), w)] /\ users' = users
    BY <1>p, <1>g, <1>c, <1>1, <2>1, <2>3, <2>4
  <2>5. ASSUME NEW o \in enable, NEW r \in Record, users' = [users EXCEPT ![o] = @ + 1],
               r.op = "trans", r.obj = o, r.fb = Top(t).fb,
               stk' = [stk EXCEPT ![t] = Append(Append(Below(t), w), r)]
        PROVE  TypeInv'
    <3>1. o \in Objs
      BY <1>t DEF GraphType
    <3>2. RecordOK(r)'
      BY <2>1, <2>3, <2>5, <3>1 DEF RecordOK
    <3>3. CountType'
      BY <1>t, <2>1, <2>5, <3>1 DEF CountType
    <3> QED BY <1>p, <1>g, <1>2, <2>1, <2>3, <2>5, <3>2, <3>3
  <2> QED BY <2>2, <2>4, <2>5
<1>11. CASE fbq_enqueue(t)
  <2>1. /\ At(t, {"trans"}) /\ Top(t).obj \in Objs /\ Top(t).fb \in Frames
        /\ queue' = [queue EXCEPT ![Top(t).fb] = Top(t).obj] /\ UNCHANGED <<objVars, owner, refVars>>
    BY <1>11, EnqueueIs
  <2>2. PICK r \in Record : /\ r.op = "put" /\ r.obj = Top(t).obj
                            /\ stk' = [stk EXCEPT ![t] = Append(Below(t), r)]
    BY <1>11, EnqueueIs
  <2>3. RecordOK(r)'
    BY <2>1, <2>2 DEF RecordOK
  <2>4. owner[Top(t).fb] # NULL
    <3>1. Top(t).fb # NULL
      BY <2>1
    <3> QED BY <2>1, <3>1, TopOK DEF RecordOK
  <2>5. queue' \in [Frames -> Objs \cup {NULL}] /\ FrameInv'
    BY <1>t, <2>1, <2>4 DEF FrameInv
  <2>6. stk' \in [Threads -> Seq(Record)] /\ CallInv'
    BY <1>1, <2>1, <2>2, <2>3
  <2> QED BY <1>t, <1>g, <1>c, <2>1, <2>5, <2>6 DEF TypeInv, TypeOK
<1>12. CASE trans_forward(t)
  <2>1. At(t, {"trans"}) /\ Top(t).obj \in Objs /\ UNCHANGED <<objVars, fbVars, refVars>>
    BY <1>12, ForwardIs
  <2>2. PICK r, w \in Record :
          /\ r.op = "put" /\ r.obj = Top(t).obj
          /\ w.op = "walk" /\ w.obj = Top(t).obj /\ w.fb = Top(t).fb
          /\ stk' = [stk EXCEPT ![t] = Append(Append(Below(t), r), w)]
    BY <1>12, ForwardIs
  <2>3. RecordOK(r)' /\ RecordOK(w)'
    BY <2>1, <2>2, TopOK DEF RecordOK
  <2> QED BY <1>p, <1>g, <1>c, <1>2, <2>1, <2>2, <2>3
<1>13. ASSUME NEW f \in Frames, put_drain(t, f) PROVE TypeInv'
  <2>1. /\ At(t, LastOps) /\ Top(t).obj \in Objs /\ queue' = [queue EXCEPT ![f] = NULL]
        /\ UNCHANGED <<objVars, refVars>>
    BY <1>13, PutDrainIs
  <2>2. queue' \in [Frames -> Objs \cup {NULL}]
    BY <1>t, <2>1
  <2>3. PICK r \in Record :
          /\ r.op = "drain" /\ r.obj = Top(t).obj
          /\ \/ stk' = [stk EXCEPT ![t] = Append(Below(t), r)] /\ owner' = owner
             \/ /\ Dropped(t, stk[t], f) /\ owner[f] \in Objs
                /\ \E q \in Record : /\ q.op = "put" /\ q.obj = owner[f]
                                     /\ stk' = [stk EXCEPT ![t] = Append(Append(Below(t), r), q)]
    BY <1>13, PutDrainIs
  <2>4. RecordOK(r)'
    BY <2>1, <2>3 DEF RecordOK
  <2>5. CASE stk' = [stk EXCEPT ![t] = Append(Below(t), r)] /\ owner' = owner
    <3>1. FrameInv'
      BY <1>t, <2>1, <2>5 DEF FrameInv
    <3>2. stk' \in [Threads -> Seq(Record)] /\ CallInv'
      BY <1>1, <2>1, <2>4, <2>5
    <3> QED BY <1>t, <1>g, <1>c, <2>1, <2>2, <2>5, <3>1, <3>2 DEF TypeInv, TypeOK
  <2>6. ASSUME Dropped(t, stk[t], f), owner[f] \in Objs, NEW q \in Record, q.op = "put",
               q.obj = owner[f], stk' = [stk EXCEPT ![t] = Append(Append(Below(t), r), q)]
        PROVE  TypeInv'
    <3>1. RecordOK(q)'
      BY <2>6 DEF RecordOK
    <3>2. Dropped(t, Below(t), f)
      BY <2>1, <2>6, TopOK DEF Dropped
    <3>3. stk' \in [Threads -> Seq(Record)] /\ CallInv'
      BY <1>2, <2>1, <2>4, <2>6, <3>1, <3>2
    <3>4. owner' \in [Frames -> Objs \cup {NULL}] /\ FrameInv'
      BY <1>t, <2>1, <2>6 DEF FrameInv, Dropped
    <3> QED BY <1>t, <1>g, <1>c, <2>1, <2>2, <3>3, <3>4 DEF TypeInv, TypeOK
  <2> QED BY <2>3, <2>5, <2>6
<1>14. ASSUME NEW last \in BOOLEAN, output_done(t, last) PROVE TypeInv'
  <2>1. At(t, {"walk"}) /\ UNCHANGED <<objVars, queue, refVars>>
    BY <1>14, OutputDoneIs
  <2>2. CASE stk' = [stk EXCEPT ![t] = Below(t)] /\ owner' = owner
    BY <1>p, <1>g, <1>c, <1>0, <2>1, <2>2
  <2>3. ASSUME NEW f \in Frames, NEW r \in Record, queue[f] = NULL, owner[f] \in Objs,
               r.op = "put", r.obj = owner[f],
               stk' = [stk EXCEPT ![t] = Append(Below(t), r)], Dropped(t, Below(t), f)
        PROVE  TypeInv'
    <3>1. RecordOK(r)'
      BY <2>3 DEF RecordOK
    <3>2. Grown(t, Below(t), Append(Below(t), r))
      BY <2>1, <3>1, TopOK DEF Grown
    <3>3. stk' \in [Threads -> Seq(Record)] /\ CallInv'
      BY <2>3, <3>2, StackTypes
    <3>4. owner' \in [Frames -> Objs \cup {NULL}] /\ FrameInv'
      BY <1>t, <2>1, <2>3 DEF FrameInv, Dropped
    <3> QED BY <1>t, <1>g, <1>c, <2>1, <3>3, <3>4 DEF TypeInv, TypeOK
  <2> QED BY <1>14, <2>2, <2>3, OutputDoneIs
<1> QED BY <1>3, <1>4, <1>6, <1>7, <1>8, <1>9, <1>10, <1>11, <1>12, <1>13, <1>14 DEF Step

LEMMA TypesStart == Init => TypeInv
<1> SUFFICES ASSUME Init PROVE TypeInv
  OBVIOUS
<1>1. GraphType /\ CountType
  BY DEF Init, GraphType, CountType
<1>2. owner \in [Frames -> Objs \cup {NULL}] /\ queue \in [Frames -> Objs \cup {NULL}] /\ FrameInv
  BY DEF Init, FrameInv
<1>3. stk \in [Threads -> Seq(Record)] /\ \A t \in Threads : stk[t] = <<>>
  BY DEF Init
<1>4. CallInv
  BY <1>3, NoRecords DEF CallInv
<1> QED BY <1>1, <1>2, <1>3, <1>4 DEF TypeInv, TypeOK

LEMMA TypesStay == TypeInv /\ [Next]_vars => TypeInv'
<1> SUFFICES ASSUME TypeInv, [Next]_vars PROVE TypeInv'
  OBVIOUS
<1>1. CASE Next
  BY <1>1, CallTypes, FrameTypes, StepTypes DEF Next
<1>2. CASE UNCHANGED vars
  BY <1>2 DEF vars, objVars, graphVars, fbVars, refVars, TypeInv, TypeOK, GraphType, CountType,
      CallInv, FrameInv, RecordOK
<1> QED BY <1>1, <1>2

(* Every field, counter and activation record keeps its type for any       *)
(* number of threads: no step of msi_put, msi_free, msi_unbind or of the   *)
(* callbacks they run meets a record without a component, and no frame     *)
(* that is put has lost its owner.                                         *)
THEOREM GraphTypeCorrect == Spec => []TypeOK
<1>1. TypeInv => TypeOK
  BY DEF TypeInv
<1> QED BY <1>1, TypesStart, TypesStay, PTL DEF Spec

-----------------------------------------------------------------------------
(* How the stack of t changes. *)
LEMMA Pushed ==
  ASSUME TypeInv, NEW t \in Threads, NEW r \in Record,
         stk' = [stk EXCEPT ![t] = Append(stk[t], r)]
  PROVE  /\ stk'[t] = Append(stk[t], r) /\ stk[t] \in Seq(Record) /\ stk'[t] \in Seq(Record)
         /\ Recs(stk'[t]) = Recs(stk[t]) \cup {r}
         /\ \A D : Num(stk'[t], D) = Num(stk[t], D) + One(r \in D)
<1>1. stk'[t] = Append(stk[t], r) /\ stk[t] \in Seq(Record)
  BY DEF TypeInv, TypeOK
<1> QED BY <1>1, OneMore

LEMMA PushedTwo ==
  ASSUME TypeInv, NEW t \in Threads, NEW r \in Record, NEW q \in Record,
         stk' = [stk EXCEPT ![t] = Append(Append(stk[t], r), q)]
  PROVE  /\ stk'[t] \in Seq(Record) /\ Recs(stk'[t]) = Recs(stk[t]) \cup {r} \cup {q}
         /\ \A D : Num(stk'[t], D) = Num(stk[t], D) + One(r \in D) + One(q \in D)
<1>1. stk'[t] = Append(Append(stk[t], r), q) /\ stk[t] \in Seq(Record)
  BY DEF TypeInv, TypeOK
<1> DEFINE s == Append(stk[t], r)
<1>2. /\ s \in Seq(Record) /\ Recs(s) = Recs(stk[t]) \cup {r}
      /\ \A D : Num(s, D) = Num(stk[t], D) + One(r \in D)
  BY <1>1, OneMore
<1> HIDE DEF s
<1>3. /\ Append(s, q) \in Seq(Record) /\ Recs(Append(s, q)) = Recs(s) \cup {q}
      /\ \A D : Num(Append(s, q), D) = Num(s, D) + One(q \in D)
  BY <1>2, OneMore
<1>4. stk'[t] = Append(s, q)
  BY <1>1 DEF s
<1> QED BY <1>2, <1>3, <1>4

LEMMA Popped ==
  ASSUME TypeInv, NEW t \in Threads, NEW ops, At(t, ops), stk' = [stk EXCEPT ![t] = Below(t)]
  PROVE  /\ stk'[t] = Below(t) /\ stk'[t] \in Seq(Record) /\ Recs(stk[t]) = Recs(stk'[t]) \cup {Top(t)}
         /\ \A D : Num(stk[t], D) = Num(stk'[t], D) + One(Top(t) \in D)
<1>1. stk'[t] = Below(t)
  BY DEF TypeInv, TypeOK
<1> QED BY <1>1, TopOK

LEMMA Turned ==
  ASSUME TypeInv, NEW t \in Threads, NEW ops, At(t, ops), NEW r \in Record,
         stk' = [stk EXCEPT ![t] = Append(Below(t), r)]
  PROVE  /\ stk'[t] = Append(Below(t), r) /\ stk'[t] \in Seq(Record)
         /\ Recs(stk'[t]) = Recs(Below(t)) \cup {r}
         /\ \A D : Num(stk'[t], D) + One(Top(t) \in D) = Num(stk[t], D) + One(r \in D)
<1>1. stk'[t] = Append(Below(t), r)
  BY DEF TypeInv, TypeOK
<1>2. Below(t) \in Seq(Record) /\ \A D : Num(stk[t], D) = Num(Below(t), D) + One(Top(t) \in D)
  BY TopOK
<1>3. /\ stk'[t] \in Seq(Record) /\ Recs(stk'[t]) = Recs(Below(t)) \cup {r}
      /\ \A D : Num(stk'[t], D) = Num(Below(t), D) + One(r \in D)
  BY <1>1, <1>2, OneMore
<1>4. \A D : Num(Below(t), D) \in Nat
  BY <1>2, NumIs
<1> QED BY <1>1, <1>2, <1>3, <1>4 DEF One

LEMMA TurnedTwo ==
  ASSUME TypeInv, NEW t \in Threads, NEW ops, At(t, ops), NEW r \in Record, NEW q \in Record,
         stk' = [stk EXCEPT ![t] = Append(Append(Below(t), r), q)]
  PROVE  /\ stk'[t] \in Seq(Record) /\ Recs(stk'[t]) = Recs(Below(t)) \cup {r} \cup {q}
         /\ \A D : Num(stk'[t], D) + One(Top(t) \in D) = Num(stk[t], D) + One(r \in D) + One(q \in D)
<1>1. stk'[t] = Append(Append(Below(t), r), q)
  BY DEF TypeInv, TypeOK
<1>2. Below(t) \in Seq(Record) /\ \A D : Num(stk[t], D) = Num(Below(t), D) + One(Top(t) \in D)
  BY TopOK
<1> DEFINE s == Append(Below(t), r)
<1>3. /\ s \in Seq(Record) /\ Recs(s) = Recs(Below(t)) \cup {r}
      /\ \A D : Num(s, D) = Num(Below(t), D) + One(r \in D)
  BY <1>2, OneMore
<1> HIDE DEF s
<1>4. /\ Append(s, q) \in Seq(Record) /\ Recs(Append(s, q)) = Recs(s) \cup {q}
      /\ \A D : Num(Append(s, q), D) = Num(s, D) + One(q \in D)
  BY <1>3, OneMore
<1>5. stk'[t] = Append(s, q)
  BY <1>1 DEF s
<1>6. ASSUME NEW D
      PROVE  Num(stk'[t], D) + One(Top(t) \in D) = Num(stk[t], D) + One(r \in D) + One(q \in D)
  <2>1. Num(Below(t), D) \in Nat
    BY <1>2, NumIs
  <2>2. /\ Num(stk[t], D) = Num(Below(t), D) + One(Top(t) \in D)
        /\ Num(stk'[t], D) = Num(Below(t), D) + One(r \in D) + One(q \in D)
    BY <1>2, <1>3, <1>4, <1>5
  <2> QED BY <2>1, <2>2 DEF One
<1>7. stk'[t] \in Seq(Record) /\ Recs(stk'[t]) = Recs(Below(t)) \cup {r} \cup {q}
  BY <1>3, <1>4, <1>5
<1> QED BY <1>6, <1>7

(* The classes a record is in. *)
LEMMA Classes ==
  ASSUME NEW r \in Record, NEW o
  PROVE  /\ r \in Ref(o) <=> r.op \in RefOps /\ r.obj = o
         /\ r \in Last(o) <=> r.op \in LastOps /\ r.obj = o
         /\ r \in Last0(o) <=> r.op \in LastOps /\ r.obj = o /\ r.n = 0
         /\ r \in Free(o) <=> r.op = "free" /\ r.obj = o
         /\ r \in Unref(o) <=> r.op = "unref" /\ r.obj = o
BY DEF Ref, Last, Last0, Free, Unref

(* Samples are on top. *)
LEMMA Unsampled ==
  ASSUME NEW t, stk'[t] \in Seq(Record), \A r \in Recs(stk'[t]) : r.op \notin Sampled
  PROVE  SampleInv(t)'
<1>1. ASSUME NEW b \in Seq(Record), NEW r \in Record, stk'[t] = Append(b, r)
      PROVE  (\A q \in Recs(b) : q.op \notin Sampled) /\ r.op \notin Sampled
  <2>1. Recs(stk'[t]) = Recs(b) \cup {r}
    BY <1>1, OneMore
  <2> QED BY <2>1
<1> QED BY <1>1 DEF SampleInv, Sampled

LEMMA SampledTop ==
  ASSUME NEW t, NEW c \in Seq(Record), NEW p \in Record, stk'[t] = Append(c, p),
         \A q \in Recs(c) : q.op \notin Sampled,
         p.op = "dec" => p.n = bound'[p.obj] /\ p.k = inited'[p.obj],
         p.op = "unref" => p.n = users'[p.obj]
  PROVE  SampleInv(t)'
<1>1. ASSUME NEW b \in Seq(Record), NEW r \in Record, stk'[t] = Append(b, r)
      PROVE  b = c /\ r = p
  <2>1. Append(b, r) = Append(c, p)
    BY <1>1
  <2> QED BY <2>1, AppendInjective
<1> QED BY <1>1 DEF SampleInv

LEMMA SamplesAre ==
  ASSUME TypeInv, NEW t \in Threads, SampleInv(t), NEW ops, At(t, ops)
  PROVE  /\ \A q \in Recs(Below(t)) : q.op \notin Sampled
         /\ Top(t).op = "dec" => Top(t).n = bound[Top(t).obj] /\ Top(t).k = inited[Top(t).obj]
         /\ Top(t).op = "unref" => Top(t).n = users[Top(t).obj]
         /\ Top(t).op \notin Sampled => \A q \in Recs(stk[t]) : q.op \notin Sampled
<1>1. /\ Below(t) \in Seq(Record) /\ Top(t) \in Record /\ stk[t] = Append(Below(t), Top(t))
      /\ Recs(stk[t]) = Recs(Below(t)) \cup {Top(t)}
  BY TopOK
<1>2. /\ \A q \in Recs(Below(t)) : q.op \notin Sampled
      /\ Top(t).op = "dec" => Top(t).n = bound[Top(t).obj] /\ Top(t).k = inited[Top(t).obj]
      /\ Top(t).op = "unref" => Top(t).n = users[Top(t).obj]
  BY <1>1 DEF SampleInv
<1> QED BY <1>1, <1>2

-----------------------------------------------------------------------------
(* The component graph, with one thread. *)

(* What the invariant says of a component, of an entry and of a frame. *)
LEMMA Facts ==
  ASSUME NEW t, Threads = {t}, GraphInv
  PROVE  /\ t \in Threads /\ TypeInv /\ ThreadInv(t) /\ ZeroedInv /\ NameInv
         /\ \A o \in Objs :
              /\ users[o] \in Nat /\ bound[o] \in Nat /\ inited[o] \in Nat
              /\ made[o] \in Nat /\ found[o] \in Nat
              /\ Num(stk[t], Ref(o)) \in Nat /\ Num(stk[t], Last(o)) \in Nat
              /\ Num(stk[t], Last0(o)) \in Nat /\ Num(stk[t], Free(o)) \in Nat
              /\ Num(stk[t], Unref(o)) \in Nat
              /\ Num(stk[t], Last0(o)) <= Num(stk[t], Last(o))
              /\ Cardinality(Owned(owner, o)) \in Nat /\ Cardinality(Ptrs(outs, o)) \in Nat
              /\ made[o] > 0 \/ found[o] > 0 \/ Num(stk[t], Ref(o)) > 0 => users[o] > 0
              /\ users[o] > 0 \/ bound[o] > 0 => o \in list /\ o \in alive
              /\ Num(stk[t], Unref(o)) > 0 => bound[o] > 0
         /\ \A p \in Objs, i \in Outs : outs[p][i] # NULL =>
                outs[p][i] \in Objs /\ bound[outs[p][i]] > 0
         /\ \A f \in Frames : owner[f] # NULL => owner[f] \in Objs /\ users[owner[f]] > 0
<1>1. t \in Threads /\ TypeInv /\ ThreadInv(t) /\ ZeroedInv /\ NameInv
  BY DEF GraphInv, TypeInv
<1>2. stk[t] \in Seq(Record)
  BY <1>1, RecsOK
<1>3. ASSUME NEW o \in Objs
      PROVE  /\ users[o] \in Nat /\ bound[o] \in Nat /\ inited[o] \in Nat
             /\ made[o] \in Nat /\ found[o] \in Nat
             /\ Num(stk[t], Ref(o)) \in Nat /\ Num(stk[t], Last(o)) \in Nat
             /\ Num(stk[t], Last0(o)) \in Nat /\ Num(stk[t], Free(o)) \in Nat
             /\ Num(stk[t], Unref(o)) \in Nat
             /\ Num(stk[t], Last0(o)) <= Num(stk[t], Last(o))
             /\ Cardinality(Owned(owner, o)) \in Nat /\ Cardinality(Ptrs(outs, o)) \in Nat
  <2>1. /\ users[o] \in Nat /\ bound[o] \in Nat /\ inited[o] \in Nat
        /\ made[o] \in Nat /\ found[o] \in Nat
    BY <1>1 DEF TypeInv, TypeOK, CountType
  <2>2. \A D : Num(stk[t], D) \in Nat
    BY <1>2, NumIs
  <2>3. Last0(o) \subseteq Last(o)
    BY DEF Last0, Last
  <2>4. Num(stk[t], Last0(o)) <= Num(stk[t], Last(o))
    BY <1>2, <2>3, NumSub
  <2> QED BY <2>1, <2>2, <2>4, OwnedCount, PtrsCount
<1>4. ASSUME NEW o \in Objs
      PROVE  /\ users[o] = made[o] + found[o] + Cardinality(Owned(owner, o)) + Num(stk[t], Ref(o))
             /\ bound[o] = Cardinality(Ptrs(outs, o)) + Num(stk[t], Unref(o))
  BY <1>1 DEF ThreadInv, RefsInv, BoundInv
<1>5. ASSUME NEW o \in Objs
      PROVE  /\ made[o] > 0 \/ found[o] > 0 \/ Num(stk[t], Ref(o)) > 0 => users[o] > 0
             /\ Num(stk[t], Unref(o)) > 0 => bound[o] > 0
  BY <1>3, <1>4
<1>6. ASSUME NEW o \in Objs, users[o] > 0 \/ bound[o] > 0 PROVE o \in list /\ o \in alive
  <2>1. users[o] # 0 \/ bound[o] # 0
    BY <1>3, <1>6
  <2>2. o \in alive
    BY <1>1, <2>1 DEF ZeroedInv
  <2>3. ~ (Num(stk[t], Free(o)) > 0)
    BY <1>1, <2>1 DEF ThreadInv, FreeInv
  <2> QED BY <1>1, <2>2, <2>3 DEF ThreadInv, FreeInv
<1>7. ASSUME NEW p \in Objs, NEW i \in Outs, outs[p][i] # NULL
      PROVE  outs[p][i] \in Objs /\ bound[outs[p][i]] > 0
  <2>1. outs[p][i] \in Objs
    BY <1>1, <1>7 DEF TypeInv, TypeOK, GraphType
  <2>2. Cardinality(Ptrs(outs, outs[p][i])) > 0
    BY PtrsCount
  <2> QED BY <1>3, <1>4, <2>1, <2>2
<1>8. ASSUME NEW f \in Frames, owner[f] # NULL PROVE owner[f] \in Objs /\ users[owner[f]] > 0
  <2>1. owner[f] \in Objs
    BY <1>1, <1>8 DEF TypeInv, TypeOK
  <2>2. Cardinality(Owned(owner, owner[f])) > 0
    BY OwnedCount
  <2> QED BY <1>3, <1>4, <2>1, <2>2
<1> QED BY <1>1, <1>3, <1>5, <1>6, <1>7, <1>8

(* Steps that change no component, and on the stack nothing but            *)
(* references: what is left to show of them.                               *)
Even(t) ==
    \A o \in Objs : /\ Num(stk'[t], Last(o)) = Num(stk[t], Last(o))
                    /\ Num(stk'[t], Last0(o)) = Num(stk[t], Last0(o))
                    /\ Num(stk'[t], Free(o)) = Num(stk[t], Free(o))
                    /\ Num(stk'[t], Unref(o)) = Num(stk[t], Unref(o))

LEMMA Quiet ==
  ASSUME NEW t, Threads = {t}, GraphInv, UNCHANGED <<objVars, made>>,
         Even(t),
         \A f \in Frames : queue'[f] # NULL =>
             queue'[f] = queue[f] \/ (queue'[f] \in Objs /\ users[queue'[f]] > 0),
         RefsInv(t)', SampleInv(t)',
         \A r \in Recs(stk'[t]) : r.op = "walk" => made[r.obj] > 0
  PROVE  ThreadInv(t)' /\ ZeroedInv' /\ NameInv'
<1> USE DEF objVars, graphVars
<1>1. ThreadInv(t) /\ ZeroedInv /\ NameInv /\ TypeInv
  BY Facts
<1>2. ZeroedInv' /\ NameInv'
  BY <1>1 DEF ZeroedInv, NameInv
<1>3. BoundInv(t)'
  BY <1>1 DEF ThreadInv, BoundInv, Even
<1>4. OwnedInv(t)'
  BY <1>1 DEF ThreadInv, OwnedInv
<1>5. LastInv(t)'
  BY <1>1 DEF ThreadInv, LastInv, Even
<1>6. FreeInv(t)'
  BY <1>1 DEF ThreadInv, FreeInv, Even
<1>7. DeletedInv(t)'
  <2>1. deleted \subseteq Objs
    BY <1>1 DEF TypeInv, TypeOK, GraphType
  <2> QED BY <1>1, <2>1 DEF ThreadInv, DeletedInv, Even
<1>8. QueueInv(t)'
  <2>1. \A f \in Frames : queue[f] # NULL => queue[f] \in Objs
    BY <1>1 DEF TypeInv, TypeOK
  <2> QED BY <1>1, <2>1 DEF ThreadInv, QueueInv, Even
<1> QED BY <1>2, <1>3, <1>4, <1>5, <1>6, <1>7, <1>8 DEF ThreadInv

(* The put of the last count of a frame takes the frame's reference over. *)
LEMMA Handover ==
  ASSUME NEW t, Threads = {t}, GraphInv, UNCHANGED <<users, made, found>>,
         NEW f \in Frames, owner[f] \in Objs, owner' = [owner EXCEPT ![f] = NULL],
         \A o \in Objs : Num(stk'[t], Ref(o)) = Num(stk[t], Ref(o)) + One(owner[f] = o)
  PROVE  RefsInv(t)'
<1>1. TypeInv /\ ThreadInv(t)
  BY Facts
<1>2. ASSUME NEW o \in Objs
      PROVE  users[o] = made[o] + found[o] + Cardinality(Owned(owner', o)) + Num(stk'[t], Ref(o))
  <2>1. /\ users[o] = made[o] + found[o] + Cardinality(Owned(owner, o)) + Num(stk[t], Ref(o))
        /\ users[o] \in Nat /\ made[o] \in Nat /\ found[o] \in Nat
        /\ Cardinality(Owned(owner, o)) \in Nat /\ Num(stk[t], Ref(o)) \in Nat
    BY <1>1, Facts DEF ThreadInv, RefsInv
  <2>2. Given(owner, owner', f, NULL) /\ NULL # o
    BY <1>1, MsiAssumption DEF TypeInv, TypeOK, Given
  <2>3. Cardinality(Owned(owner', o)) = Cardinality(Owned(owner, o)) - One(owner[f] = o) + One(NULL = o)
    BY <2>2, SetOwner
  <2> QED BY <2>1, <2>2, <2>3 DEF One
<1> QED BY <1>2 DEF RefsInv

LEMMA SameRefs ==
  ASSUME NEW t, Threads = {t}, GraphInv, UNCHANGED <<users, made, found, owner>>,
         \A o \in Objs : Num(stk'[t], Ref(o)) = Num(stk[t], Ref(o))
  PROVE  RefsInv(t)'
<1>1. RefsInv(t)
  BY Facts DEF ThreadInv
<1> QED BY <1>1 DEF RefsInv

LEMMA PutReadKeeps ==
  ASSUME NEW t, Threads = {t}, GraphInv, put_read(t)
  PROVE  ThreadInv(t)' /\ ZeroedInv' /\ NameInv'
<1> USE DEF objVars, graphVars, fbVars, refVars
<1>1. t \in Threads /\ TypeInv /\ ThreadInv(t)
  BY Facts
<1>2. At(t, {"pre", "trans", "put"}) /\ Top(t).obj \in Objs /\ UNCHANGED <<objVars, fbVars, refVars>>
  BY <1>1, PutReadIs
<1>3. PICK r \in Record :
        /\ r.op = "dec" /\ r.obj = Top(t).obj /\ r.n = bound[r.obj] /\ r.k = inited[r.obj]
        /\ stk' = [stk EXCEPT ![t] = Append(Below(t), r)]
  BY <1>1, PutReadIs
<1>4. /\ stk'[t] = Append(Below(t), r) /\ Recs(stk'[t]) = Recs(Below(t)) \cup {r}
      /\ \A D : Num(stk'[t], D) + One(Top(t) \in D) = Num(stk[t], D) + One(r \in D)
      /\ stk'[t] \in Seq(Record)
  BY <1>1, <1>2, <1>3, Turned
<1>5. /\ Top(t) \in Record /\ Top(t).op \in {"pre", "trans", "put"}
      /\ Below(t) \in Seq(Record) /\ Recs(Below(t)) \subseteq Recs(stk[t])
  BY <1>1, <1>2, TopOK
<1>6. ASSUME NEW o \in Objs
      PROVE  /\ Num(stk'[t], Ref(o)) = Num(stk[t], Ref(o))
             /\ Num(stk'[t], Last(o)) = Num(stk[t], Last(o))
             /\ Num(stk'[t], Last0(o)) = Num(stk[t], Last0(o))
             /\ Num(stk'[t], Free(o)) = Num(stk[t], Free(o))
             /\ Num(stk'[t], Unref(o)) = Num(stk[t], Unref(o))
  <2>1. \A D : Num(stk'[t], D) \in Nat /\ Num(stk[t], D) \in Nat
    BY <1>1, <1>4, NumIs, RecsOK
  <2>2. /\ r \in Ref(o) <=> Top(t) \in Ref(o)
        /\ r \notin Last(o) /\ r \notin Last0(o) /\ r \notin Free(o) /\ r \notin Unref(o)
        /\ Top(t) \notin Last(o) /\ Top(t) \notin Last0(o) /\ Top(t) \notin Free(o)
        /\ Top(t) \notin Unref(o)
    BY <1>3, <1>5, Classes DEF RefOps, LastOps
  <2> QED BY <1>4, <2>1, <2>2 DEF One
<1>7. RefsInv(t)'
  BY <1>2, <1>6, SameRefs
<1>8. SampleInv(t)'
  <2>1. \A q \in Recs(Below(t)) : q.op \notin Sampled
    BY <1>1, <1>2, SamplesAre DEF ThreadInv
  <2> QED BY <1>2, <1>3, <1>4, <1>5, <2>1, SampledTop
<1>9. \A q \in Recs(stk'[t]) : q.op = "walk" => made[q.obj] > 0
  BY <1>1, <1>3, <1>4, <1>5 DEF ThreadInv, OwnedInv
<1> QED BY <1>2, <1>6, <1>7, <1>8, <1>9, Quiet DEF Even

(* The records that do not count for the graph. *)
Light == {"unlock", "walk"} \cup RefOps

LEMMA LightIs ==
  ASSUME NEW r \in Record, r.op \in Light, NEW o
  PROVE  /\ r \notin Last(o) /\ r \notin Last0(o) /\ r \notin Free(o) /\ r \notin Unref(o)
         /\ r.op \in RefOps => (r \in Ref(o) <=> r.obj = o)
         /\ r.op \notin RefOps => r \notin Ref(o)
BY Classes DEF Light, RefOps, LastOps

(* A step that changes no component and starts with no sample. *)
Fresh(t) == Idle(t) \/ (stk[t] # <<>> /\ Top(t).op \notin Sampled)

LEMMA QuietStep ==
  ASSUME NEW t, Threads = {t}, GraphInv, UNCHANGED <<objVars, made>>,
         Fresh(t), stk'[t] \in Seq(Record),
         \A r \in Recs(stk'[t]) :
             r \in Recs(stk[t]) \/ (r.op \notin Sampled /\ (r.op = "walk" => made[r.obj] > 0)),
         Even(t),
         \A f \in Frames : queue'[f] # NULL =>
             queue'[f] = queue[f] \/ (queue'[f] \in Objs /\ users[queue'[f]] > 0),
         RefsInv(t)'
  PROVE  ThreadInv(t)' /\ ZeroedInv' /\ NameInv'
<1>1. t \in Threads /\ TypeInv /\ ThreadInv(t)
  BY Facts
<1>2. \A r \in Recs(stk[t]) : r.op \notin Sampled
  <2>1. CASE Idle(t)
    BY <1>1, <2>1, Idles
  <2>2. CASE stk[t] # <<>> /\ Top(t).op \notin Sampled
    <3>1. At(t, {Top(t).op})
      BY <2>2 DEF At
    <3> QED BY <1>1, <2>2, <3>1, SamplesAre DEF ThreadInv
  <2> QED BY <2>1, <2>2 DEF Fresh
<1>3. SampleInv(t)'
  BY <1>2, Unsampled
<1>4. \A r \in Recs(stk'[t]) : r.op = "walk" => made[r.obj] > 0
  BY <1>1 DEF ThreadInv, OwnedInv
<1> QED BY <1>3, <1>4, Quiet

LEMMA UnlockKeeps ==
  ASSUME NEW t, Threads = {t}, GraphInv, unlock(t)
  PROVE  ThreadInv(t)' /\ ZeroedInv' /\ NameInv'
<1> USE DEF objVars, graphVars, fbVars, refVars
<1>1. t \in Threads /\ TypeInv
  BY Facts
<1>2. /\ At(t, {"unlock"}) /\ stk' = [stk EXCEPT ![t] = Below(t)]
      /\ UNCHANGED <<objVars, fbVars, refVars>>
  BY DEF unlock, Pop
<1>3. /\ stk'[t] \in Seq(Record) /\ Recs(stk[t]) = Recs(stk'[t]) \cup {Top(t)}
      /\ \A D : Num(stk[t], D) = Num(stk'[t], D) + One(Top(t) \in D)
  BY <1>1, <1>2, Popped
<1>4. Top(t) \in Record /\ Top(t).op = "unlock"
  BY <1>1, <1>2, TopOK
<1>5. ASSUME NEW o \in Objs
      PROVE  /\ Num(stk'[t], Ref(o)) = Num(stk[t], Ref(o))
             /\ Num(stk'[t], Last(o)) = Num(stk[t], Last(o))
             /\ Num(stk'[t], Last0(o)) = Num(stk[t], Last0(o))
             /\ Num(stk'[t], Free(o)) = Num(stk[t], Free(o))
             /\ Num(stk'[t], Unref(o)) = Num(stk[t], Unref(o))
  <2>1. \A D : Num(stk'[t], D) \in Nat
    BY <1>3, NumIs
  <2>2. /\ Top(t) \notin Ref(o) /\ Top(t) \notin Last(o) /\ Top(t) \notin Last0(o)
        /\ Top(t) \notin Free(o) /\ Top(t) \notin Unref(o)
    BY <1>4, LightIs DEF Light, RefOps
  <2> QED BY <1>3, <2>1, <2>2 DEF One
<1>6. RefsInv(t)'
  BY <1>2, <1>5, SameRefs
<1> QED BY <1>2, <1>3, <1>5, <1>6, QuietStep DEF Sampled, Fresh, At, Even

LEMMA EnqueueKeeps ==
  ASSUME NEW t, Threads = {t}, GraphInv, fbq_enqueue(t)
  PROVE  ThreadInv(t)' /\ ZeroedInv' /\ NameInv'
<1> USE DEF objVars, graphVars, fbVars, refVars
<1>1. t \in Threads /\ TypeInv
  BY Facts
<1>2. /\ At(t, {"trans"}) /\ Top(t).obj \in Objs /\ Top(t).fb \in Frames
      /\ queue' = [queue EXCEPT ![Top(t).fb] = Top(t).obj]
      /\ UNCHANGED <<objVars, owner, refVars>>
  BY <1>1, EnqueueIs
<1>3. PICK r \in Record : /\ r.op = "put" /\ r.obj = Top(t).obj
                          /\ stk' = [stk EXCEPT ![t] = Append(Below(t), r)]
  BY <1>1, EnqueueIs
<1>4. /\ stk'[t] \in Seq(Record) /\ Recs(stk'[t]) = Recs(Below(t)) \cup {r}
      /\ \A D : Num(stk'[t], D) + One(Top(t) \in D) = Num(stk[t], D) + One(r \in D)
  BY <1>1, <1>2, <1>3, Turned
<1>5. /\ Top(t) \in Record /\ Top(t).op = "trans" /\ Top(t) \in Recs(stk[t])
      /\ Recs(Below(t)) \subseteq Recs(stk[t])
  BY <1>1, <1>2, TopOK
<1>6. ASSUME NEW o \in Objs
      PROVE  /\ Num(stk'[t], Ref(o)) = Num(stk[t], Ref(o))
             /\ Num(stk'[t], Last(o)) = Num(stk[t], Last(o))
             /\ Num(stk'[t], Last0(o)) = Num(stk[t], Last0(o))
             /\ Num(stk'[t], Free(o)) = Num(stk[t], Free(o))
             /\ Num(stk'[t], Unref(o)) = Num(stk[t], Unref(o))
  <2>1. \A D : Num(stk'[t], D) \in Nat /\ Num(stk[t], D) \in Nat
    BY <1>1, <1>4, NumIs, RecsOK
  <2>2. /\ r \in Ref(o) <=> Top(t) \in Ref(o)
        /\ r \notin Last(o) /\ r \notin Last0(o) /\ r \notin Free(o) /\ r \notin Unref(o)
        /\ Top(t) \notin Last(o) /\ Top(t) \notin Last0(o) /\ Top(t) \notin Free(o)
        /\ Top(t) \notin Unref(o)
    BY <1>3, <1>5, LightIs DEF Light, RefOps
  <2> QED BY <1>4, <2>1, <2>2 DEF One
<1>7. RefsInv(t)'
  BY <1>2, <1>6, SameRefs
<1>8. users[Top(t).obj] > 0
  <2>1. Top(t) \in Ref(Top(t).obj)
    BY <1>5, Classes DEF RefOps
  <2>2. Num(stk[t], Ref(Top(t).obj)) > 0
    BY <1>1, <1>5, <2>1, NumIs, RecsOK
  <2> QED BY <1>2, <2>2, Facts
<1>9. \A f \in Frames : queue'[f] # NULL =>
          queue'[f] = queue[f] \/ (queue'[f] \in Objs /\ users[queue'[f]] > 0)
  BY <1>1, <1>2, <1>8 DEF TypeInv, TypeOK
<1> QED BY <1>2, <1>3, <1>4, <1>5, <1>6, <1>7, <1>9, QuietStep DEF Sampled, Fresh, At, Even

(* Records that do not count, taken from the stack and put on it: only the *)
(* references change.                                                      *)
IsRef(r, o) == r.op \in RefOps /\ r.obj = o

LEMMA LightPush ==
  ASSUME TypeInv, NEW t \in Threads, NEW r \in Record, r.op \in Light,
         stk' = [stk EXCEPT ![t] = Append(stk[t], r)]
  PROVE  /\ Even(t) /\ stk'[t] \in Seq(Record) /\ Recs(stk'[t]) = Recs(stk[t]) \cup {r}
         /\ \A o \in Objs : Num(stk'[t], Ref(o)) = Num(stk[t], Ref(o)) + One(IsRef(r, o))
<1>1. /\ stk[t] \in Seq(Record) /\ stk'[t] \in Seq(Record) /\ Recs(stk'[t]) = Recs(stk[t]) \cup {r}
      /\ \A D : Num(stk'[t], D) = Num(stk[t], D) + One(r \in D)
  BY Pushed
<1>2. \A D : Num(stk[t], D) \in Nat
  BY <1>1, NumIs
<1>3. \A o \in Objs : /\ r \notin Last(o) /\ r \notin Last0(o) /\ r \notin Free(o) /\ r \notin Unref(o)
                      /\ r \in Ref(o) <=> IsRef(r, o)
  BY LightIs DEF IsRef
<1> QED BY <1>1, <1>2, <1>3 DEF One, Even

LEMMA LightTurn ==
  ASSUME TypeInv, NEW t \in Threads, NEW ops, At(t, ops), ops \subseteq Light,
         NEW r \in Record, r.op \in Light, stk' = [stk EXCEPT ![t] = Append(Below(t), r)]
  PROVE  /\ Even(t) /\ stk'[t] \in Seq(Record)
         /\ \A q \in Recs(stk'[t]) : q \in Recs(stk[t]) \/ q = r
         /\ \A o \in Objs : Num(stk'[t], Ref(o)) + One(IsRef(Top(t), o))
                                = Num(stk[t], Ref(o)) + One(IsRef(r, o))
<1>1. /\ stk'[t] \in Seq(Record) /\ Recs(stk'[t]) = Recs(Below(t)) \cup {r}
      /\ \A D : Num(stk'[t], D) + One(Top(t) \in D) = Num(stk[t], D) + One(r \in D)
  BY Turned
<1>2. /\ Top(t) \in Record /\ Top(t).op \in Light /\ Recs(Below(t)) \subseteq Recs(stk[t])
  BY TopOK
<1>3. \A D : Num(stk[t], D) \in Nat /\ Num(stk'[t], D) \in Nat
  BY <1>1, NumIs, RecsOK
<1>4. ASSUME NEW o \in Objs
      PROVE  /\ Num(stk'[t], Last(o)) = Num(stk[t], Last(o))
             /\ Num(stk'[t], Last0(o)) = Num(stk[t], Last0(o))
             /\ Num(stk'[t], Free(o)) = Num(stk[t], Free(o))
             /\ Num(stk'[t], Unref(o)) = Num(stk[t], Unref(o))
             /\ Num(stk'[t], Ref(o)) + One(IsRef(Top(t), o))
                    = Num(stk[t], Ref(o)) + One(IsRef(r, o))
  <2>1. /\ r \notin Last(o) /\ r \notin Last0(o) /\ r \notin Free(o) /\ r \notin Unref(o)
        /\ r \in Ref(o) <=> IsRef(r, o)
    BY LightIs DEF IsRef
  <2>2. /\ Top(t) \notin Last(o) /\ Top(t) \notin Last0(o) /\ Top(t) \notin Free(o)
        /\ Top(t) \notin Unref(o) /\ (Top(t) \in Ref(o) <=> IsRef(Top(t), o))
    BY <1>2, LightIs DEF IsRef
  <2> QED BY <1>1, <1>3, <2>1, <2>2 DEF One
<1> QED BY <1>1, <1>2, <1>4 DEF Even

LEMMA ForwardKeeps ==
  ASSUME NEW t, Threads = {t}, GraphInv, trans_forward(t)
  PROVE  ThreadInv(t)' /\ ZeroedInv' /\ NameInv'
<1> USE DEF objVars, graphVars, fbVars, refVars
<1>1. t \in Threads /\ TypeInv /\ ThreadInv(t)
  BY Facts
<1>2. /\ At(t, {"trans"}) /\ Top(t).obj \in Objs /\ Top(t).obj \in enable
      /\ UNCHANGED <<objVars, fbVars, refVars>>
  BY <1>1, ForwardIs
<1>3. PICK r, w \in Record :
        /\ r.op = "put" /\ r.obj = Top(t).obj /\ w.op = "walk" /\ w.obj = Top(t).obj
        /\ stk' = [stk EXCEPT ![t] = Append(Append(Below(t), r), w)]
  BY <1>1, ForwardIs
<1>4. /\ stk'[t] \in Seq(Record) /\ Recs(stk'[t]) = Recs(Below(t)) \cup {r} \cup {w}
      /\ \A D : Num(stk'[t], D) + One(Top(t) \in D) = Num(stk[t], D) + One(r \in D) + One(w \in D)
  BY <1>1, <1>2, <1>3, TurnedTwo
<1>5. Top(t) \in Record /\ Top(t).op = "trans" /\ Recs(Below(t)) \subseteq Recs(stk[t])
  BY <1>1, <1>2, TopOK
<1>6. ASSUME NEW o \in Objs
      PROVE  /\ Num(stk'[t], Ref(o)) = Num(stk[t], Ref(o))
             /\ Num(stk'[t], Last(o)) = Num(stk[t], Last(o))
             /\ Num(stk'[t], Last0(o)) = Num(stk[t], Last0(o))
             /\ Num(stk'[t], Free(o)) = Num(stk[t], Free(o))
             /\ Num(stk'[t], Unref(o)) = Num(stk[t], Unref(o))
  <2>1. \A D : Num(stk'[t], D) \in Nat /\ Num(stk[t], D) \in Nat
    BY <1>1, <1>4, NumIs, RecsOK
  <2>2. /\ r \notin Last(o) /\ r \notin Last0(o) /\ r \notin Free(o) /\ r \notin Unref(o)
        /\ r \in Ref(o) <=> Top(t) \in Ref(o)
    BY <1>3, <1>5, LightIs DEF Light, RefOps
  <2>3. /\ w \notin Last(o) /\ w \notin Last0(o) /\ w \notin Free(o) /\ w \notin Unref(o)
        /\ w \notin Ref(o)
    BY <1>3, LightIs DEF Light, RefOps
  <2>4. /\ Top(t) \notin Last(o) /\ Top(t) \notin Last0(o) /\ Top(t) \notin Free(o)
        /\ Top(t) \notin Unref(o)
    BY <1>5, LightIs DEF Light, RefOps
  <2> QED BY <1>4, <2>1, <2>2, <2>3, <2>4 DEF One
<1>7. RefsInv(t)'
  BY <1>2, <1>6, SameRefs
<1>8. made[Top(t).obj] > 0
  BY <1>1, <1>2 DEF ThreadInv, OwnedInv
<1> QED BY <1>2, <1>3, <1>4, <1>5, <1>6, <1>7, <1>8, QuietStep DEF Sampled, Fresh, At, Even

LEMMA OutputFbKeeps ==
  ASSUME NEW t, Threads = {t}, GraphInv, NEW o \in Objs, NEW f \in Frames \cup {NULL},
         msi_output_fb(t, o, f)
  PROVE  ThreadInv(t)' /\ ZeroedInv' /\ NameInv'
<1> USE DEF objVars, graphVars, fbVars, refVars
<1>1. t \in Threads /\ TypeInv
  BY Facts
<1>2. Idle(t) /\ made[o] > 0 /\ UNCHANGED <<objVars, fbVars, refVars>>
  BY <1>1, OutputFbIs
<1>3. PICK r \in Record : /\ r.op = "walk" /\ r.obj = o
                          /\ stk' = [stk EXCEPT ![t] = Append(stk[t], r)]
  BY <1>1, OutputFbIs
<1>4. /\ Even(t) /\ stk'[t] \in Seq(Record) /\ Recs(stk'[t]) = Recs(stk[t]) \cup {r}
      /\ \A p \in Objs : Num(stk'[t], Ref(p)) = Num(stk[t], Ref(p)) + One(IsRef(r, p))
  BY <1>1, <1>3, LightPush DEF Light
<1>5. \A p \in Objs : Num(stk'[t], Ref(p)) = Num(stk[t], Ref(p))
  BY <1>3, <1>4, Facts DEF IsRef, RefOps, One
<1>6. RefsInv(t)'
  BY <1>2, <1>5, SameRefs
<1> QED BY <1>2, <1>3, <1>4, <1>6, QuietStep DEF Sampled, Fresh, At, Even

LEMMA MsiPutKeeps ==
  ASSUME NEW t, Threads = {t}, GraphInv, NEW o \in Objs, msi_put(t, o)
  PROVE  ThreadInv(t)' /\ ZeroedInv' /\ NameInv'
<1> USE DEF objVars, graphVars, fbVars
<1>1. t \in Threads /\ TypeInv /\ ThreadInv(t)
  BY Facts
<1>2. /\ Idle(t) /\ found[o] > 0 /\ found' = [found EXCEPT ![o] = @ - 1]
      /\ UNCHANGED <<objVars, fbVars, made>>
  BY <1>1, MsiPutIs
<1>3. PICK r \in Record : /\ r.op = "put" /\ r.obj = o
                          /\ stk' = [stk EXCEPT ![t] = Append(stk[t], r)]
  BY <1>1, MsiPutIs
<1>4. /\ Even(t) /\ stk'[t] \in Seq(Record) /\ Recs(stk'[t]) = Recs(stk[t]) \cup {r}
      /\ \A p \in Objs : Num(stk'[t], Ref(p)) = Num(stk[t], Ref(p)) + One(IsRef(r, p))
  BY <1>1, <1>3, LightPush DEF Light, RefOps
<1>5. ASSUME NEW p \in Objs
      PROVE  users[p] = made[p] + found'[p] + Cardinality(Owned(owner, p)) + Num(stk'[t], Ref(p))
  <2>1. /\ users[p] = made[p] + found[p] + Cardinality(Owned(owner, p)) + Num(stk[t], Ref(p))
        /\ users[p] \in Nat /\ made[p] \in Nat /\ found[p] \in Nat
        /\ Cardinality(Owned(owner, p)) \in Nat /\ Num(stk[t], Ref(p)) \in Nat
    BY <1>1, Facts DEF ThreadInv, RefsInv
  <2>2. found'[p] = found[p] - One(o = p)
    BY <1>1, <1>2, <2>1 DEF TypeInv, TypeOK, CountType, One
  <2>3. Num(stk'[t], Ref(p)) = Num(stk[t], Ref(p)) + One(o = p)
    BY <1>3, <1>4 DEF IsRef, RefOps, One
  <2> QED BY <2>1, <2>2, <2>3 DEF One
<1>6. RefsInv(t)'
  BY <1>2, <1>5 DEF RefsInv
<1> QED BY <1>2, <1>3, <1>4, <1>6, QuietStep DEF Sampled, Fresh, At, Even

LEMMA FbPutKeeps ==
  ASSUME NEW t, Threads = {t}, GraphInv, NEW f \in Frames, fb_put(t, f)
  PROVE  ThreadInv(t)' /\ ZeroedInv' /\ NameInv'
<1> USE DEF objVars, graphVars, refVars
<1>1. t \in Threads /\ TypeInv
  BY Facts
<1>2. /\ Idle(t) \/ At(t, {"pre", "post", "trans"})
      /\ owner[f] \in Objs /\ owner' = [owner EXCEPT ![f] = NULL]
      /\ UNCHANGED <<objVars, queue, refVars>>
  BY <1>1, FbPutIs DEF Dropped
<1>3. PICK r \in Record : /\ r.op = "put" /\ r.obj = owner[f]
                          /\ stk' = [stk EXCEPT ![t] = Append(stk[t], r)]
  BY <1>1, FbPutIs
<1>4. /\ Even(t) /\ stk'[t] \in Seq(Record) /\ Recs(stk'[t]) = Recs(stk[t]) \cup {r}
      /\ \A o \in Objs : Num(stk'[t], Ref(o)) = Num(stk[t], Ref(o)) + One(IsRef(r, o))
  BY <1>1, <1>3, LightPush DEF Light, RefOps
<1>5. \A o \in Objs : Num(stk'[t], Ref(o)) = Num(stk[t], Ref(o)) + One(owner[f] = o)
  BY <1>3, <1>4 DEF IsRef, RefOps, One
<1>6. RefsInv(t)'
  BY <1>2, <1>5, Handover
<1>7. Fresh(t)
  BY <1>2 DEF Fresh, At, Sampled
<1> QED BY <1>2, <1>3, <1>4, <1>6, <1>7, QuietStep DEF Sampled, Even

LEMMA GetFbKeeps ==
  ASSUME NEW t, Threads = {t}, GraphInv, NEW o \in Objs, NEW f \in Frames, msi_get_fb(t, o, f)
  PROVE  ThreadInv(t)' /\ ZeroedInv' /\ NameInv'
<1> USE DEF objVars, graphVars, refVars
<1>1. t \in Threads /\ TypeInv
  BY Facts
<1>2. /\ Idle(t) /\ queue' = [queue EXCEPT ![f] = NULL]
      /\ UNCHANGED <<objVars, owner, stk, refVars>>
  BY DEF msi_get_fb
<1>3. stk'[t] \in Seq(Record)
  BY <1>1, <1>2, RecsOK
<1>4. RefsInv(t)'
  BY <1>2, SameRefs
<1>5. \A g \in Frames : queue'[g] # NULL => queue'[g] = queue[g]
  BY <1>1, <1>2 DEF TypeInv, TypeOK
<1> QED BY <1>2, <1>3, <1>4, <1>5, QuietStep DEF Fresh, Even

LEMMA OutputDoneKeeps ==
  ASSUME NEW t, Threads = {t}, GraphInv, NEW last \in BOOLEAN, output_done(t, last)
  PROVE  ThreadInv(t)' /\ ZeroedInv' /\ NameInv'
<1> USE DEF objVars, graphVars, refVars
<1>1. t \in Threads /\ TypeInv
  BY Facts
<1>2. At(t, {"walk"}) /\ UNCHANGED <<objVars, queue, refVars>>
  BY <1>1, OutputDoneIs
<1>3. Fresh(t) /\ Top(t).op = "walk" /\ Top(t) \in Record
  BY <1>1, <1>2, TopOK DEF Fresh, At, Sampled
<1>4. CASE stk' = [stk EXCEPT ![t] = Below(t)] /\ owner' = owner
  <2>1. /\ stk'[t] \in Seq(Record) /\ Recs(stk[t]) = Recs(stk'[t]) \cup {Top(t)}
        /\ \A D : Num(stk[t], D) = Num(stk'[t], D) + One(Top(t) \in D)
    BY <1>1, <1>2, <1>4, Popped
  <2>2. ASSUME NEW o \in Objs
        PROVE  /\ Num(stk'[t], Ref(o)) = Num(stk[t], Ref(o))
               /\ Num(stk'[t], Last(o)) = Num(stk[t], Last(o))
               /\ Num(stk'[t], Last0(o)) = Num(stk[t], Last0(o))
               /\ Num(stk'[t], Free(o)) = Num(stk[t], Free(o))
               /\ Num(stk'[t], Unref(o)) = Num(stk[t], Unref(o))
    <3>1. \A D : Num(stk'[t], D) \in Nat
      BY <2>1, NumIs
    <3>2. /\ Top(t) \notin Ref(o) /\ Top(t) \notin Last(o) /\ Top(t) \notin Last0(o)
          /\ Top(t) \notin Free(o) /\ Top(t) \notin Unref(o)
      BY <1>3, LightIs DEF Light, RefOps
    <3> QED BY <2>1, <3>1, <3>2 DEF One
  <2>3. RefsInv(t)'
    BY <1>2, <1>4, <2>2, SameRefs
  <2> QED BY <1>2, <1>3, <2>1, <2>2, <2>3, QuietStep DEF Even
<1>5. CASE \E f \in Frames, r \in Record :
              /\ queue[f] = NULL /\ owner[f] \in Objs
              /\ r.op = "put" /\ r.obj = owner[f]
              /\ stk' = [stk EXCEPT ![t] = Append(Below(t), r)]
              /\ Dropped(t, Below(t), f)
  <2>1. PICK f \in Frames, r \in Record :
              /\ owner[f] \in Objs /\ owner' = [owner EXCEPT ![f] = NULL]
              /\ r.op = "put" /\ r.obj = owner[f]
              /\ stk' = [stk EXCEPT ![t] = Append(Below(t), r)]
    BY <1>5 DEF Dropped
  <2>2. /\ Even(t) /\ stk'[t] \in Seq(Record)
        /\ \A q \in Recs(stk'[t]) : q \in Recs(stk[t]) \/ q = r
        /\ \A o \in Objs : Num(stk'[t], Ref(o)) + One(IsRef(Top(t), o))
                               = Num(stk[t], Ref(o)) + One(IsRef(r, o))
    BY <1>1, <1>2, <2>1, LightTurn DEF Light, RefOps
  <2>3. ASSUME NEW o \in Objs
        PROVE  Num(stk'[t], Ref(o)) = Num(stk[t], Ref(o)) + One(owner[f] = o)
    <3>1. Num(stk'[t], Ref(o)) \in Nat
      BY <2>2, NumIs
    <3> QED BY <1>3, <2>1, <2>2, <3>1 DEF IsRef, RefOps, One
  <2>4. RefsInv(t)'
    BY <1>2, <2>1, <2>3, Handover
  <2> QED BY <1>2, <1>3, <2>1, <2>2, <2>4, QuietStep DEF Sampled, Even
<1> QED BY <1>1, <1>4, <1>5, OutputDoneIs

(* The records that msi_put leaves while it drains a queue. *)
LEMMA DrainKeeps ==
  ASSUME NEW t, Threads = {t}, GraphInv, NEW f \in Frames, put_drain(t, f)
  PROVE  ThreadInv(t)' /\ ZeroedInv' /\ NameInv'
<1> USE DEF objVars, graphVars, refVars
<1>1. t \in Threads /\ TypeInv
  BY Facts
<1>2. /\ At(t, LastOps) /\ Top(t).obj \in Objs /\ queue' = [queue EXCEPT ![f] = NULL]
      /\ UNCHANGED <<objVars, refVars>>
  BY <1>1, PutDrainIs
<1>3. PICK r \in Record :
        /\ r.op = "drain" /\ r.obj = Top(t).obj /\ r.n = Top(t).n
        /\ \/ stk' = [stk EXCEPT ![t] = Append(Below(t), r)] /\ owner' = owner
           \/ /\ Dropped(t, stk[t], f) /\ owner[f] \in Objs
              /\ \E q \in Record :
                    /\ q.op = "put" /\ q.obj = owner[f]
                    /\ stk' = [stk EXCEPT ![t] = Append(Append(Below(t), r), q)]
  BY <1>1, PutDrainIs
<1>4. /\ Fresh(t) /\ Top(t).op \in LastOps /\ Top(t) \in Record
      /\ Recs(Below(t)) \subseteq Recs(stk[t])
  BY <1>1, <1>2, TopOK DEF Fresh, At, Sampled, LastOps
<1>5. \A g \in Frames : queue'[g] # NULL => queue'[g] = queue[g]
  BY <1>1, <1>2 DEF TypeInv, TypeOK
<1>6. ASSUME NEW o \in Objs
      PROVE  /\ r \notin Ref(o) /\ Top(t) \notin Ref(o)
             /\ r \in Last(o) <=> Top(t) \in Last(o)
             /\ r \in Last0(o) <=> Top(t) \in Last0(o)
             /\ r \notin Free(o) /\ Top(t) \notin Free(o)
             /\ r \notin Unref(o) /\ Top(t) \notin Unref(o)
  BY <1>3, <1>4, Classes DEF RefOps, LastOps
<1>7. CASE stk' = [stk EXCEPT ![t] = Append(Below(t), r)] /\ owner' = owner
  <2>1. /\ stk'[t] \in Seq(Record) /\ Recs(stk'[t]) = Recs(Below(t)) \cup {r}
        /\ \A D : Num(stk'[t], D) + One(Top(t) \in D) = Num(stk[t], D) + One(r \in D)
    BY <1>1, <1>2, <1>7, Turned
  <2>2. ASSUME NEW o \in Objs
        PROVE  /\ Num(stk'[t], Ref(o)) = Num(stk[t], Ref(o))
               /\ Num(stk'[t], Last(o)) = Num(stk[t], Last(o))
               /\ Num(stk'[t], Last0(o)) = Num(stk[t], Last0(o))
               /\ Num(stk'[t], Free(o)) = Num(stk[t], Free(o))
               /\ Num(stk'[t], Unref(o)) = Num(stk[t], Unref(o))
    <3>1. \A D : Num(stk'[t], D) \in Nat /\ Num(stk[t], D) \in Nat
      BY <1>1, <2>1, NumIs, RecsOK
    <3> QED BY <1>6, <2>1, <3>1 DEF One
  <2>3. RefsInv(t)'
    BY <1>2, <1>7, <2>2, SameRefs
  <2> QED BY <1>2, <1>3, <1>4, <1>5, <2>1, <2>2, <2>3, QuietStep DEF Sampled, Even
<1>8. CASE /\ Dropped(t, stk[t], f) /\ owner[f] \in Objs
           /\ \E q \in Record :
                /\ q.op = "put" /\ q.obj = owner[f]
                /\ stk' = [stk EXCEPT ![t] = Append(Append(Below(t), r), q)]
  <2>1. PICK q \in Record : /\ q.op = "put" /\ q.obj = owner[f]
                            /\ stk' = [stk EXCEPT ![t] = Append(Append(Below(t), r), q)]
    BY <1>8
  <2>2. /\ stk'[t] \in Seq(Record) /\ Recs(stk'[t]) = Recs(Below(t)) \cup {r} \cup {q}
        /\ \A D : Num(stk'[t], D) + One(Top(t) \in D) = Num(stk[t], D) + One(r \in D) + One(q \in D)
    BY <1>1, <1>2, <2>1, TurnedTwo
  <2>3. ASSUME NEW o \in Objs
        PROVE  /\ Num(stk'[t], Ref(o)) = Num(stk[t], Ref(o)) + One(owner[f] = o)
               /\ Num(stk'[t], Last(o)) = Num(stk[t], Last(o))
               /\ Num(stk'[t], Last0(o)) = Num(stk[t], Last0(o))
               /\ Num(stk'[t], Free(o)) = Num(stk[t], Free(o))
               /\ Num(stk'[t], Unref(o)) = Num(stk[t], Unref(o))
    <3>1. \A D : Num(stk'[t], D) \in Nat /\ Num(stk[t], D) \in Nat
      BY <1>1, <2>2, NumIs, RecsOK
    <3>2. /\ q \notin Last(o) /\ q \notin Last0(o) /\ q \notin Free(o) /\ q \notin Unref(o)
          /\ q \in Ref(o) <=> owner[f] = o
      BY <2>1, LightIs DEF Light, RefOps
    <3> QED BY <1>6, <2>2, <3>1, <3>2 DEF One
  <2>4. owner' = [owner EXCEPT ![f] = NULL] /\ owner[f] \in Objs
    BY <1>8 DEF Dropped
  <2>5. RefsInv(t)'
    BY <1>2, <2>3, <2>4, Handover
  <2> QED BY <1>2, <1>3, <1>4, <1>5, <2>1, <2>2, <2>3, <2>5, QuietStep DEF Sampled, Even
<1> QED BY <1>3, <1>7, <1>8

(* msi_put drops the count.  The last reference is the caller's last word  *)
(* on the component: nobody owns it, no other msi_put is past this point.  *)
LEMMA PutDecKeeps ==
  ASSUME NEW t, Threads = {t}, GraphInv, put_dec(t)
  PROVE  ThreadInv(t)' /\ ZeroedInv' /\ NameInv'
<1> USE DEF objVars, graphVars, fbVars, refVars
<1>1. t \in Threads /\ TypeInv /\ ThreadInv(t) /\ ZeroedInv /\ NameInv
  BY Facts
<1> DEFINE o == Top(t).obj
           last == Dec(users[o]) = 0 /\ Top(t).k = 0
<1>2. /\ At(t, {"dec"}) /\ o \in Objs /\ users' = [users EXCEPT ![o] = Dec(@)]
      /\ UNCHANGED <<graphVars, inited, deleted, enable, fbVars, refVars>>
  BY <1>1, PutDecIs
<1>3. /\ last => \E r \in Record : /\ r.op = "post" /\ r.obj = o /\ r.n = Top(t).n
                                   /\ stk' = [stk EXCEPT ![t] = Append(Below(t), r)]
      /\ ~last => stk' = [stk EXCEPT ![t] = Below(t)]
  BY <1>1, PutDecIs
<1>4. /\ Top(t) \in Record /\ Top(t).op = "dec" /\ Top(t) \in Recs(stk[t])
      /\ Recs(Below(t)) \subseteq Recs(stk[t])
  BY <1>1, <1>2, TopOK
<1>5. /\ \A q \in Recs(Below(t)) : q.op \notin Sampled
      /\ Top(t).n = bound[o] /\ Top(t).k = made[o]
  BY <1>1, <1>2, <1>4, SamplesAre DEF ThreadInv, OwnedInv
<1> HIDE DEF o
<1>6. ASSUME NEW p \in Objs
      PROVE  /\ Top(t) \in Ref(p) <=> p = o
             /\ Top(t) \notin Last(p) /\ Top(t) \notin Last0(p)
             /\ Top(t) \notin Free(p) /\ Top(t) \notin Unref(p)
  BY <1>4, LightIs DEF Light, RefOps, o
<1>7. /\ users[o] \in Nat /\ users[o] > 0 /\ o \in list /\ o \in alive
      /\ users'[o] = users[o] - 1 /\ \A p \in Objs : p # o => users'[p] = users[p]
  <2>1. Num(stk[t], Ref(o)) > 0
    BY <1>1, <1>2, <1>4, <1>6, NumIs, RecsOK
  <2>2. users[o] \in Nat /\ users[o] > 0 /\ o \in list /\ o \in alive
    BY <1>2, <2>1, Facts
  <2> QED BY <1>1, <1>2, <2>2 DEF TypeInv, TypeOK, CountType, Dec
<1>8. ASSUME NEW p \in Objs
      PROVE  /\ Num(stk[t], Ref(p)) = Num(stk'[t], Ref(p)) + One(p = o)
             /\ Num(stk'[t], Last(p)) = Num(stk[t], Last(p)) + One(last /\ p = o)
             /\ Num(stk'[t], Last0(p)) = Num(stk[t], Last0(p)) + One(last /\ p = o /\ bound[o] = 0)
             /\ Num(stk'[t], Free(p)) = Num(stk[t], Free(p))
             /\ Num(stk'[t], Unref(p)) = Num(stk[t], Unref(p))
             /\ Num(stk'[t], Ref(p)) \in Nat
  <2>1. CASE last
    <3>1. PICK r \in Record : /\ r.op = "post" /\ r.obj = o /\ r.n = Top(t).n
                              /\ stk' = [stk EXCEPT ![t] = Append(Below(t), r)]
      BY <1>3, <2>1
    <3>2. /\ stk'[t] \in Seq(Record)
          /\ \A D : Num(stk'[t], D) + One(Top(t) \in D) = Num(stk[t], D) + One(r \in D)
      BY <1>1, <1>2, <3>1, Turned
    <3>3. \A D : Num(stk'[t], D) \in Nat /\ Num(stk[t], D) \in Nat
      BY <1>1, <3>2, NumIs, RecsOK
    <3>4. /\ r \notin Ref(p) /\ r \notin Free(p) /\ r \notin Unref(p)
          /\ r \in Last(p) <=> p = o
          /\ r \in Last0(p) <=> p = o /\ bound[o] = 0
      BY <1>5, <3>1, Classes DEF RefOps, LastOps
    <3> HIDE DEF last
    <3> QED BY <1>6, <2>1, <3>2, <3>3, <3>4 DEF One
  <2>2. CASE ~last
    <3>1. /\ stk'[t] \in Seq(Record)
          /\ \A D : Num(stk[t], D) = Num(stk'[t], D) + One(Top(t) \in D)
      BY <1>1, <1>2, <1>3, <2>2, Popped
    <3>2. \A D : Num(stk'[t], D) \in Nat
      BY <3>1, NumIs
    <3> HIDE DEF last
    <3> QED BY <1>6, <2>2, <3>1, <3>2 DEF One
  <2> QED BY <2>1, <2>2
<1>9. /\ stk'[t] \in Seq(Record)
      /\ \A q \in Recs(stk'[t]) : q.op \notin Sampled
      /\ \A q \in Recs(stk'[t]) : q.op = "walk" => made[q.obj] > 0
  <2>1. \A q \in Recs(Below(t)) : q.op = "walk" => made[q.obj] > 0
    BY <1>1, <1>4 DEF ThreadInv, OwnedInv
  <2>2. CASE last
    <3>1. PICK r \in Record : /\ r.op = "post"
                              /\ stk' = [stk EXCEPT ![t] = Append(Below(t), r)]
      BY <1>3, <2>2
    <3>2. stk'[t] \in Seq(Record) /\ Recs(stk'[t]) = Recs(Below(t)) \cup {r}
      BY <1>1, <1>2, <3>1, Turned
    <3> QED BY <1>5, <2>1, <3>1, <3>2 DEF Sampled
  <2>3. CASE ~last
    <3>1. stk'[t] = Below(t) /\ stk'[t] \in Seq(Record)
      BY <1>1, <1>2, <1>3, <2>3, Popped
    <3> QED BY <1>5, <2>1, <3>1
  <2> QED BY <2>2, <2>3
<1>10. ASSUME NEW p \in Objs
       PROVE  users'[p] = made[p] + found[p] + Cardinality(Owned(owner, p)) + Num(stk'[t], Ref(p))
  <2>1. /\ users[p] = made[p] + found[p] + Cardinality(Owned(owner, p)) + Num(stk[t], Ref(p))
        /\ made[p] \in Nat /\ found[p] \in Nat /\ Cardinality(Owned(owner, p)) \in Nat
    BY <1>1, Facts DEF ThreadInv, RefsInv
  <2> QED BY <1>7, <1>8, <2>1 DEF One
<1>11. ASSUME ~last PROVE users'[o] > 0
  <2>1. /\ made[o] \in Nat /\ found[o] \in Nat /\ Cardinality(Owned(owner, o)) \in Nat
        /\ Num(stk'[t], Ref(o)) \in Nat
    BY <1>2, <1>8, Facts
  <2>2. CASE made[o] = 0
    BY <1>5, <1>7, <1>11, <2>2 DEF Dec
  <2>3. CASE made[o] > 0
    BY <1>2, <1>10, <2>1, <2>3
  <2> QED BY <2>1, <2>2, <2>3
<1>12. last => users'[o] = 0
  BY <1>7 DEF Dec
<1> HIDE DEF last
<1>13. RefsInv(t)' /\ BoundInv(t)'
  BY <1>1, <1>2, <1>8, <1>10 DEF ThreadInv, RefsInv, BoundInv
<1>14. SampleInv(t)'
  BY <1>9, Unsampled
<1>15. OwnedInv(t)'
  BY <1>1, <1>2, <1>9 DEF ThreadInv, OwnedInv
<1>16. LastInv(t)'
  <2>1. ASSUME NEW p \in Objs
        PROVE  /\ Num(stk'[t], Last(p)) > 0 => users'[p] = 0
               /\ Num(stk'[t], Last0(p)) > 0 => bound[p] = 0 /\ p \in list
               /\ Num(stk'[t], Last0(p)) <= 1
    <3>1. /\ Num(stk[t], Last(p)) > 0 => users[p] = 0
          /\ Num(stk[t], Last0(p)) > 0 => bound[p] = 0 /\ p \in list
          /\ Num(stk[t], Last0(p)) <= 1
          /\ Num(stk[t], Last(p)) \in Nat /\ Num(stk[t], Last0(p)) \in Nat
          /\ Num(stk[t], Last0(p)) <= Num(stk[t], Last(p))
      BY <1>1, Facts DEF ThreadInv, LastInv
    <3>2. CASE p = o
      <4>1. Num(stk[t], Last(p)) = 0 /\ Num(stk[t], Last0(p)) = 0
        BY <1>7, <3>1, <3>2
      <4> QED BY <1>7, <1>8, <1>12, <3>2, <4>1 DEF One
    <3>3. CASE p # o
      BY <1>7, <1>8, <3>1, <3>3 DEF One
    <3> QED BY <3>2, <3>3
  <2> QED BY <1>2, <2>1 DEF LastInv
<1>17. FreeInv(t)'
  <2>1. \A p \in Objs : Num(stk[t], Free(p)) > 0 => users'[p] = 0
    BY <1>1, <1>7 DEF ThreadInv, FreeInv
  <2> QED BY <1>1, <1>2, <1>8, <2>1 DEF ThreadInv, FreeInv
<1>18. ASSUME NEW p \in Objs, users[p] > 0
       PROVE  users'[p] > 0 \/ Num(stk'[t], Last(p)) > 0
  <2>1. Num(stk[t], Last(p)) \in Nat
    BY Facts
  <2> QED BY <1>7, <1>8, <1>11, <1>18, <2>1 DEF One
<1>19. ASSUME NEW p \in Objs, Num(stk[t], Last(p)) > 0 PROVE Num(stk'[t], Last(p)) > 0
  <2>1. Num(stk[t], Last(p)) \in Nat
    BY Facts
  <2> QED BY <1>8, <1>19, <2>1 DEF One
<1>20. DeletedInv(t)'
  <2>1. deleted \subseteq Objs
    BY <1>1 DEF TypeInv, TypeOK, GraphType
  <2> QED BY <1>1, <1>2, <1>8, <1>18, <1>19, <2>1 DEF ThreadInv, DeletedInv
<1>21. QueueInv(t)'
  <2>1. \A f \in Frames : queue[f] # NULL => queue[f] \in Objs
    BY <1>1 DEF TypeInv, TypeOK
  <2> QED BY <1>1, <1>2, <1>18, <1>19, <2>1 DEF ThreadInv, QueueInv
<1>22. ZeroedInv' /\ NameInv'
  <2>1. \A p \in Objs \ alive : users'[p] = users[p]
    BY <1>7
  <2> QED BY <1>1, <1>2, <2>1 DEF ZeroedInv, NameInv
<1> QED BY <1>13, <1>14, <1>15, <1>16, <1>17, <1>20, <1>21, <1>22 DEF ThreadInv

(* msi_put is done with the queue: it frees the component, or leaves it.   *)
LEMMA PutPostKeeps ==
  ASSUME NEW t, Threads = {t}, GraphInv, put_post(t)
  PROVE  ThreadInv(t)' /\ ZeroedInv' /\ NameInv'
<1> USE DEF objVars, graphVars, fbVars, refVars
<1>1. t \in Threads /\ TypeInv /\ ThreadInv(t) /\ ZeroedInv /\ NameInv
  BY Facts
<1> DEFINE o == Top(t).obj
<1>2. /\ At(t, LastOps) /\ o \in Objs /\ \A f \in Frames : queue[f] # o
      /\ UNCHANGED <<alive, name, bound, outs, users, inited, enable, fbVars, refVars>>
  BY <1>1, PutPostIs
<1>3. \/ /\ Top(t).n = 0 /\ list' = list \ {o} /\ deleted' = deleted
         /\ \E r \in Record : /\ r.op = "free" /\ r.obj = o
                              /\ stk' = [stk EXCEPT ![t] = Append(Below(t), r)]
      \/ /\ Top(t).n # 0 /\ list' = list /\ deleted' = deleted \ {o}
         /\ stk' = [stk EXCEPT ![t] = Below(t)]
  BY <1>1, PutPostIs
<1>4. /\ Top(t) \in Record /\ Top(t).op \in LastOps /\ Top(t) \in Recs(stk[t])
      /\ Recs(Below(t)) \subseteq Recs(stk[t])
  BY <1>1, <1>2, TopOK
<1>5. \A q \in Recs(Below(t)) : q.op \notin Sampled /\ (q.op = "walk" => made[q.obj] > 0)
  BY <1>1, <1>2, <1>4, SamplesAre DEF ThreadInv, OwnedInv
<1> HIDE DEF o
<1>6. ASSUME NEW p \in Objs
      PROVE  /\ Top(t) \in Last(p) <=> p = o
             /\ Top(t) \in Last0(p) <=> p = o /\ Top(t).n = 0
             /\ Top(t) \notin Ref(p) /\ Top(t) \notin Free(p) /\ Top(t) \notin Unref(p)
  BY <1>4, Classes DEF RefOps, LastOps, o
<1>7. ASSUME NEW p \in Objs
      PROVE  /\ Num(stk[t], Last(p)) > 0 => users[p] = 0
             /\ Num(stk[t], Last0(p)) > 0 => bound[p] = 0 /\ p \in list
             /\ Num(stk[t], Last0(p)) <= 1
             /\ p \in alive /\ p \notin list <=> Num(stk[t], Free(p)) > 0
             /\ Num(stk[t], Free(p)) <= 1
             /\ Num(stk[t], Free(p)) > 0 => users[p] = 0 /\ bound[p] = 0
             /\ Num(stk[t], Last(p)) \in Nat /\ Num(stk[t], Last0(p)) \in Nat
             /\ Num(stk[t], Free(p)) \in Nat
  BY <1>1, Facts DEF ThreadInv, LastInv, FreeInv
<1>8. list \subseteq alive /\ inited = made /\ \A p \in enable : made[p] > 0
  BY <1>1 DEF ThreadInv, FreeInv, OwnedInv
<1>9. deleted \subseteq Objs /\ \A f \in Frames : queue[f] # NULL => queue[f] \in Objs
  BY <1>1 DEF TypeInv, TypeOK, GraphType
<1>10. CASE /\ Top(t).n = 0 /\ list' = list \ {o} /\ deleted' = deleted
            /\ \E r \in Record : /\ r.op = "free" /\ r.obj = o
                                 /\ stk' = [stk EXCEPT ![t] = Append(Below(t), r)]
  <2>1. PICK r \in Record : /\ r.op = "free" /\ r.obj = o
                            /\ stk' = [stk EXCEPT ![t] = Append(Below(t), r)]
    BY <1>10
  <2>2. /\ stk'[t] \in Seq(Record) /\ Recs(stk'[t]) = Recs(Below(t)) \cup {r}
        /\ \A D : Num(stk'[t], D) + One(Top(t) \in D) = Num(stk[t], D) + One(r \in D)
    BY <1>1, <1>2, <2>1, Turned
  <2>3. ASSUME NEW p \in Objs
        PROVE  /\ Num(stk'[t], Ref(p)) = Num(stk[t], Ref(p))
               /\ Num(stk[t], Last(p)) = Num(stk'[t], Last(p)) + One(p = o)
               /\ Num(stk[t], Last0(p)) = Num(stk'[t], Last0(p)) + One(p = o)
               /\ Num(stk'[t], Free(p)) = Num(stk[t], Free(p)) + One(p = o)
               /\ Num(stk'[t], Unref(p)) = Num(stk[t], Unref(p))
               /\ Num(stk'[t], Last(p)) \in Nat /\ Num(stk'[t], Last0(p)) \in Nat
    <3>1. \A D : Num(stk'[t], D) \in Nat /\ Num(stk[t], D) \in Nat
      BY <1>1, <2>2, NumIs, RecsOK
    <3>2. /\ r \in Free(p) <=> p = o
          /\ r \notin Ref(p) /\ r \notin Last(p) /\ r \notin Last0(p) /\ r \notin Unref(p)
      BY <2>1, Classes DEF RefOps, LastOps
    <3> QED BY <1>6, <1>10, <2>2, <3>1, <3>2 DEF One
  <2>4. /\ Num(stk[t], Last0(o)) > 0 /\ Num(stk'[t], Last0(o)) = 0
        /\ users[o] = 0 /\ bound[o] = 0 /\ o \in list /\ o \in alive
        /\ Num(stk[t], Free(o)) = 0
    <3>1. Num(stk[t], Last0(o)) > 0 /\ Num(stk[t], Last(o)) > 0
      BY <1>2, <2>3, Facts DEF One
    <3>2. users[o] = 0 /\ bound[o] = 0 /\ o \in list /\ o \in alive
      BY <1>2, <1>7, <1>8, <3>1
    <3> QED BY <1>2, <1>7, <2>3, <3>1, <3>2 DEF One
  <2>5. RefsInv(t)' /\ BoundInv(t)'
    BY <1>1, <1>2, <2>3 DEF ThreadInv, RefsInv, BoundInv
  <2>6. SampleInv(t)'
    BY <1>5, <2>1, <2>2, Unsampled DEF Sampled
  <2>7. OwnedInv(t)'
    BY <1>2, <1>5, <1>8, <2>1, <2>2 DEF OwnedInv
  <2>8. ASSUME NEW p \in Objs
        PROVE  /\ Num(stk'[t], Last(p)) > 0 => users[p] = 0
               /\ Num(stk'[t], Last0(p)) > 0 => bound[p] = 0 /\ p \in list'
               /\ Num(stk'[t], Last0(p)) <= 1
               /\ p \in alive /\ p \notin list' <=> Num(stk'[t], Free(p)) > 0
               /\ Num(stk'[t], Free(p)) <= 1
               /\ Num(stk'[t], Free(p)) > 0 => users[p] = 0 /\ bound[p] = 0
    <3>1. CASE p = o
      BY <1>7, <1>10, <2>3, <2>4, <3>1 DEF One
    <3>2. CASE p # o
      BY <1>7, <1>10, <2>3, <3>2 DEF One
    <3> QED BY <3>1, <3>2
  <2>9. LastInv(t)'
    BY <1>2, <2>8 DEF LastInv
  <2>10. FreeInv(t)'
    BY <1>2, <1>8, <1>10, <2>8 DEF FreeInv
  <2>11. ASSUME NEW p \in Objs, Num(stk[t], Last(p)) > 0
         PROVE  p = o \/ Num(stk'[t], Last(p)) > 0
    BY <1>7, <2>3, <2>11 DEF One
  <2>12. ASSUME NEW p \in Objs, Num(stk[t], Free(p)) > 0 \/ p = o PROVE Num(stk'[t], Free(p)) > 0
    BY <1>7, <2>3, <2>12 DEF One
  <2>13. DeletedInv(t)'
    BY <1>1, <1>2, <1>9, <1>10, <2>11, <2>12 DEF ThreadInv, DeletedInv
  <2>14. QueueInv(t)'
    BY <1>1, <1>2, <1>9, <2>11 DEF ThreadInv, QueueInv
  <2>15. ZeroedInv' /\ NameInv'
    BY <1>1, <1>2, <1>10 DEF ZeroedInv, NameInv
  <2> QED BY <2>5, <2>6, <2>7, <2>9, <2>10, <2>13, <2>14, <2>15 DEF ThreadInv
<1>11. CASE /\ Top(t).n # 0 /\ list' = list /\ deleted' = deleted \ {o}
            /\ stk' = [stk EXCEPT ![t] = Below(t)]
  <2>1. /\ stk'[t] = Below(t) /\ stk'[t] \in Seq(Record)
        /\ \A D : Num(stk[t], D) = Num(stk'[t], D) + One(Top(t) \in D)
    BY <1>1, <1>2, <1>11, Popped
  <2>2. ASSUME NEW p \in Objs
        PROVE  /\ Num(stk'[t], Ref(p)) = Num(stk[t], Ref(p))
               /\ Num(stk[t], Last(p)) = Num(stk'[t], Last(p)) + One(p = o)
               /\ Num(stk'[t], Last0(p)) = Num(stk[t], Last0(p))
               /\ Num(stk'[t], Free(p)) = Num(stk[t], Free(p))
               /\ Num(stk'[t], Unref(p)) = Num(stk[t], Unref(p))
               /\ Num(stk'[t], Last(p)) \in Nat
    <3>1. \A D : Num(stk'[t], D) \in Nat
      BY <2>1, NumIs
    <3> QED BY <1>6, <1>11, <2>1, <3>1 DEF One
  <2>3. RefsInv(t)' /\ BoundInv(t)'
    BY <1>1, <1>2, <2>2 DEF ThreadInv, RefsInv, BoundInv
  <2>4. SampleInv(t)'
    BY <1>5, <2>1, Unsampled
  <2>5. OwnedInv(t)'
    BY <1>2, <1>5, <1>8, <2>1 DEF OwnedInv
  <2>6. \A p \in Objs : Num(stk'[t], Last(p)) > 0 => users[p] = 0
    BY <1>7, <2>2 DEF One
  <2>7. LastInv(t)'
    BY <1>2, <1>7, <1>11, <2>2, <2>6 DEF LastInv
  <2>8. FreeInv(t)'
    BY <1>1, <1>2, <1>11, <2>2 DEF ThreadInv, FreeInv
  <2>9. ASSUME NEW p \in Objs, Num(stk[t], Last(p)) > 0, p # o PROVE Num(stk'[t], Last(p)) > 0
    BY <2>2, <2>9 DEF One
  <2>10. DeletedInv(t)'
    BY <1>1, <1>2, <1>9, <1>11, <2>2, <2>9 DEF ThreadInv, DeletedInv
  <2>11. QueueInv(t)'
    BY <1>1, <1>2, <1>9, <2>9 DEF ThreadInv, QueueInv
  <2>12. ZeroedInv' /\ NameInv'
    BY <1>1, <1>2, <1>11 DEF ZeroedInv, NameInv
  <2> QED BY <2>3, <2>4, <2>5, <2>7, <2>8, <2>10, <2>11, <2>12 DEF ThreadInv
<1> QED BY <1>3, <1>10, <1>11

(* msi_unbind counts an entry off: the component leaves the list with its  *)
(* last one, when nobody has a reference.                                  *)
LEMMA UnbindDecKeeps ==
  ASSUME NEW t, Threads = {t}, GraphInv, unbind_dec(t)
  PROVE  ThreadInv(t)' /\ ZeroedInv' /\ NameInv'
<1> USE DEF objVars, graphVars, fbVars, refVars
<1>1. t \in Threads /\ TypeInv /\ ThreadInv(t) /\ ZeroedInv /\ NameInv
  BY Facts
<1> DEFINE o == Top(t).obj
<1>2. /\ At(t, {"unref"}) /\ o \in Objs /\ bound' = [bound EXCEPT ![o] = Dec(@)]
      /\ UNCHANGED <<alive, name, outs, users, inited, deleted, enable, fbVars, refVars>>
  BY <1>1, UnbindDecIs
<1>3. \/ /\ Dec(bound[o]) = 0 /\ Top(t).n = 0 /\ list' = list \ {o}
         /\ \E r \in Record : /\ r.op = "free" /\ r.obj = o
                              /\ stk' = [stk EXCEPT ![t] = Append(Below(t), r)]
      \/ list' = list /\ stk' = [stk EXCEPT ![t] = Below(t)]
  BY <1>1, UnbindDecIs
<1>4. /\ Top(t) \in Record /\ Top(t).op = "unref" /\ Top(t) \in Recs(stk[t])
      /\ Recs(Below(t)) \subseteq Recs(stk[t])
  BY <1>1, <1>2, TopOK
<1>5. /\ \A q \in Recs(Below(t)) : q.op \notin Sampled /\ (q.op = "walk" => made[q.obj] > 0)
      /\ Top(t).n = users[o]
  BY <1>1, <1>2, <1>4, SamplesAre DEF ThreadInv, OwnedInv
<1> HIDE DEF o
<1>6. ASSUME NEW p \in Objs
      PROVE  /\ Top(t) \in Unref(p) <=> p = o
             /\ Top(t) \notin Ref(p) /\ Top(t) \notin Free(p)
             /\ Top(t) \notin Last(p) /\ Top(t) \notin Last0(p)
  BY <1>4, Classes DEF RefOps, LastOps, o
<1>7. ASSUME NEW p \in Objs
      PROVE  /\ Num(stk[t], Last(p)) > 0 => users[p] = 0
             /\ Num(stk[t], Last0(p)) > 0 => bound[p] = 0 /\ p \in list
             /\ Num(stk[t], Last0(p)) <= 1
             /\ p \in alive /\ p \notin list <=> Num(stk[t], Free(p)) > 0
             /\ Num(stk[t], Free(p)) <= 1
             /\ Num(stk[t], Free(p)) > 0 => users[p] = 0 /\ bound[p] = 0
             /\ Num(stk[t], Last(p)) \in Nat /\ Num(stk[t], Last0(p)) \in Nat
             /\ Num(stk[t], Free(p)) \in Nat /\ bound[p] \in Nat
  BY <1>1, Facts DEF ThreadInv, LastInv, FreeInv
<1>8. list \subseteq alive /\ inited = made /\ \A p \in enable : made[p] > 0
  BY <1>1 DEF ThreadInv, FreeInv, OwnedInv
<1>9. deleted \subseteq Objs /\ \A f \in Frames : queue[f] # NULL => queue[f] \in Objs
  BY <1>1 DEF TypeInv, TypeOK, GraphType
<1>10. /\ bound[o] > 0 /\ o \in list /\ o \in alive
       /\ Num(stk[t], Free(o)) = 0 /\ Num(stk[t], Last0(o)) = 0
       /\ bound'[o] = bound[o] - 1 /\ \A p \in Objs : p # o => bound'[p] = bound[p]
  <2>1. Num(stk[t], Unref(o)) > 0
    BY <1>1, <1>2, <1>4, <1>6, NumIs, RecsOK
  <2>2. bound[o] > 0 /\ bound[o] \in Nat /\ o \in list /\ o \in alive
    BY <1>2, <2>1, Facts
  <2>3. Num(stk[t], Free(o)) = 0 /\ Num(stk[t], Last0(o)) = 0
    BY <1>2, <1>7, <2>2
  <2> QED BY <1>1, <1>2, <2>2, <2>3 DEF TypeInv, TypeOK, CountType, Dec
<1>11. ASSUME NEW p \in Objs, NEW n \in Nat, Num(stk[t], Unref(p)) = n + One(p = o)
       PROVE  bound'[p] = Cardinality(Ptrs(outs, p)) + n
  <2>1. /\ bound[p] = Cardinality(Ptrs(outs, p)) + Num(stk[t], Unref(p))
        /\ Cardinality(Ptrs(outs, p)) \in Nat
    BY <1>1, Facts DEF ThreadInv, BoundInv
  <2> QED BY <1>10, <1>11, <2>1 DEF One
<1>12. ZeroedInv' /\ NameInv'
  <2>1. list' \subseteq list
    BY <1>3
  <2>2. \A p \in Objs \ alive : bound'[p] = bound[p]
    BY <1>10
  <2> QED BY <1>1, <1>2, <2>1, <2>2 DEF ZeroedInv, NameInv
<1>13. CASE /\ Dec(bound[o]) = 0 /\ Top(t).n = 0 /\ list' = list \ {o}
            /\ \E r \in Record : /\ r.op = "free" /\ r.obj = o
                                 /\ stk' = [stk EXCEPT ![t] = Append(Below(t), r)]
  <2>1. PICK r \in Record : /\ r.op = "free" /\ r.obj = o
                            /\ stk' = [stk EXCEPT ![t] = Append(Below(t), r)]
    BY <1>13
  <2>2. /\ stk'[t] \in Seq(Record) /\ Recs(stk'[t]) = Recs(Below(t)) \cup {r}
        /\ \A D : Num(stk'[t], D) + One(Top(t) \in D) = Num(stk[t], D) + One(r \in D)
    BY <1>1, <1>2, <2>1, Turned
  <2>3. ASSUME NEW p \in Objs
        PROVE  /\ Num(stk'[t], Ref(p)) = Num(stk[t], Ref(p))
               /\ Num(stk'[t], Last(p)) = Num(stk[t], Last(p))
               /\ Num(stk'[t], Last0(p)) = Num(stk[t], Last0(p))
               /\ Num(stk'[t], Free(p)) = Num(stk[t], Free(p)) + One(p = o)
               /\ Num(stk[t], Unref(p)) = Num(stk'[t], Unref(p)) + One(p = o)
               /\ Num(stk'[t], Unref(p)) \in Nat
    <3>1. \A D : Num(stk'[t], D) \in Nat /\ Num(stk[t], D) \in Nat
      BY <1>1, <2>2, NumIs, RecsOK
    <3>2. /\ r \in Free(p) <=> p = o
          /\ r \notin Ref(p) /\ r \notin Last(p) /\ r \notin Last0(p) /\ r \notin Unref(p)
      BY <2>1, Classes DEF RefOps, LastOps
    <3> QED BY <1>6, <2>2, <3>1, <3>2 DEF One
  <2>4. users[o] = 0 /\ bound'[o] = 0
    BY <1>2, <1>5, <1>7, <1>10, <1>13 DEF Dec
  <2>5. RefsInv(t)'
    BY <1>1, <1>2, <2>3 DEF ThreadInv, RefsInv
  <2>6. BoundInv(t)'
    BY <1>2, <1>11, <2>3 DEF BoundInv
  <2>7. SampleInv(t)'
    BY <1>5, <2>1, <2>2, Unsampled DEF Sampled
  <2>8. OwnedInv(t)'
    BY <1>2, <1>5, <1>8, <2>1, <2>2 DEF OwnedInv
  <2>9. ASSUME NEW p \in Objs
        PROVE  /\ Num(stk'[t], Last(p)) > 0 => users[p] = 0
               /\ Num(stk'[t], Last0(p)) > 0 => bound'[p] = 0 /\ p \in list'
               /\ Num(stk'[t], Last0(p)) <= 1
               /\ p \in alive /\ p \notin list' <=> Num(stk'[t], Free(p)) > 0
               /\ Num(stk'[t], Free(p)) <= 1
               /\ Num(stk'[t], Free(p)) > 0 => users[p] = 0 /\ bound'[p] = 0
    <3>1. CASE p = o
      BY <1>7, <1>10, <1>13, <2>3, <2>4, <3>1 DEF One
    <3>2. CASE p # o
      BY <1>7, <1>10, <1>13, <2>3, <3>2 DEF One
    <3> QED BY <3>1, <3>2
  <2>10. LastInv(t)'
    BY <1>2, <2>9 DEF LastInv
  <2>11. FreeInv(t)'
    BY <1>2, <1>8, <1>13, <2>9 DEF FreeInv
  <2>12. ASSUME NEW p \in Objs, Num(stk[t], Free(p)) > 0 PROVE Num(stk'[t], Free(p)) > 0
    BY <1>7, <2>3, <2>12 DEF One
  <2>13. DeletedInv(t)'
    BY <1>1, <1>2, <1>9, <2>3, <2>12 DEF ThreadInv, DeletedInv
  <2>14. QueueInv(t)'
    BY <1>1, <1>2, <1>9, <2>3 DEF ThreadInv, QueueInv
  <2> QED BY <1>12, <2>5, <2>6, <2>7, <2>8, <2>10, <2>11, <2>13, <2>14 DEF ThreadInv
<1>14. CASE list' = list /\ stk' = [stk EXCEPT ![t] = Below(t)]
  <2>1. /\ stk'[t] = Below(t) /\ stk'[t] \in Seq(Record)
        /\ \A D : Num(stk[t], D) = Num(stk'[t], D) + One(Top(t) \in D)
    BY <1>1, <1>2, <1>14, Popped
  <2>2. ASSUME NEW p \in Objs
        PROVE  /\ Num(stk'[t], Ref(p)) = Num(stk[t], Ref(p))
               /\ Num(stk'[t], Last(p)) = Num(stk[t], Last(p))
               /\ Num(stk'[t], Last0(p)) = Num(stk[t], Last0(p))
               /\ Num(stk'[t], Free(p)) = Num(stk[t], Free(p))
               /\ Num(stk[t], Unref(p)) = Num(stk'[t], Unref(p)) + One(p = o)
               /\ Num(stk'[t], Unref(p)) \in Nat
    <3>1. \A D : Num(stk'[t], D) \in Nat
      BY <2>1, NumIs
    <3> QED BY <1>6, <2>1, <3>1 DEF One
  <2>3. RefsInv(t)'
    BY <1>1, <1>2, <2>2 DEF ThreadInv, RefsInv
  <2>4. BoundInv(t)'
    BY <1>2, <1>11, <2>2 DEF BoundInv
  <2>5. SampleInv(t)'
    BY <1>5, <2>1, Unsampled
  <2>6. OwnedInv(t)'
    BY <1>2, <1>5, <1>8, <2>1 DEF OwnedInv
  <2>7. ASSUME NEW p \in Objs
        PROVE  /\ Num(stk[t], Last0(p)) > 0 => bound'[p] = 0
               /\ Num(stk[t], Free(p)) > 0 => bound'[p] = 0
    BY <1>7, <1>10
  <2>8. LastInv(t)'
    BY <1>2, <1>7, <1>14, <2>2, <2>7 DEF LastInv
  <2>9. FreeInv(t)'
    BY <1>2, <1>7, <1>8, <1>14, <2>2, <2>7 DEF FreeInv
  <2>10. DeletedInv(t)' /\ QueueInv(t)'
    BY <1>1, <1>2, <1>9, <2>2 DEF ThreadInv, DeletedInv, QueueInv
  <2> QED BY <1>12, <2>3, <2>4, <2>5, <2>6, <2>8, <2>9, <2>10 DEF ThreadInv
<1> QED BY <1>3, <1>13, <1>14

(* msi_free: the entries leave one by one, then the memory is returned.    *)
LEMMA UnbindKeeps ==
  ASSUME NEW t, Threads = {t}, GraphInv, msi_unbind(t)
  PROVE  ThreadInv(t)' /\ ZeroedInv' /\ NameInv'
<1> USE DEF objVars, graphVars, fbVars, refVars
<1>1. t \in Threads /\ TypeInv /\ ThreadInv(t) /\ ZeroedInv /\ NameInv
  BY Facts
<1> DEFINE o == Top(t).obj
<1>2. /\ At(t, {"free"}) /\ o \in Objs
      /\ UNCHANGED <<list, users, bound, inited, fbVars, refVars>>
  BY <1>1, UnbindIs
<1>3. Freed(t, o) \/ \E i \in Outs : Cut(t, o, i)
  BY <1>1, UnbindIs
<1>4. /\ Top(t) \in Record /\ Top(t).op = "free" /\ Top(t) \in Recs(stk[t])
      /\ Recs(Below(t)) \subseteq Recs(stk[t])
  BY <1>1, <1>2, TopOK
<1>5. \A q \in Recs(stk[t]) : q.op \notin Sampled /\ (q.op = "walk" => made[q.obj] > 0)
  BY <1>1, <1>2, <1>4, SamplesAre DEF ThreadInv, OwnedInv, Sampled
<1> HIDE DEF o
<1>6. ASSUME NEW p \in Objs
      PROVE  /\ Top(t) \in Free(p) <=> p = o
             /\ Top(t) \notin Ref(p) /\ Top(t) \notin Unref(p)
             /\ Top(t) \notin Last(p) /\ Top(t) \notin Last0(p)
  BY <1>4, Classes DEF RefOps, LastOps, o
<1>7. /\ Num(stk[t], Free(o)) = 1 /\ users[o] = 0 /\ bound[o] = 0
      /\ o \in alive /\ o \notin list
  <2>1. Num(stk[t], Free(o)) > 0 /\ Num(stk[t], Free(o)) \in Nat
    BY <1>1, <1>2, <1>4, <1>6, NumIs, RecsOK
  <2> QED BY <1>1, <1>2, <2>1 DEF ThreadInv, FreeInv
<1>8. deleted \subseteq Objs /\ enable \subseteq Objs /\ \A f \in Frames : queue[f] # NULL => queue[f] \in Objs
  BY <1>1 DEF TypeInv, TypeOK, GraphType
<1>9. CASE Freed(t, o)
  <2>1. /\ alive' = alive \ {o} /\ deleted' = deleted \ {o} /\ enable' = enable \ {o}
        /\ name' = [name EXCEPT ![o] = NULL] /\ outs' = outs
        /\ stk' = [stk EXCEPT ![t] = Below(t)] /\ \A i \in Outs : outs[o][i] = NULL
    BY <1>9 DEF Freed
  <2>2. /\ stk'[t] = Below(t) /\ stk'[t] \in Seq(Record)
        /\ \A D : Num(stk[t], D) = Num(stk'[t], D) + One(Top(t) \in D)
    BY <1>1, <1>2, <2>1, Popped
  <2>3. ASSUME NEW p \in Objs
        PROVE  /\ Num(stk'[t], Ref(p)) = Num(stk[t], Ref(p))
               /\ Num(stk'[t], Last(p)) = Num(stk[t], Last(p))
               /\ Num(stk'[t], Last0(p)) = Num(stk[t], Last0(p))
               /\ Num(stk[t], Free(p)) = Num(stk'[t], Free(p)) + One(p = o)
               /\ Num(stk'[t], Unref(p)) = Num(stk[t], Unref(p))
               /\ Num(stk'[t], Free(p)) \in Nat
    <3>1. \A D : Num(stk'[t], D) \in Nat
      BY <2>2, NumIs
    <3> QED BY <1>6, <2>2, <3>1 DEF One
  <2>4. RefsInv(t)' /\ BoundInv(t)'
    BY <1>1, <1>2, <2>1, <2>3 DEF ThreadInv, RefsInv, BoundInv
  <2>5. SampleInv(t)'
    BY <1>4, <1>5, <2>2, Unsampled
  <2>6. OwnedInv(t)'
    BY <1>1, <1>2, <1>4, <1>5, <2>1, <2>2 DEF ThreadInv, OwnedInv
  <2>7. LastInv(t)'
    BY <1>1, <1>2, <2>3 DEF ThreadInv, LastInv
  <2>8. ASSUME NEW p \in Objs
        PROVE  /\ p \in alive' /\ p \notin list <=> Num(stk'[t], Free(p)) > 0
               /\ Num(stk'[t], Free(p)) <= 1
               /\ Num(stk'[t], Free(p)) > 0 => users[p] = 0 /\ bound[p] = 0
    <3>1. /\ p \in alive /\ p \notin list <=> Num(stk[t], Free(p)) > 0
          /\ Num(stk[t], Free(p)) <= 1
          /\ Num(stk[t], Free(p)) > 0 => users[p] = 0 /\ bound[p] = 0
      BY <1>1 DEF ThreadInv, FreeInv
    <3>2. CASE p = o
      BY <1>7, <2>1, <2>3, <3>2 DEF One
    <3>3. CASE p # o
      BY <2>1, <2>3, <3>1, <3>3 DEF One
    <3> QED BY <3>2, <3>3
  <2>9. FreeInv(t)'
    <3>1. list \subseteq alive'
      BY <1>1, <1>7, <2>1 DEF ThreadInv, FreeInv
    <3> QED BY <1>2, <2>8, <3>1 DEF FreeInv
  <2>10. DeletedInv(t)'
    <3>1. \A p \in deleted' : p \in deleted /\ Num(stk'[t], Free(p)) = Num(stk[t], Free(p))
                              /\ Num(stk'[t], Last(p)) = Num(stk[t], Last(p))
      BY <1>8, <2>1, <2>3 DEF One
    <3> QED BY <1>1, <1>2, <3>1 DEF ThreadInv, DeletedInv
  <2>11. QueueInv(t)'
    BY <1>1, <1>2, <1>8, <2>3 DEF ThreadInv, QueueInv
  <2>12. ZeroedInv'
    <3>1. ASSUME NEW p \in Objs \ alive'
          PROVE  /\ users[p] = 0 /\ bound[p] = 0 /\ p \notin enable' \cup deleted'
                 /\ \A i \in Outs : outs[p][i] = NULL
      <4>1. CASE p = o
        BY <1>7, <2>1, <4>1
      <4>2. CASE p # o
        BY <1>1, <2>1, <4>2 DEF ZeroedInv
      <4> QED BY <4>1, <4>2
    <3> QED BY <1>2, <2>1, <3>1 DEF ZeroedInv
  <2>13. NameInv'
    <3>1. \A p \in list : p \in Objs /\ name'[p] = name[p]
      BY <1>1, <1>7, <2>1 DEF TypeInv, TypeOK, GraphType
    <3> QED BY <1>1, <1>2, <3>1 DEF NameInv
  <2> QED BY <2>4, <2>5, <2>6, <2>7, <2>9, <2>10, <2>11, <2>12, <2>13 DEF ThreadInv
<1>10. ASSUME NEW i \in Outs, Cut(t, o, i) PROVE ThreadInv(t)' /\ ZeroedInv' /\ NameInv'
  <2> DEFINE x == outs[o][i]
  <2>1. /\ x \in Objs /\ outs' = [outs EXCEPT ![o][i] = NULL]
        /\ UNCHANGED <<alive, deleted, enable, name>>
    BY <1>10 DEF Cut
  <2>2. PICK r \in Record : /\ r.op = "unref" /\ r.obj = x /\ r.n = users[x]
                            /\ stk' = [stk EXCEPT ![t] = Append(stk[t], r)]
    BY <1>10 DEF Cut
  <2>3. Written(outs, outs', o, i, NULL)
    BY <1>1, <1>2, <2>1 DEF TypeInv, TypeOK, GraphType, Written
  <2> HIDE DEF x
  <2>4. /\ stk'[t] = Append(stk[t], r) /\ stk[t] \in Seq(Record) /\ stk'[t] \in Seq(Record)
        /\ Recs(stk'[t]) = Recs(stk[t]) \cup {r}
        /\ \A D : Num(stk'[t], D) = Num(stk[t], D) + One(r \in D)
    BY <1>1, <2>2, Pushed
  <2>5. ASSUME NEW p \in Objs
        PROVE  /\ Num(stk'[t], Ref(p)) = Num(stk[t], Ref(p))
               /\ Num(stk'[t], Last(p)) = Num(stk[t], Last(p))
               /\ Num(stk'[t], Last0(p)) = Num(stk[t], Last0(p))
               /\ Num(stk'[t], Free(p)) = Num(stk[t], Free(p))
               /\ Num(stk'[t], Unref(p)) = Num(stk[t], Unref(p)) + One(x = p)
    <3>1. \A D : Num(stk[t], D) \in Nat
      BY <2>4, NumIs
    <3>2. /\ r \in Unref(p) <=> x = p
          /\ r \notin Ref(p) /\ r \notin Last(p) /\ r \notin Last0(p) /\ r \notin Free(p)
      BY <2>2, Classes DEF RefOps, LastOps
    <3> QED BY <2>4, <3>1, <3>2 DEF One
  <2>6. RefsInv(t)'
    BY <1>1, <1>2, <2>5 DEF ThreadInv, RefsInv
  <2>7. BoundInv(t)'
    <3>1. ASSUME NEW p \in Objs
          PROVE  bound[p] = Cardinality(Ptrs(outs', p)) + Num(stk'[t], Unref(p))
      <4>1. Cardinality(Ptrs(outs', p)) = Cardinality(Ptrs(outs, p)) - One(x = p) + One(NULL = p)
        BY <1>2, <2>3, SetOut DEF x
      <4>2. /\ bound[p] = Cardinality(Ptrs(outs, p)) + Num(stk[t], Unref(p))
            /\ Cardinality(Ptrs(outs, p)) \in Nat /\ Num(stk[t], Unref(p)) \in Nat
        BY <1>1, Facts DEF ThreadInv, BoundInv
      <4>3. NULL # p
        BY MsiAssumption
      <4> QED BY <2>5, <4>1, <4>2, <4>3 DEF One
    <3> QED BY <1>2, <3>1 DEF BoundInv
  <2>8. SampleInv(t)'
    BY <1>2, <1>5, <2>2, <2>4, SampledTop
  <2>9. OwnedInv(t)'
    BY <1>1, <1>2, <1>5, <2>1, <2>2, <2>4 DEF ThreadInv, OwnedInv
  <2>10. LastInv(t)'
    BY <1>1, <1>2, <2>5 DEF ThreadInv, LastInv
  <2>11. FreeInv(t)'
    BY <1>1, <1>2, <2>1, <2>5 DEF ThreadInv, FreeInv
  <2>12. DeletedInv(t)' /\ QueueInv(t)'
    BY <1>1, <1>2, <1>8, <2>1, <2>5 DEF ThreadInv, DeletedInv, QueueInv
  <2>13. ZeroedInv' /\ NameInv'
    <3>1. \A p \in Objs \ alive : \A j \in Outs : outs'[p][j] = outs[p][j]
      BY <1>7, <2>3 DEF Written
    <3> QED BY <1>1, <1>2, <2>1, <3>1 DEF ZeroedInv, NameInv
  <2> QED BY <2>6, <2>7, <2>8, <2>9, <2>10, <2>11, <2>12, <2>13 DEF ThreadInv
<1> QED BY <1>3, <1>9, <1>10

(* An enabled output is referenced: it is owned, so it is not on its way   *)
(* out.                                                                    *)
LEMMA OutputNextKeeps ==
  ASSUME NEW t, Threads = {t}, GraphInv, output_next(t)
  PROVE  ThreadInv(t)' /\ ZeroedInv' /\ NameInv'
<1> USE DEF objVars, graphVars, fbVars, refVars
<1>1. t \in Threads /\ TypeInv /\ ThreadInv(t) /\ ZeroedInv /\ NameInv
  BY Facts
<1>2. /\ At(t, {"walk"}) /\ UNCHANGED <<graphVars, inited, deleted, enable, fbVars, refVars>>
  BY <1>1, OutputNextIs
<1>3. PICK w \in Record :
        /\ w.op = "walk" /\ w.obj = Top(t).obj
        /\ \/ stk' = [stk EXCEPT ![t] = Append(Below(t), w)] /\ users' = users
           \/ \E o \in enable, r \in Record :
                /\ users' = [users EXCEPT ![o] = @ + 1]
                /\ r.op = "trans" /\ r.obj = o
                /\ stk' = [stk EXCEPT ![t] = Append(Append(Below(t), w), r)]
  BY <1>1, OutputNextIs
<1>4. /\ Top(t) \in Record /\ Top(t).op = "walk" /\ Top(t) \in Recs(stk[t])
      /\ Recs(Below(t)) \subseteq Recs(stk[t]) /\ Fresh(t)
  BY <1>1, <1>2, TopOK DEF Fresh, At, Sampled
<1>5. \A q \in Recs(stk[t]) : q.op \notin Sampled /\ (q.op = "walk" => made[q.obj] > 0)
  BY <1>1, <1>2, <1>4, SamplesAre DEF ThreadInv, OwnedInv, Sampled
<1>6. CASE stk' = [stk EXCEPT ![t] = Append(Below(t), w)] /\ users' = users
  <2>1. /\ Even(t) /\ stk'[t] \in Seq(Record)
        /\ \A q \in Recs(stk'[t]) : q \in Recs(stk[t]) \/ q = w
        /\ \A o \in Objs : Num(stk'[t], Ref(o)) + One(IsRef(Top(t), o))
                               = Num(stk[t], Ref(o)) + One(IsRef(w, o))
    BY <1>1, <1>2, <1>3, <1>6, LightTurn DEF Light
  <2>2. ASSUME NEW o \in Objs PROVE Num(stk'[t], Ref(o)) = Num(stk[t], Ref(o))
    <3>1. Num(stk'[t], Ref(o)) \in Nat /\ Num(stk[t], Ref(o)) \in Nat
      BY <1>1, <2>1, NumIs, RecsOK
    <3> QED BY <1>3, <1>4, <2>1, <3>1 DEF IsRef, RefOps, One
  <2>3. RefsInv(t)'
    BY <1>2, <1>6, <2>2, SameRefs
  <2> QED BY <1>2, <1>3, <1>4, <1>5, <1>6, <2>1, <2>3, QuietStep DEF Sampled, Even
<1>7. ASSUME NEW o \in enable, NEW r \in Record, users' = [users EXCEPT ![o] = @ + 1],
             r.op = "trans", r.obj = o, stk' = [stk EXCEPT ![t] = Append(Append(Below(t), w), r)]
      PROVE  ThreadInv(t)' /\ ZeroedInv' /\ NameInv'
  <2>1. o \in Objs /\ users[o] \in Nat /\ users[o] > 0 /\ o \in alive
    <3>1. o \in Objs /\ made[o] > 0
      BY <1>1 DEF TypeInv, TypeOK, GraphType, ThreadInv, OwnedInv
    <3> QED BY <3>1, Facts
  <2>2. /\ users'[o] = users[o] + 1 /\ users'[o] > 0
        /\ \A p \in Objs : p # o => users'[p] = users[p]
    BY <1>1, <1>7, <2>1 DEF TypeInv, TypeOK, CountType
  <2>3. /\ stk'[t] \in Seq(Record) /\ Recs(stk'[t]) = Recs(Below(t)) \cup {w} \cup {r}
        /\ \A D : Num(stk'[t], D) + One(Top(t) \in D) = Num(stk[t], D) + One(w \in D) + One(r \in D)
    BY <1>1, <1>2, <1>7, TurnedTwo
  <2>4. ASSUME NEW p \in Objs
        PROVE  /\ Num(stk'[t], Ref(p)) = Num(stk[t], Ref(p)) + One(o = p)
               /\ Num(stk'[t], Last(p)) = Num(stk[t], Last(p))
               /\ Num(stk'[t], Last0(p)) = Num(stk[t], Last0(p))
               /\ Num(stk'[t], Free(p)) = Num(stk[t], Free(p))
               /\ Num(stk'[t], Unref(p)) = Num(stk[t], Unref(p))
    <3>1. \A D : Num(stk'[t], D) \in Nat /\ Num(stk[t], D) \in Nat
      BY <1>1, <2>3, NumIs, RecsOK
    <3>2. /\ w \notin Ref(p) /\ w \notin Last(p) /\ w \notin Last0(p)
          /\ w \notin Free(p) /\ w \notin Unref(p)
      BY <1>3, LightIs DEF Light, RefOps
    <3>3. /\ r \notin Last(p) /\ r \notin Last0(p) /\ r \notin Free(p) /\ r \notin Unref(p)
          /\ r \in Ref(p) <=> o = p
      BY <1>7, LightIs DEF Light, RefOps
    <3>4. /\ Top(t) \notin Ref(p) /\ Top(t) \notin Last(p) /\ Top(t) \notin Last0(p)
          /\ Top(t) \notin Free(p) /\ Top(t) \notin Unref(p)
      BY <1>4, LightIs DEF Light, RefOps
    <3> QED BY <2>3, <3>1, <3>2, <3>3, <3>4 DEF One
  <2>5. RefsInv(t)'
    <3>1. ASSUME NEW p \in Objs
          PROVE  users'[p] = made[p] + found[p] + Cardinality(Owned(owner, p)) + Num(stk'[t], Ref(p))
      <4>1. /\ users[p] = made[p] + found[p] + Cardinality(Owned(owner, p)) + Num(stk[t], Ref(p))
            /\ made[p] \in Nat /\ found[p] \in Nat /\ Cardinality(Owned(owner, p)) \in Nat
            /\ Num(stk[t], Ref(p)) \in Nat
        BY <1>1, Facts DEF ThreadInv, RefsInv
      <4> QED BY <2>2, <2>4, <4>1 DEF One
    <3> QED BY <1>2, <3>1 DEF RefsInv
  <2>6. BoundInv(t)'
    BY <1>1, <1>2, <2>4 DEF ThreadInv, BoundInv
  <2>7. \A q \in Recs(stk'[t]) : q.op \notin Sampled /\ (q.op = "walk" => made[q.obj] > 0)
    BY <1>3, <1>4, <1>5, <1>7, <2>3 DEF Sampled
  <2>8. SampleInv(t)'
    BY <2>3, <2>7, Unsampled
  <2>9. OwnedInv(t)'
    BY <1>1, <1>2, <2>7 DEF ThreadInv, OwnedInv
  <2>10. ASSUME NEW p \in Objs, users[p] = 0 PROVE users'[p] = 0
    BY <2>1, <2>2, <2>10
  <2>11. LastInv(t)'
    BY <1>1, <1>2, <2>4, <2>10 DEF ThreadInv, LastInv
  <2>12. FreeInv(t)'
    BY <1>1, <1>2, <2>4, <2>10 DEF ThreadInv, FreeInv
  <2>13. ASSUME NEW p \in Objs, users[p] > 0 PROVE users'[p] > 0
    BY <2>2, <2>13
  <2>14. DeletedInv(t)'
    <3>1. deleted \subseteq Objs
      BY <1>1 DEF TypeInv, TypeOK, GraphType
    <3> QED BY <1>1, <1>2, <2>4, <2>13, <3>1 DEF ThreadInv, DeletedInv
  <2>15. QueueInv(t)'
    <3>1. \A f \in Frames : queue[f] # NULL => queue[f] \in Objs
      BY <1>1 DEF TypeInv, TypeOK
    <3> QED BY <1>1, <1>2, <2>4, <2>13, <3>1 DEF ThreadInv, QueueInv
  <2>16. ZeroedInv' /\ NameInv'
    BY <1>1, <1>2, <2>10 DEF ZeroedInv, NameInv
  <2> QED BY <2>5, <2>6, <2>8, <2>9, <2>11, <2>12, <2>14, <2>15, <2>16 DEF ThreadInv
<1> QED BY <1>3, <1>6, <1>7

(* msi_destroy by one owner of several, and by the last one.               *)
LEMMA DestroyKeeps ==
  ASSUME NEW t, Threads = {t}, GraphInv, NEW o \in Objs, msi_destroy(t, o)
  PROVE  ThreadInv(t)' /\ ZeroedInv' /\ NameInv'
<1> USE DEF objVars, graphVars, fbVars
<1>1. t \in Threads /\ TypeInv /\ ThreadInv(t) /\ ZeroedInv /\ NameInv
  BY Facts
<1>2. /\ Idle(t) \/ At(t, {"pre", "post"})
      /\ made[o] > 0 /\ made' = [made EXCEPT ![o] = @ - 1]
      /\ inited' = [inited EXCEPT ![o] = Dec(@)]
      /\ \A r \in Recs(stk[t]) : ~(r.op = "walk" /\ r.obj = o)
      /\ UNCHANGED <<graphVars, fbVars, found>>
  BY <1>1, MsiDestroyIs
<1>3. \/ /\ Dec(inited[o]) = 0 /\ users' = users
         /\ enable' = enable \ {o} /\ deleted' = deleted \cup {o}
         /\ \E u, r \in Record :
              /\ u.op = "unlock" /\ r.op = "pre" /\ r.obj = o
              /\ stk' = [stk EXCEPT ![t] = Append(Append(stk[t], u), r)]
      \/ /\ Dec(inited[o]) # 0 /\ users' = [users EXCEPT ![o] = Dec(@)]
         /\ UNCHANGED <<enable, deleted, stk>>
  BY <1>1, MsiDestroyIs
<1>4. \A r \in Recs(stk[t]) : r.op \notin Sampled /\ (r.op = "walk" => made[r.obj] > 0 /\ r.obj # o)
  <2>1. CASE Idle(t)
    BY <1>1, <2>1, Idles
  <2>2. CASE At(t, {"pre", "post"})
    <3>1. Top(t).op \notin Sampled
      BY <1>1, <2>2, TopOK DEF Sampled
    <3> QED BY <1>1, <1>2, <2>2, <3>1, SamplesAre DEF ThreadInv, OwnedInv
  <2> QED BY <1>2, <2>1, <2>2
<1>5. /\ users[o] \in Nat /\ made[o] \in Nat /\ users[o] > 0 /\ o \in alive /\ o \in list
      /\ inited = made /\ \A p \in enable : made[p] > 0
  BY <1>1, <1>2, Facts DEF ThreadInv, OwnedInv
<1>6. /\ made'[o] = made[o] - 1 /\ \A p \in Objs : p # o => made'[p] = made[p]
      /\ inited' = made'
  <2>1. Dec(made[o]) = made[o] - 1
    BY <1>2, <1>5 DEF Dec
  <2> QED BY <1>1, <1>2, <1>5, <2>1 DEF TypeInv, TypeOK, CountType
<1>7. /\ deleted \subseteq Objs /\ enable \subseteq Objs
      /\ \A f \in Frames : queue[f] # NULL => queue[f] \in Objs
      /\ \A r \in Recs(stk[t]) : r \in Record /\ (r.op = "walk" => r.obj \in Objs)
  BY <1>1, RecsOK DEF TypeInv, TypeOK, GraphType, RecordOK
<1>8. CASE /\ Dec(inited[o]) = 0 /\ users' = users
           /\ enable' = enable \ {o} /\ deleted' = deleted \cup {o}
           /\ \E u, r \in Record :
                /\ u.op = "unlock" /\ r.op = "pre" /\ r.obj = o
                /\ stk' = [stk EXCEPT ![t] = Append(Append(stk[t], u), r)]
  <2>1. PICK u, r \in Record :
            /\ u.op = "unlock" /\ r.op = "pre" /\ r.obj = o
            /\ stk' = [stk EXCEPT ![t] = Append(Append(stk[t], u), r)]
    BY <1>8
  <2>2. /\ stk'[t] \in Seq(Record) /\ Recs(stk'[t]) = Recs(stk[t]) \cup {u} \cup {r}
        /\ \A D : Num(stk'[t], D) = Num(stk[t], D) + One(u \in D) + One(r \in D)
    BY <1>1, <2>1, PushedTwo
  <2>3. ASSUME NEW p \in Objs
        PROVE  /\ Num(stk'[t], Ref(p)) = Num(stk[t], Ref(p)) + One(o = p)
               /\ Num(stk'[t], Last(p)) = Num(stk[t], Last(p))
               /\ Num(stk'[t], Last0(p)) = Num(stk[t], Last0(p))
               /\ Num(stk'[t], Free(p)) = Num(stk[t], Free(p))
               /\ Num(stk'[t], Unref(p)) = Num(stk[t], Unref(p))
    <3>1. \A D : Num(stk[t], D) \in Nat
      BY <1>1, NumIs, RecsOK
    <3>2. /\ u \notin Ref(p) /\ u \notin Last(p) /\ u \notin Last0(p)
          /\ u \notin Free(p) /\ u \notin Unref(p)
      BY <2>1, LightIs DEF Light, RefOps
    <3>3. /\ r \notin Last(p) /\ r \notin Last0(p) /\ r \notin Free(p) /\ r \notin Unref(p)
          /\ r \in Ref(p) <=> o = p
      BY <2>1, LightIs DEF Light, RefOps
    <3> QED BY <2>2, <3>1, <3>2, <3>3 DEF One
  <2>4. made'[o] = 0
    BY <1>2, <1>5, <1>6, <1>8 DEF Dec
  <2>5. RefsInv(t)'
    <3>1. ASSUME NEW p \in Objs
          PROVE  users[p] = made'[p] + found[p] + Cardinality(Owned(owner, p)) + Num(stk'[t], Ref(p))
      <4>1. /\ users[p] = made[p] + found[p] + Cardinality(Owned(owner, p)) + Num(stk[t], Ref(p))
            /\ made[p] \in Nat /\ found[p] \in Nat /\ Cardinality(Owned(owner, p)) \in Nat
            /\ Num(stk[t], Ref(p)) \in Nat
        BY <1>1, Facts DEF ThreadInv, RefsInv
      <4> QED BY <1>6, <2>3, <4>1 DEF One
    <3> QED BY <1>2, <1>8, <3>1 DEF RefsInv
  <2>6. BoundInv(t)'
    BY <1>1, <1>2, <2>3 DEF ThreadInv, BoundInv
  <2>7. SampleInv(t)'
    BY <1>4, <2>1, <2>2, Unsampled DEF Sampled
  <2>8. OwnedInv(t)'
    <3>1. \A q \in Recs(stk'[t]) : q.op = "walk" => made'[q.obj] > 0
      BY <1>4, <1>6, <1>7, <2>1, <2>2
    <3>2. \A p \in enable' : made'[p] > 0
      BY <1>5, <1>6, <1>7, <1>8
    <3> QED BY <1>6, <3>1, <3>2 DEF OwnedInv
  <2>9. LastInv(t)'
    BY <1>1, <1>2, <1>8, <2>3 DEF ThreadInv, LastInv
  <2>10. FreeInv(t)'
    BY <1>1, <1>2, <1>8, <2>3 DEF ThreadInv, FreeInv
  <2>11. DeletedInv(t)'
    <3>1. ASSUME NEW p \in deleted'
          PROVE  /\ made'[p] = 0
                 /\ users[p] > 0 \/ Num(stk'[t], Last(p)) > 0 \/ Num(stk'[t], Free(p)) > 0
      <4>1. CASE p = o
        BY <1>5, <2>4, <4>1
      <4>2. CASE p # o
        <5>1. p \in deleted /\ p \in Objs
          BY <1>7, <1>8, <3>1, <4>2
        <5> QED BY <1>1, <1>6, <2>3, <4>2, <5>1 DEF ThreadInv, DeletedInv
      <4> QED BY <4>1, <4>2
    <3> QED BY <1>8, <3>1 DEF DeletedInv
  <2>12. QueueInv(t)'
    BY <1>1, <1>2, <1>7, <1>8, <2>3 DEF ThreadInv, QueueInv
  <2>13. ZeroedInv' /\ NameInv'
    BY <1>1, <1>2, <1>5, <1>8 DEF ZeroedInv, NameInv
  <2> QED BY <2>5, <2>6, <2>7, <2>8, <2>9, <2>10, <2>11, <2>12, <2>13 DEF ThreadInv
<1>9. CASE /\ Dec(inited[o]) # 0 /\ users' = [users EXCEPT ![o] = Dec(@)]
           /\ UNCHANGED <<enable, deleted, stk>>
  <2>1. made'[o] > 0
    BY <1>2, <1>5, <1>6, <1>9 DEF Dec
  <2>2. users'[o] = users[o] - 1 /\ \A p \in Objs : p # o => users'[p] = users[p]
    BY <1>1, <1>5, <1>9 DEF TypeInv, TypeOK, CountType, Dec
  <2>3. ASSUME NEW p \in Objs
        PROVE  users'[p] = made'[p] + found[p] + Cardinality(Owned(owner, p)) + Num(stk[t], Ref(p))
    <3>1. /\ users[p] = made[p] + found[p] + Cardinality(Owned(owner, p)) + Num(stk[t], Ref(p))
          /\ made[p] \in Nat /\ found[p] \in Nat /\ Cardinality(Owned(owner, p)) \in Nat
          /\ Num(stk[t], Ref(p)) \in Nat
      BY <1>1, Facts DEF ThreadInv, RefsInv
    <3> QED BY <1>6, <2>2, <3>1
  <2>4. users'[o] > 0
    <3>1. /\ found[o] \in Nat /\ Cardinality(Owned(owner, o)) \in Nat /\ Num(stk[t], Ref(o)) \in Nat
      BY Facts
    <3> QED BY <1>5, <1>6, <2>1, <2>3, <3>1
  <2>5. RefsInv(t)' /\ BoundInv(t)'
    BY <1>1, <1>2, <1>9, <2>3 DEF ThreadInv, RefsInv, BoundInv
  <2>6. SampleInv(t)'
    BY <1>1, <1>4, <1>9, Unsampled, RecsOK
  <2>7. OwnedInv(t)'
    <3>1. \A q \in Recs(stk'[t]) : q.op = "walk" => made'[q.obj] > 0
      BY <1>4, <1>6, <1>7, <1>9
    <3>2. \A p \in enable' : made'[p] > 0
      BY <1>5, <1>6, <1>7, <1>9, <2>1
    <3> QED BY <1>6, <3>1, <3>2 DEF OwnedInv
  <2>8. \A p \in Objs : users[p] = 0 => users'[p] = 0
    BY <1>5, <2>2
  <2>9. \A p \in Objs : users[p] > 0 => users'[p] > 0
    BY <2>2, <2>4
  <2>10. LastInv(t)' /\ FreeInv(t)'
    BY <1>1, <1>2, <1>9, <2>8 DEF ThreadInv, LastInv, FreeInv
  <2>11. DeletedInv(t)'
    <3>1. \A p \in deleted : made'[p] = 0
      BY <1>1, <1>2, <1>6, <1>7 DEF ThreadInv, DeletedInv
    <3> QED BY <1>1, <1>7, <1>9, <2>9, <3>1 DEF ThreadInv, DeletedInv
  <2>12. QueueInv(t)'
    BY <1>1, <1>2, <1>7, <1>9, <2>9 DEF ThreadInv, QueueInv
  <2>13. ZeroedInv' /\ NameInv'
    BY <1>1, <1>2, <1>9, <2>8 DEF ZeroedInv, NameInv
  <2> QED BY <2>5, <2>6, <2>7, <2>10, <2>11, <2>12, <2>13 DEF ThreadInv
<1> QED BY <1>3, <1>8, <1>9

LEMMA Counted ==
  ASSUME NEW A, NEW x
  PROVE  Cardinality(A \cap {x}) = One(x \in A)
<1>1. A \cap {x} = IF x \in A THEN {x} ELSE {}
  OBVIOUS
<1>2. Cardinality({x}) = 1 /\ Cardinality({}) = 0
  BY FS_Singleton, FS_EmptySet
<1> QED BY <1>1, <1>2 DEF One

(* msi_del_output: nothing is on its way out when it starts.               *)
LEMMA DeletingKeeps ==
  ASSUME NEW t, Threads = {t}, GraphInv, NEW S, NEW l, NEW on, NEW ls \in SUBSET list,
         \A x, y \in ls : x = y,
         Work(S, ls, msi_find_lock(on)), Deleting(t, S, ls, msi_find_lock(on), l)
  PROVE  ThreadInv(t)' /\ ZeroedInv' /\ NameInv'
<1> USE DEF fbVars, refVars
<1>1. t \in Threads /\ TypeInv /\ ThreadInv(t) /\ ZeroedInv /\ NameInv
  BY Facts
<1> DEFINE os == msi_find_lock(on)
<1>2. os \subseteq list /\ list \subseteq Objs /\ \A x, y \in os : x = y
  BY <1>1 DEF msi_find_lock, NameInv, TypeInv, TypeOK, GraphType
<1>3. /\ S \in Seq(Record) /\ \A r \in Recs(S) : r.op = "unlock" \/ (r.op = "put" /\ r.obj \in ls \cup os)
      /\ \A o \in Objs : Num(S, Ref(o)) = One(o \in ls) + One(o \in os)
  BY <1>2 DEF Work
<1>4. /\ Idle(t) /\ users' = [x \in Objs |-> users[x] + Cardinality(ls \cap {x}) + Cardinality(os \cap {x})]
      /\ UNCHANGED <<alive, list, name, bound, inited, deleted, enable, fbVars, refVars>>
  BY DEF Deleting
<1>5. \/ stk' = [stk EXCEPT ![t] = S] /\ outs' = outs
      \/ \E i \in Outs, r \in Record :
            /\ l \in Objs /\ outs[l][i] \in os /\ outs' = [outs EXCEPT ![l][i] = NULL]
            /\ r.op = "unref" /\ r.obj = outs[l][i] /\ r.n = users'[outs[l][i]]
            /\ stk' = [stk EXCEPT ![t] = Append(S, r)]
  BY DEF Deleting
<1> HIDE DEF os
<1>6. \A x \in Objs : users'[x] = users[x] + One(x \in ls) + One(x \in os)
  BY <1>4, Counted
<1>7. \A D : Num(stk[t], D) = 0
  BY <1>1, <1>4, Idles
<1>8. ASSUME NEW o \in Objs
      PROVE  /\ Num(S, Last(o)) = 0 /\ Num(S, Last0(o)) = 0
             /\ Num(S, Free(o)) = 0 /\ Num(S, Unref(o)) = 0
  <2>1. \A r \in Recs(S) : r \in Record
    BY <1>3 DEF Recs
  <2>2. \A r \in Recs(S) : r \notin Last(o) /\ r \notin Last0(o) /\ r \notin Free(o) /\ r \notin Unref(o)
    BY <1>3, <2>1, Classes DEF LastOps
  <2>3. \A D : Num(S, D) \in Nat /\ (Num(S, D) > 0 <=> \E r \in Recs(S) : r \in D)
    BY <1>3, NumIs
  <2> QED BY <2>2, <2>3
<1>9. ASSUME NEW o \in Objs
      PROVE  /\ Num(stk'[t], Ref(o)) = One(o \in ls) + One(o \in os)
             /\ Num(stk'[t], Last(o)) = 0 /\ Num(stk'[t], Last0(o)) = 0 /\ Num(stk'[t], Free(o)) = 0
             /\ bound[o] = Cardinality(Ptrs(outs', o)) + Num(stk'[t], Unref(o))
  <2>1. bound[o] = Cardinality(Ptrs(outs, o)) /\ Cardinality(Ptrs(outs, o)) \in Nat
    BY <1>1, <1>7, Facts DEF ThreadInv, BoundInv
  <2>2. CASE stk' = [stk EXCEPT ![t] = S] /\ outs' = outs
    <3>1. stk'[t] = S
      BY <1>1, <2>2 DEF TypeInv, TypeOK
    <3> QED BY <1>3, <1>8, <2>1, <2>2, <3>1
  <2>3. ASSUME NEW i \in Outs, NEW r \in Record, l \in Objs, outs[l][i] \in os,
               outs' = [outs EXCEPT ![l][i] = NULL], r.op = "unref", r.obj = outs[l][i],
               stk' = [stk EXCEPT ![t] = Append(S, r)]
        PROVE  /\ Num(stk'[t], Ref(o)) = One(o \in ls) + One(o \in os)
               /\ Num(stk'[t], Last(o)) = 0 /\ Num(stk'[t], Last0(o)) = 0 /\ Num(stk'[t], Free(o)) = 0
               /\ bound[o] = Cardinality(Ptrs(outs', o)) + Num(stk'[t], Unref(o))
    <3>1. stk'[t] = Append(S, r)
      BY <1>1, <2>3 DEF TypeInv, TypeOK
    <3>2. \A D : Num(stk'[t], D) = Num(S, D) + One(r \in D)
      BY <1>3, <3>1, OneMore
    <3>3. /\ r \notin Ref(o) /\ r \notin Last(o) /\ r \notin Last0(o) /\ r \notin Free(o)
          /\ r \in Unref(o) <=> outs[l][i] = o
      BY <2>3, Classes DEF RefOps, LastOps
    <3>4. Written(outs, outs', l, i, NULL)
      BY <1>1, <2>3 DEF TypeInv, TypeOK, GraphType, Written
    <3>5. Cardinality(Ptrs(outs', o)) = Cardinality(Ptrs(outs, o)) - One(outs[l][i] = o) + One(NULL = o)
      BY <2>3, <3>4, SetOut
    <3>6. NULL # o
      BY MsiAssumption
    <3> QED BY <1>3, <1>8, <2>1, <3>2, <3>3, <3>5, <3>6 DEF One
  <2> QED BY <1>5, <2>2, <2>3
<1>10. RefsInv(t)'
  <2>1. ASSUME NEW o \in Objs
        PROVE  users'[o] = made[o] + found[o] + Cardinality(Owned(owner, o)) + Num(stk'[t], Ref(o))
    <3>1. /\ users[o] = made[o] + found[o] + Cardinality(Owned(owner, o)) + Num(stk[t], Ref(o))
          /\ made[o] \in Nat /\ found[o] \in Nat /\ Cardinality(Owned(owner, o)) \in Nat
      BY <1>1, Facts DEF ThreadInv, RefsInv
    <3> QED BY <1>6, <1>7, <1>9, <3>1 DEF One
  <2> QED BY <1>4, <2>1 DEF RefsInv
<1>11. BoundInv(t)'
  BY <1>4, <1>9 DEF BoundInv
<1>12. SampleInv(t)' /\ \A r \in Recs(stk'[t]) : r.op # "walk"
  <2>1. CASE stk' = [stk EXCEPT ![t] = S]
    <3>1. stk'[t] = S
      BY <1>1, <2>1 DEF TypeInv, TypeOK
    <3> QED BY <1>3, <3>1, Unsampled DEF Sampled
  <2>2. ASSUME NEW i \in Outs, NEW r \in Record, r.op = "unref", r.obj = outs[l][i],
               r.n = users'[outs[l][i]], stk' = [stk EXCEPT ![t] = Append(S, r)]
        PROVE  SampleInv(t)' /\ \A q \in Recs(stk'[t]) : q.op # "walk"
    <3>1. stk'[t] = Append(S, r)
      BY <1>1, <2>2 DEF TypeInv, TypeOK
    <3>2. Recs(stk'[t]) = Recs(S) \cup {r}
      BY <1>3, <3>1, OneMore
    <3>3. SampleInv(t)'
      BY <1>3, <2>2, <3>1, SampledTop DEF Sampled
    <3> QED BY <1>3, <2>2, <3>2, <3>3
  <2> QED BY <1>5, <2>1, <2>2
<1>13. OwnedInv(t)'
  BY <1>1, <1>4, <1>12 DEF ThreadInv, OwnedInv
<1>14. LastInv(t)'
  BY <1>9 DEF LastInv
<1>15. FreeInv(t)'
  BY <1>1, <1>4, <1>7, <1>9 DEF ThreadInv, FreeInv
<1>16. ASSUME NEW o \in Objs, users[o] > 0 PROVE users'[o] > 0
  <2>1. users[o] \in Nat
    BY Facts
  <2> QED BY <1>6, <1>16, <2>1 DEF One
<1>17. DeletedInv(t)' /\ QueueInv(t)'
  <2>1. deleted \subseteq Objs /\ \A f \in Frames : queue[f] # NULL => queue[f] \in Objs
    BY <1>1 DEF TypeInv, TypeOK, GraphType
  <2>2. \A o \in deleted : made[o] = 0 /\ users'[o] > 0
    BY <1>1, <1>7, <1>16, <2>1 DEF ThreadInv, DeletedInv
  <2>3. \A f \in Frames : queue[f] # NULL => users'[queue[f]] > 0
    BY <1>1, <1>7, <1>16, <2>1 DEF ThreadInv, QueueInv
  <2> QED BY <1>4, <2>2, <2>3 DEF DeletedInv, QueueInv
<1>18. ZeroedInv'
  <2>1. \A o \in Objs \ alive : users'[o] = users[o]
    <3>1. list \subseteq alive /\ \A o \in Objs : users[o] \in Nat
      BY <1>1, Facts DEF ThreadInv, FreeInv
    <3> QED BY <1>2, <1>6, <3>1 DEF One
  <2>2. \A o \in Objs, j \in Outs : outs'[o][j] \in {outs[o][j], NULL}
    <3>1. CASE outs' = outs
      BY <3>1
    <3>2. ASSUME NEW i \in Outs, l \in Objs, outs' = [outs EXCEPT ![l][i] = NULL]
          PROVE  \A o \in Objs, j \in Outs : outs'[o][j] \in {outs[o][j], NULL}
      BY <1>1, <3>2 DEF TypeInv, TypeOK, GraphType
    <3> QED BY <1>5, <3>1, <3>2
  <2>3. ASSUME NEW o \in Objs \ alive
        PROVE  /\ users'[o] = 0 /\ bound[o] = 0 /\ o \notin enable \cup deleted
               /\ \A j \in Outs : outs'[o][j] = NULL
    BY <1>1, <2>1, <2>2 DEF ZeroedInv
  <2> QED BY <1>4, <2>3 DEF ZeroedInv
<1>19. NameInv'
  BY <1>1, <1>4 DEF NameInv
<1> QED BY <1>10, <1>11, <1>12, <1>13, <1>14, <1>15, <1>17, <1>18, <1>19 DEF ThreadInv

-----------------------------------------------------------------------------
(* Calls that are over in one step. *)
LEMMA IdleIs ==
  ASSUME NEW t, Threads = {t}, GraphInv, Idle(t)
  PROVE  /\ list = alive /\ inited = made /\ \A o \in enable : made[o] > 0
         /\ \A o \in Objs : /\ users[o] = made[o] + found[o] + Cardinality(Owned(owner, o))
                            /\ bound[o] = Cardinality(Ptrs(outs, o))
         /\ \A o \in deleted : made[o] = 0 /\ users[o] > 0
         /\ \A f \in Frames : queue[f] # NULL => users[queue[f]] > 0
<1>1. t \in Threads /\ TypeInv /\ ThreadInv(t)
  BY Facts
<1>2. \A D : Num(stk[t], D) = 0
  BY <1>1, Idles
<1>3. ASSUME NEW o \in Objs
      PROVE  /\ users[o] = made[o] + found[o] + Cardinality(Owned(owner, o))
             /\ bound[o] = Cardinality(Ptrs(outs, o))
  <2>1. /\ made[o] \in Nat /\ found[o] \in Nat /\ Cardinality(Owned(owner, o)) \in Nat
        /\ Cardinality(Ptrs(outs, o)) \in Nat
    BY Facts
  <2> QED BY <1>1, <1>2, <2>1 DEF ThreadInv, RefsInv, BoundInv
<1>4. list = alive
  <2>1. list \subseteq alive /\ alive \subseteq Objs
    BY <1>1 DEF ThreadInv, FreeInv, TypeInv, TypeOK, GraphType
  <2>2. \A o \in Objs : ~(o \in alive /\ o \notin list)
    BY <1>1, <1>2 DEF ThreadInv, FreeInv
  <2> QED BY <2>1, <2>2
<1>5. \A o \in deleted : made[o] = 0 /\ users[o] > 0
  BY <1>1, <1>2 DEF ThreadInv, DeletedInv
<1>6. \A f \in Frames : queue[f] # NULL => users[queue[f]] > 0
  BY <1>1, <1>2 DEF ThreadInv, QueueInv
<1>7. inited = made /\ \A o \in enable : made[o] > 0
  BY <1>1 DEF ThreadInv, OwnedInv
<1> QED BY <1>3, <1>4, <1>5, <1>6, <1>7

LEMMA IdleStep ==
  ASSUME NEW t, Threads = {t}, GraphInv, Idle(t), stk' = stk,
         list' = alive', inited' = made', \A o \in enable' : made'[o] > 0,
         \A o \in Objs : /\ users'[o] = made'[o] + found'[o] + Cardinality(Owned(owner', o))
                         /\ made'[o] \in Nat /\ found'[o] \in Nat,
         \A o \in Objs : bound'[o] = Cardinality(Ptrs(outs', o)),
         \A o \in deleted' : made'[o] = 0 /\ users'[o] > 0,
         \A f \in Frames : queue'[f] # NULL => users'[queue'[f]] > 0
  PROVE  ThreadInv(t)'
<1>1. t \in Threads /\ TypeInv
  BY Facts
<1>2. stk'[t] = <<>> /\ Recs(stk'[t]) = {} /\ \A D : Num(stk'[t], D) = 0
  BY <1>1, Idles
<1>3. \A o \in Objs : /\ Cardinality(Owned(owner', o)) \in Nat
                      /\ Cardinality(Ptrs(outs', o)) \in Nat
  BY OwnedCount, PtrsCount
<1>4. RefsInv(t)' /\ BoundInv(t)'
  BY <1>2, <1>3 DEF RefsInv, BoundInv
<1>5. SampleInv(t)'
  BY <1>1, <1>2, Unsampled, RecsOK
<1>6. OwnedInv(t)'
  BY <1>2 DEF OwnedInv
<1>7. LastInv(t)' /\ FreeInv(t)'
  BY <1>2 DEF LastInv, FreeInv
<1>8. DeletedInv(t)' /\ QueueInv(t)'
  BY DEF DeletedInv, QueueInv
<1> QED BY <1>4, <1>5, <1>6, <1>7, <1>8 DEF ThreadInv

(* A name is given to a component that is on the list under it, or to a    *)
(* new one when nobody has it.                                             *)
LEMMA Joined ==
  ASSUME TypeInv, NameInv, list = alive, NEW n \in Names, NEW o \in Objs,
         msi_new_lock(n, o), Join(o, n)
  PROVE  NameInv' /\ list' = alive'
<1>1. /\ list' = list \cup {o} /\ alive' = alive \cup {o} /\ name'[o] = n
      /\ \A p \in Objs : p # o => name'[p] = name[p]
  BY DEF Join, TypeInv, TypeOK, GraphType
<1>2. \A p \in list : p # o => p \in Objs /\ name[p] # n
  <2>1. CASE o \in msi_find_lock(n)
    BY <2>1 DEF msi_find_lock, NameInv, TypeInv, TypeOK, GraphType
  <2>2. CASE msi_find_lock(n) = {}
    BY <2>2 DEF msi_find_lock, TypeInv, TypeOK, GraphType
  <2> QED BY <2>1, <2>2 DEF msi_new_lock
<1> QED BY <1>1, <1>2 DEF NameInv

(* One more reference to o. *)
LEMMA OneUser ==
  ASSUME TypeInv, NEW o \in Objs, msi_get(o)
  PROVE  /\ users'[o] = users[o] + 1 /\ users'[o] > 0
         /\ \A p \in Objs : p # o => users'[p] = users[p]
         /\ \A p \in Objs : users[p] > 0 => users'[p] > 0
         /\ \A p \in Objs : users'[p] = users[p] + One(p = o)
         /\ \A p \in Objs : users[p] \in Nat /\ made[p] \in Nat /\ found[p] \in Nat
<1>1. users \in [Objs -> Nat] /\ made \in [Objs -> Nat] /\ found \in [Objs -> Nat]
  BY DEF TypeInv, TypeOK, CountType
<1> QED BY <1>1 DEF msi_get, One

LEMMA NewKeeps ==
  ASSUME NEW t, Threads = {t}, GraphInv, NEW n \in Names, NEW o \in Objs, msi_new(t, n, o)
  PROVE  ThreadInv(t)' /\ ZeroedInv' /\ NameInv'
<1> USE DEF fbVars
<1>1. TypeInv /\ ZeroedInv /\ NameInv
  BY Facts
<1>2. /\ Idle(t) /\ msi_new_lock(n, o) /\ o \notin deleted /\ Join(o, n) /\ msi_get(o)
      /\ inited' = [inited EXCEPT ![o] = @ + 1] /\ made' = [made EXCEPT ![o] = @ + 1]
      /\ UNCHANGED <<bound, deleted, enable, outs, fbVars, stk, found>>
  BY DEF msi_new
<1>3. /\ list = alive /\ inited = made /\ \A p \in enable : made[p] > 0
      /\ \A p \in Objs : /\ users[p] = made[p] + found[p] + Cardinality(Owned(owner, p))
                         /\ bound[p] = Cardinality(Ptrs(outs, p))
      /\ \A p \in deleted : made[p] = 0 /\ users[p] > 0
      /\ \A f \in Frames : queue[f] # NULL => users[queue[f]] > 0
  BY <1>2, IdleIs
<1>4. NameInv' /\ list' = alive' /\ alive' = alive \cup {o}
  BY <1>1, <1>2, <1>3, Joined DEF Join
<1>5. /\ \A p \in Objs : users'[p] = users[p] + One(p = o)
      /\ \A p \in Objs : users[p] > 0 => users'[p] > 0
      /\ \A p \in Objs : p # o => users'[p] = users[p]
      /\ \A p \in Objs : made[p] \in Nat /\ found[p] \in Nat
  BY <1>1, <1>2, OneUser
<1>6. \A p \in Objs : made'[p] = made[p] + One(p = o)
  BY <1>1, <1>2 DEF TypeInv, TypeOK, CountType, One
<1>7. inited' = made'
  BY <1>2, <1>3
<1>8. deleted \subseteq Objs /\ enable \subseteq Objs /\ \A f \in Frames : queue[f] # NULL => queue[f] \in Objs
  BY <1>1 DEF TypeInv, TypeOK, GraphType
<1>9. ASSUME NEW p \in Objs
      PROVE  /\ users'[p] = made'[p] + found[p] + Cardinality(Owned(owner, p)) /\ made'[p] \in Nat
  <2>1. Cardinality(Owned(owner, p)) \in Nat
    BY OwnedCount
  <2> QED BY <1>3, <1>5, <1>6, <2>1 DEF One
<1>10. \A p \in enable : made'[p] > 0
  BY <1>3, <1>5, <1>6, <1>8 DEF One
<1>11. \A p \in deleted : made'[p] = 0 /\ users'[p] > 0
  BY <1>2, <1>3, <1>5, <1>6, <1>8 DEF One
<1>12. \A f \in Frames : queue[f] # NULL => users'[queue[f]] > 0
  BY <1>3, <1>5, <1>8
<1>13. ThreadInv(t)'
  BY <1>2, <1>3, <1>4, <1>5, <1>7, <1>9, <1>10, <1>11, <1>12, IdleStep
<1>14. ZeroedInv'
  BY <1>1, <1>2, <1>4, <1>5 DEF ZeroedInv
<1> QED BY <1>4, <1>13, <1>14

LEMMA EnableKeeps ==
  ASSUME NEW t, Threads = {t}, GraphInv, NEW o \in Objs, msi_enable(t, o)
  PROVE  ThreadInv(t)' /\ ZeroedInv' /\ NameInv'
<1> USE DEF graphVars, fbVars, refVars
<1>1. TypeInv /\ ZeroedInv /\ NameInv
  BY Facts
<1>2. /\ Idle(t) /\ made[o] > 0 /\ enable' = enable \cup {o}
      /\ UNCHANGED <<graphVars, users, inited, deleted, fbVars, stk, refVars>>
  BY DEF msi_enable
<1>3. o \in alive /\ \A p \in Objs : made[p] \in Nat /\ found[p] \in Nat
  BY <1>2, Facts
<1>4. ThreadInv(t)'
  BY <1>2, <1>3, IdleIs, IdleStep
<1>5. ZeroedInv' /\ NameInv'
  BY <1>1, <1>2, <1>3 DEF ZeroedInv, NameInv
<1> QED BY <1>4, <1>5

LEMMA FindKeeps ==
  ASSUME NEW t, Threads = {t}, GraphInv, NEW n \in Names, NEW only \in BOOLEAN, msi_find(t, n, only)
  PROVE  ThreadInv(t)' /\ ZeroedInv' /\ NameInv'
<1> USE DEF graphVars, fbVars
<1>1. TypeInv /\ ZeroedInv /\ NameInv
  BY Facts
<1>2. PICK o \in msi_find_lock(n) : msi_get(o) /\ found' = [found EXCEPT ![o] = @ + 1]
  BY DEF msi_find
<1>3. /\ Idle(t) /\ UNCHANGED <<graphVars, inited, deleted, enable, fbVars, stk, made>>
  BY DEF msi_find
<1>4. o \in Objs /\ o \in list
  BY <1>1, <1>2 DEF msi_find_lock, TypeInv, TypeOK, GraphType
<1>5. /\ list = alive /\ inited = made /\ \A p \in enable : made[p] > 0
      /\ \A p \in Objs : /\ users[p] = made[p] + found[p] + Cardinality(Owned(owner, p))
                         /\ bound[p] = Cardinality(Ptrs(outs, p))
      /\ \A p \in deleted : made[p] = 0 /\ users[p] > 0
      /\ \A f \in Frames : queue[f] # NULL => users[queue[f]] > 0
  BY <1>3, IdleIs
<1>6. /\ \A p \in Objs : users'[p] = users[p] + One(p = o)
      /\ \A p \in Objs : users[p] > 0 => users'[p] > 0
      /\ \A p \in Objs : p # o => users'[p] = users[p]
      /\ \A p \in Objs : made[p] \in Nat /\ found[p] \in Nat
  BY <1>1, <1>2, <1>4, OneUser
<1>7. \A p \in Objs : found'[p] = found[p] + One(p = o)
  BY <1>1, <1>2, <1>4 DEF TypeInv, TypeOK, CountType, One
<1>8. deleted \subseteq Objs /\ \A f \in Frames : queue[f] # NULL => queue[f] \in Objs
  BY <1>1 DEF TypeInv, TypeOK, GraphType
<1>9. ASSUME NEW p \in Objs
      PROVE  users'[p] = made[p] + found'[p] + Cardinality(Owned(owner, p)) /\ found'[p] \in Nat
  <2>1. Cardinality(Owned(owner, p)) \in Nat
    BY OwnedCount
  <2> QED BY <1>5, <1>6, <1>7, <2>1 DEF One
<1>10. /\ \A p \in deleted : made[p] = 0 /\ users'[p] > 0
       /\ \A f \in Frames : queue[f] # NULL => users'[queue[f]] > 0
  BY <1>5, <1>6, <1>8
<1>11. ThreadInv(t)'
  BY <1>3, <1>5, <1>6, <1>9, <1>10, IdleStep
<1>12. ZeroedInv' /\ NameInv'
  BY <1>1, <1>3, <1>4, <1>5, <1>6 DEF ZeroedInv, NameInv
<1> QED BY <1>11, <1>12

LEMMA AllocKeeps ==
  ASSUME NEW t, Threads = {t}, GraphInv, NEW o \in Objs, NEW f \in Frames, fb_alloc(t, o, f)
  PROVE  ThreadInv(t)' /\ ZeroedInv' /\ NameInv'
<1> USE DEF graphVars, refVars
<1>1. TypeInv /\ ZeroedInv /\ NameInv
  BY Facts
<1>2. /\ Idle(t) /\ made[o] > 0 /\ owner[f] = NULL /\ owner' = [owner EXCEPT ![f] = o] /\ msi_get(o)
      /\ UNCHANGED <<graphVars, inited, deleted, enable, queue, stk, refVars>>
  BY DEF fb_alloc
<1>3. o \in alive
  BY <1>2, Facts
<1>4. /\ list = alive /\ inited = made /\ \A p \in enable : made[p] > 0
      /\ \A p \in Objs : /\ users[p] = made[p] + found[p] + Cardinality(Owned(owner, p))
                         /\ bound[p] = Cardinality(Ptrs(outs, p))
      /\ \A p \in deleted : made[p] = 0 /\ users[p] > 0
      /\ \A g \in Frames : queue[g] # NULL => users[queue[g]] > 0
  BY <1>2, IdleIs
<1>5. /\ \A p \in Objs : users'[p] = users[p] + One(p = o)
      /\ \A p \in Objs : users[p] > 0 => users'[p] > 0
      /\ \A p \in Objs : p # o => users'[p] = users[p]
      /\ \A p \in Objs : made[p] \in Nat /\ found[p] \in Nat
  BY <1>1, <1>2, OneUser
<1>6. deleted \subseteq Objs /\ \A g \in Frames : queue[g] # NULL => queue[g] \in Objs
  BY <1>1 DEF TypeInv, TypeOK, GraphType
<1>7. Given(owner, owner', f, o)
  BY <1>1, <1>2 DEF TypeInv, TypeOK, Given
<1>8. ASSUME NEW p \in Objs
      PROVE  users'[p] = made[p] + found[p] + Cardinality(Owned(owner', p))
  <2>1. Cardinality(Owned(owner', p)) = Cardinality(Owned(owner, p)) - One(owner[f] = p) + One(o = p)
    BY <1>7, SetOwner
  <2>2. Cardinality(Owned(owner, p)) \in Nat /\ NULL # p
    BY OwnedCount, MsiAssumption
  <2> QED BY <1>2, <1>4, <1>5, <2>1, <2>2 DEF One
<1>9. /\ \A p \in deleted : made[p] = 0 /\ users'[p] > 0
      /\ \A g \in Frames : queue[g] # NULL => users'[queue[g]] > 0
  BY <1>4, <1>5, <1>6
<1>10. ThreadInv(t)'
  BY <1>2, <1>4, <1>5, <1>8, <1>9, IdleStep
<1>11. ZeroedInv' /\ NameInv'
  BY <1>1, <1>2, <1>3, <1>5 DEF ZeroedInv, NameInv
<1> QED BY <1>10, <1>11

(* Components join the list, and one may be bound to another. *)
LEMMA BindKeeps ==
  ASSUME NEW t, Threads = {t}, GraphInv, Idle(t), NEW l \in Objs, NEW o \in Objs, Binding(l, o),
         alive \subseteq alive', l \in alive', o \in alive', list' = alive',
         UNCHANGED <<users, inited, deleted, enable, fbVars, stk, refVars>>
  PROVE  ThreadInv(t)' /\ ZeroedInv'
<1> USE DEF fbVars, refVars
<1>1. TypeInv /\ ZeroedInv
  BY Facts
<1>2. /\ inited = made /\ \A p \in enable : made[p] > 0
      /\ \A p \in Objs : /\ users[p] = made[p] + found[p] + Cardinality(Owned(owner, p))
                         /\ bound[p] = Cardinality(Ptrs(outs, p))
                         /\ made[p] \in Nat /\ found[p] \in Nat
      /\ \A p \in deleted : made[p] = 0 /\ users[p] > 0
      /\ \A f \in Frames : queue[f] # NULL => users[queue[f]] > 0
  BY IdleIs, Facts
<1>3. /\ \A p \in Objs : bound'[p] = Cardinality(Ptrs(outs', p))
      /\ \A p \in Objs \ alive' : bound'[p] = bound[p] /\ \A j \in Outs : outs'[p][j] = outs[p][j]
  <2>1. CASE UNCHANGED <<bound, outs>>
    BY <1>2, <2>1
  <2>2. ASSUME NEW i \in Outs, outs[l][i] = NULL, bound' = [bound EXCEPT ![o] = @ + 1],
               outs' = [outs EXCEPT ![l][i] = o]
        PROVE  /\ \A p \in Objs : bound'[p] = Cardinality(Ptrs(outs', p))
               /\ \A p \in Objs \ alive' : bound'[p] = bound[p] /\ \A j \in Outs : outs'[p][j] = outs[p][j]
    <3>1. Written(outs, outs', l, i, o)
      BY <1>1, <2>2 DEF TypeInv, TypeOK, GraphType, Written
    <3>2. \A p \in Objs : bound'[p] = bound[p] + One(o = p) /\ bound[p] \in Nat
      BY <1>1, <2>2 DEF TypeInv, TypeOK, CountType, One
    <3>3. ASSUME NEW p \in Objs PROVE bound'[p] = Cardinality(Ptrs(outs', p))
      <4>1. Cardinality(Ptrs(outs', p)) = Cardinality(Ptrs(outs, p)) - One(outs[l][i] = p) + One(o = p)
        BY <3>1, SetOut
      <4>2. NULL # p
        BY MsiAssumption
      <4> QED BY <1>2, <2>2, <3>2, <4>1, <4>2 DEF One
    <3>4. \A p \in Objs \ alive' : bound'[p] = bound[p] /\ \A j \in Outs : outs'[p][j] = outs[p][j]
      BY <3>1, <3>2 DEF Written, One
    <3> QED BY <3>3, <3>4
  <2> QED BY <2>1, <2>2 DEF Binding
<1>4. ThreadInv(t)'
  BY <1>2, <1>3, IdleStep
<1>5. ZeroedInv'
  BY <1>1, <1>3 DEF ZeroedInv
<1> QED BY <1>4, <1>5

LEMMA AddOutputOfKeeps ==
  ASSUME NEW t, Threads = {t}, GraphInv, NEW l \in Objs, NEW o \in Objs, NEW on \in Names,
         add_output_of(t, l, on, o)
  PROVE  ThreadInv(t)' /\ ZeroedInv' /\ NameInv'
<1>1. TypeInv /\ NameInv
  BY Facts
<1>2. /\ Idle(t) /\ made[l] > 0 /\ msi_new_lock(on, o) /\ Join(o, on) /\ Binding(l, o)
      /\ UNCHANGED <<users, inited, deleted, enable, fbVars, stk, refVars>>
  BY BindIs DEF add_output_of
<1>3. l \in alive
  BY <1>2, Facts
<1>4. list = alive
  BY <1>2, IdleIs
<1>5. NameInv' /\ list' = alive'
  BY <1>1, <1>2, <1>4, Joined
<1>6. alive \subseteq alive' /\ o \in alive'
  BY <1>2 DEF Join
<1> QED BY <1>2, <1>3, <1>5, <1>6, BindKeeps

LEMMA NomemKeeps ==
  ASSUME NEW t, Threads = {t}, GraphInv, NEW n \in Names, NEW o \in Objs, add_output_nomem(t, n, o)
  PROVE  ThreadInv(t)' /\ ZeroedInv' /\ NameInv'
<1>1. TypeInv /\ NameInv
  BY Facts
<1>2. /\ Idle(t) /\ msi_new_lock(n, o) /\ Join(o, n) /\ Binding(o, o)
      /\ UNCHANGED <<users, inited, deleted, enable, fbVars, stk, refVars>>
  BY DEF add_output_nomem, Binding
<1>3. list = alive
  BY <1>2, IdleIs
<1>4. NameInv' /\ list' = alive'
  BY <1>1, <1>2, <1>3, Joined
<1>5. alive \subseteq alive' /\ o \in alive'
  BY <1>2 DEF Join
<1> QED BY <1>2, <1>4, <1>5, BindKeeps

LEMMA AddOutputKeeps ==
  ASSUME NEW t, Threads = {t}, GraphInv, NEW ln \in Names, NEW on \in Names,
         NEW l \in Objs, NEW o \in Objs, msi_add_output(t, ln, l, on, o)
  PROVE  ThreadInv(t)' /\ ZeroedInv' /\ NameInv'
<1>1. TypeInv /\ NameInv
  BY Facts
<1>2. /\ Idle(t) /\ msi_new_lock(ln, l) /\ msi_new_lock(on, o) /\ (ln = on <=> l = o)
      /\ alive' = alive \cup {l, o} /\ list' = list \cup {l, o}
      /\ name' = [name EXCEPT ![l] = ln, ![o] = on] /\ Binding(l, o)
      /\ UNCHANGED <<users, inited, deleted, enable, fbVars, stk, refVars>>
  BY BindIs DEF msi_add_output
<1>3. list = alive
  BY <1>2, IdleIs
<1>4. /\ name'[l] = ln /\ name'[o] = on
      /\ \A p \in Objs : p # l /\ p # o => name'[p] = name[p]
  BY <1>1, <1>2 DEF TypeInv, TypeOK, GraphType
<1>5. ASSUME NEW n \in Names, NEW x \in Objs, msi_new_lock(n, x)
      PROVE  \A p \in list : p # x => p \in Objs /\ name[p] # n
  <2>1. CASE x \in msi_find_lock(n)
    BY <1>1, <2>1 DEF msi_find_lock, NameInv, TypeInv, TypeOK, GraphType
  <2>2. CASE msi_find_lock(n) = {}
    BY <1>1, <2>2 DEF msi_find_lock, TypeInv, TypeOK, GraphType
  <2> QED BY <1>5, <2>1, <2>2 DEF msi_new_lock
<1>6. NameInv'
  <2>1. \A p \in list : p # l => p \in Objs /\ name[p] # ln
    BY <1>2, <1>5
  <2>2. \A p \in list : p # o => p \in Objs /\ name[p] # on
    BY <1>2, <1>5
  <2>3. \A p \in list' : name'[p] \in Names
    BY <1>1, <1>2, <1>4, <2>1, <2>2 DEF NameInv
  <2>4. \A p \in list' : /\ name'[p] = ln => p = l
                         /\ name'[p] = on => p = o
    BY <1>2, <1>4, <2>1, <2>2
  <2>5. \A p, q \in list' : name'[p] = name'[q] => p = q
    <3>1. \A p \in list' : p = l \/ p = o \/ (p \in list /\ name'[p] = name[p])
      BY <1>2, <1>4, <2>1, <2>2
    <3> QED BY <1>1, <1>4, <2>4, <3>1 DEF NameInv
  <2> QED BY <2>3, <2>5 DEF NameInv
<1>7. ThreadInv(t)' /\ ZeroedInv'
  BY <1>2, <1>3, BindKeeps
<1> QED BY <1>6, <1>7

LEMMA GraphStart == Init => GraphInv
<1> SUFFICES ASSUME Init PROVE GraphInv
  OBVIOUS
<1>1. TypeInv
  BY TypesStart
<1>2. ASSUME NEW t \in Threads PROVE ThreadInv(t)
  <2>1. stk[t] = <<>>
    BY DEF Init
  <2>2. Recs(stk[t]) = {} /\ \A D : Num(stk[t], D) = 0
    BY <2>1, NoRecords
  <2>3. \A o \in Objs : Owned(owner, o) = {} /\ Ptrs(outs, o) = {}
    BY MsiAssumption DEF Init, Owned, Ptrs
  <2>4. \A o \in Objs : Cardinality(Owned(owner, o)) = 0 /\ Cardinality(Ptrs(outs, o)) = 0
    BY <2>3, FS_EmptySet
  <2>5. RefsInv(t) /\ BoundInv(t)
    BY <2>2, <2>4 DEF Init, RefsInv, BoundInv
  <2>6. SampleInv(t)
    <3>1. \A b \in Seq(Record), r \in Record : stk[t] # Append(b, r)
      BY <2>1, OneMore
    <3> QED BY <3>1 DEF SampleInv
  <2>7. OwnedInv(t)
    BY <2>2 DEF Init, OwnedInv
  <2>8. LastInv(t) /\ FreeInv(t)
    BY <2>2 DEF Init, LastInv, FreeInv
  <2>9. DeletedInv(t) /\ QueueInv(t)
    BY DEF Init, DeletedInv, QueueInv
  <2> QED BY <2>5, <2>6, <2>7, <2>8, <2>9 DEF ThreadInv
<1>3. ZeroedInv /\ NameInv
  BY DEF Init, ZeroedInv, NameInv
<1> QED BY <1>1, <1>2, <1>3 DEF GraphInv, TypeInv

LEMMA GraphInductive == OneThread /\ GraphInv /\ [Next]_vars => GraphInv'
<1> SUFFICES ASSUME OneThread, GraphInv, [Next]_vars PROVE GraphInv'
  OBVIOUS
<1>1. PICK t : Threads = {t}
  BY DEF OneThread
<1>2. TypeInv /\ t \in Threads
  BY <1>1, Facts
<1>3. TypeInv'
  BY <1>2, TypesStay
<1>4. ThreadInv(t)' /\ ZeroedInv' /\ NameInv' => GraphInv'
  BY <1>1, <1>3 DEF GraphInv, TypeInv
<1>5. CASE Next
  <2>1. CASE Call(t)
    <3>1. ASSUME NEW n \in Names, NEW o \in Objs, msi_new(t, n, o) \/ add_output_nomem(t, n, o)
          PROVE  ThreadInv(t)' /\ ZeroedInv' /\ NameInv'
      BY <1>1, <3>1, NewKeeps, NomemKeeps
    <3>2. ASSUME NEW n \in Names, NEW only \in BOOLEAN, msi_find(t, n, only)
          PROVE  ThreadInv(t)' /\ ZeroedInv' /\ NameInv'
      BY <1>1, <3>2, FindKeeps
    <3>3. ASSUME NEW o \in Objs, msi_put(t, o) \/ msi_destroy(t, o) \/ msi_enable(t, o)
          PROVE  ThreadInv(t)' /\ ZeroedInv' /\ NameInv'
      BY <1>1, <3>3, MsiPutKeeps, DestroyKeeps, EnableKeeps
    <3>4. ASSUME NEW l \in Objs, NEW o \in Objs, NEW on \in Names, add_output_of(t, l, on, o)
          PROVE  ThreadInv(t)' /\ ZeroedInv' /\ NameInv'
      BY <1>1, <3>4, AddOutputOfKeeps
    <3>5. ASSUME NEW ln \in Names, NEW on \in Names, NEW l \in Objs, NEW o \in Objs,
                 msi_add_output(t, ln, l, on, o)
          PROVE  ThreadInv(t)' /\ ZeroedInv' /\ NameInv'
      BY <1>1, <3>5, AddOutputKeeps
    <3>6. CASE \/ \E l \in Objs, on \in Names : del_output_of(t, l, on)
               \/ \E ln, on \in Names : msi_del_output(t, ln, on)
      <4>1. \E S, l, on : \E ls \in SUBSET list :
                /\ \A x, y \in ls : x = y
                /\ Work(S, ls, msi_find_lock(on)) /\ Deleting(t, S, ls, msi_find_lock(on), l)
        BY <1>2, <3>6, DeletingIs
      <4> QED BY <1>1, <1>4, <4>1, DeletingKeeps
    <3> QED BY <1>4, <2>1, <3>1, <3>2, <3>3, <3>4, <3>5, <3>6 DEF Call
  <2>2. CASE FrameCall(t)
    <3>1. ASSUME NEW o \in Objs, NEW f \in Frames, fb_alloc(t, o, f) \/ msi_get_fb(t, o, f)
          PROVE  ThreadInv(t)' /\ ZeroedInv' /\ NameInv'
      BY <1>1, <3>1, AllocKeeps, GetFbKeeps
    <3>2. ASSUME NEW f \in Frames, fb_put(t, f)
          PROVE  ThreadInv(t)' /\ ZeroedInv' /\ NameInv'
      BY <1>1, <3>2, FbPutKeeps
    <3>3. ASSUME NEW o \in Objs, NEW f \in Frames \cup {NULL}, msi_output_fb(t, o, f)
          PROVE  ThreadInv(t)' /\ ZeroedInv' /\ NameInv'
      BY <1>1, <3>3, OutputFbKeeps
    <3> QED BY <1>4, <2>2, <3>1, <3>2, <3>3 DEF FrameCall
  <2>3. CASE Step(t)
    <3>1. ThreadInv(t)' /\ ZeroedInv' /\ NameInv'
      BY <1>1, <2>3, PutReadKeeps, PutDecKeeps, PutPostKeeps, UnbindKeeps, UnbindDecKeeps,
         UnlockKeeps, OutputNextKeeps, EnqueueKeeps, ForwardKeeps, DrainKeeps, OutputDoneKeeps
         DEF Step
    <3> QED BY <1>4, <3>1
  <2> QED BY <1>1, <1>5, <2>1, <2>2, <2>3 DEF Next
<1>6. CASE UNCHANGED vars
  <2> USE DEF vars, objVars, graphVars, fbVars, refVars
  <2>1. ThreadInv(t) /\ ZeroedInv /\ NameInv
    BY <1>1, Facts
  <2>2. ZeroedInv' /\ NameInv'
    BY <1>6, <2>1 DEF ZeroedInv, NameInv
  <2>3. RefsInv(t)' /\ BoundInv(t)' /\ SampleInv(t)' /\ OwnedInv(t)'
    BY <1>6, <2>1 DEF ThreadInv, RefsInv, BoundInv, SampleInv, OwnedInv
  <2>4. LastInv(t)' /\ FreeInv(t)' /\ DeletedInv(t)' /\ QueueInv(t)'
    BY <1>6, <2>1 DEF ThreadInv, LastInv, FreeInv, DeletedInv, QueueInv
  <2> QED BY <1>4, <2>2, <2>3, <2>4 DEF ThreadInv
<1> QED BY <1>5, <1>6

(* With one thread the records are those of its stack. *)
LEMMA Solo ==
  ASSUME NEW t, Threads = {t}, TypeInv, NEW D
  PROVE  Cardinality({e \in Records : InUse(e) \in D}) = Num(stk[t], D)
<1> DEFINE S == {i \in 1 .. Len(stk[t]) : stk[t][i] \in D}
           T == {e \in Records : InUse(e) \in D}
           g == [i \in S |-> <<t, i>>]
<1>1. Len(stk[t]) \in Nat
  BY RecsOK, LenProperties
<1>2. IsFiniteSet(S)
  <2>1. IsFiniteSet(1 .. Len(stk[t]))
    BY <1>1, FS_Interval
  <2> QED BY <2>1, FS_Subset
<1>3. T = {<<t, i>> : i \in S}
  BY DEF Records, InUse
<1>4. g \in Bijection(S, T)
  <2>1. g \in [S -> T]
    BY <1>3
  <2>2. \A i, j \in S : g[i] = g[j] => i = j
    OBVIOUS
  <2>3. \A e \in T : \E i \in S : g[i] = e
    BY <1>3
  <2> QED BY <2>1, <2>2, <2>3 DEF Bijection, Injection, Surjection, IsInjective
<1>5. Cardinality(T) = Cardinality(S)
  BY <1>2, <1>4, FS_Bijection DEF ExistsBijection
<1> QED BY <1>5 DEF Num

LEMMA SoloRecords ==
  ASSUME NEW t, Threads = {t}
  PROVE  \A e \in Records : InUse(e) \in Recs(stk[t])
BY DEF Records, InUse, Recs

(* msi->users is exact at every step of every call, whatever the callbacks *)
(* of msi_put and msi_destroy and the drained queues put on the way.       *)
THEOREM GraphRefsExact ==
  ASSUME OneThread
  PROVE  Spec => []RefsExact
<1>1. Init => GraphInv
  BY GraphStart
<1>2. GraphInv /\ [Next]_vars => GraphInv'
  BY GraphInductive
<1>3. GraphInv => RefsExact
  <2> SUFFICES ASSUME GraphInv, NEW o \in Objs
               PROVE  users[o] = made[o] + found[o] + Cardinality({f \in Frames : owner[f] = o})
                          + Cardinality({e \in Records : InUse(e).op \in RefOps /\ InUse(e).obj = o})
    BY DEF RefsExact
  <2>1. PICK t : Threads = {t}
    BY DEF OneThread
  <2>2. t \in Threads /\ TypeInv /\ ThreadInv(t)
    BY <2>1, Facts
  <2>3. \A e \in Records : InUse(e) \in Record
    BY <2>1, <2>2, SoloRecords, RecsOK
  <2>4. {e \in Records : InUse(e).op \in RefOps /\ InUse(e).obj = o} = {e \in Records : InUse(e) \in Ref(o)}
    BY <2>3 DEF Ref
  <2>5. Cardinality({e \in Records : InUse(e) \in Ref(o)}) = Num(stk[t], Ref(o))
    BY <2>1, <2>2, Solo
  <2>6. users[o] = made[o] + found[o] + Cardinality(Owned(owner, o)) + Num(stk[t], Ref(o))
    BY <2>2 DEF ThreadInv, RefsInv
  <2> QED BY <2>4, <2>5, <2>6 DEF Owned
<1> QED BY <1>1, <1>2, <1>3, PTL DEF Spec

(* msi->bound is exact at every step of every call, msi_free's recursion   *)
(* along the outputs included.                                             *)
THEOREM GraphBoundExact ==
  ASSUME OneThread
  PROVE  Spec => []BoundExact
<1>1. Init => GraphInv
  BY GraphStart
<1>2. GraphInv /\ [Next]_vars => GraphInv'
  BY GraphInductive
<1>3. GraphInv => BoundExact
  <2> SUFFICES ASSUME GraphInv, NEW o \in Objs
               PROVE  bound[o] = Cardinality({e \in alive \X Outs : outs[e[1]][e[2]] = o})
                          + Cardinality({e \in Records : InUse(e).op = "unref" /\ InUse(e).obj = o})
    BY DEF BoundExact
  <2>1. PICK t : Threads = {t}
    BY DEF OneThread
  <2>2. t \in Threads /\ TypeInv /\ ThreadInv(t) /\ ZeroedInv /\ alive \subseteq Objs
    BY <2>1, Facts DEF TypeInv, TypeOK, GraphType
  <2>3. \A p \in Objs \ alive, i \in Outs : outs[p][i] # o
    BY <2>2, MsiAssumption DEF ZeroedInv
  <2>4. {e \in alive \X Outs : outs[e[1]][e[2]] = o} = Ptrs(outs, o)
    BY <2>2, <2>3 DEF Ptrs
  <2>5. \A e \in Records : InUse(e) \in Record
    BY <2>1, <2>2, SoloRecords, RecsOK
  <2>6. {e \in Records : InUse(e).op = "unref" /\ InUse(e).obj = o} = {e \in Records : InUse(e) \in Unref(o)}
    BY <2>5 DEF Unref
  <2>7. Cardinality({e \in Records : InUse(e) \in Unref(o)}) = Num(stk[t], Unref(o))
    BY <2>1, <2>2, Solo
  <2>8. bound[o] = Cardinality(Ptrs(outs, o)) + Num(stk[t], Unref(o))
    BY <2>2 DEF ThreadInv, BoundInv
  <2> QED BY <2>4, <2>6, <2>7, <2>8
<1> QED BY <1>1, <1>2, <1>3, PTL DEF Spec

(* No pointer outlives its component while calls nest: callers, frames,    *)
(* output lists, g_MSI.list and all calls under way but one kind have only *)
(* components that are alive, so nothing is freed twice.  The kind left    *)
(* out is an msi_put that is going to leave a placeholder: the run that    *)
(* checks FreedIsUnused shows it left with freed memory.  With a second    *)
(* thread the rest fails too: msi_put does not take the lock.              *)
THEOREM NothingDangles ==
  ASSUME OneThread
  PROVE  Spec => []NoDangling
<1>1. Init => GraphInv
  BY GraphStart
<1>2. GraphInv /\ [Next]_vars => GraphInv'
  BY GraphInductive
<1>3. GraphInv => NoDangling
  <2> SUFFICES ASSUME GraphInv PROVE NoDangling
    OBVIOUS
  <2>1. PICK t : Threads = {t}
    BY DEF OneThread
  <2>2. /\ t \in Threads /\ TypeInv /\ ThreadInv(t)
        /\ \A o \in Objs :
              /\ made[o] \in Nat /\ found[o] \in Nat
              /\ made[o] > 0 \/ found[o] > 0 \/ Num(stk[t], Ref(o)) > 0 => users[o] > 0
              /\ users[o] > 0 \/ bound[o] > 0 => o \in list /\ o \in alive
              /\ Num(stk[t], Unref(o)) > 0 => bound[o] > 0
        /\ \A p \in Objs, i \in Outs : outs[p][i] # NULL =>
                outs[p][i] \in Objs /\ bound[outs[p][i]] > 0
        /\ \A f \in Frames : owner[f] # NULL => owner[f] \in Objs /\ users[owner[f]] > 0
    BY <2>1, Facts
  <2>3. list \subseteq alive /\ alive \subseteq Objs
    BY <2>2 DEF ThreadInv, FreeInv, TypeInv, TypeOK, GraphType
  <2>4. \A o \in alive, i \in Outs : outs[o][i] \in alive \cup {NULL}
    BY <2>2, <2>3
  <2>5. \A o \in Objs : made[o] + found[o] > 0 => o \in alive
    BY <2>2
  <2>6. \A f \in Frames : owner[f] \in alive \cup {NULL}
    BY <2>2
  <2>7. ASSUME NEW r \in Recs(stk[t]), r.op # "unlock", ~(r.op \in LastOps /\ r.n > 0)
        PROVE  r.obj \in alive
    <3>1. r \in Record /\ r.obj \in Objs /\ r.n \in Nat
      BY <2>2, <2>7, RecsOK DEF RecordOK, Record
    <3>2. \A D : r \in D => Num(stk[t], D) > 0
      BY <2>2, NumIs, RecsOK
    <3>3. CASE r.op \in RefOps
      BY <2>2, <3>1, <3>2, <3>3, Classes
    <3>4. CASE r.op = "unref"
      BY <2>2, <3>1, <3>2, <3>4, Classes
    <3>5. CASE r.op = "free"
      <4>1. Num(stk[t], Free(r.obj)) > 0
        BY <3>1, <3>2, <3>5, Classes
      <4> QED BY <2>2, <3>1, <4>1 DEF ThreadInv, FreeInv
    <3>6. CASE r.op \in LastOps
      <4>1. Num(stk[t], Last0(r.obj)) > 0
        BY <2>7, <3>1, <3>2, <3>6, Classes
      <4> QED BY <2>2, <2>3, <3>1, <4>1 DEF ThreadInv, LastInv
    <3>7. CASE r.op = "walk"
      BY <2>2, <3>1, <3>7 DEF ThreadInv, OwnedInv
    <3> QED BY <2>7, <3>1, <3>3, <3>4, <3>5, <3>6, <3>7 DEF Record
  <2>8. \A e \in Records : InUse(e) \in Recs(stk[t])
    BY <2>1, SoloRecords
  <2> QED BY <2>3, <2>4, <2>5, <2>6, <2>7, <2>8 DEF NoDangling
<1> QED BY <1>1, <1>2, <1>3, PTL DEF Spec

(* Between calls the graph is in order: a name stands for one component,   *)
(* all are listed, one without users can be created again, and no frame    *)
(* lies in a queue that nobody serves.                                     *)
THEOREM GraphSettles ==
  ASSUME OneThread
  PROVE  Spec => []Settled
<1>1. Init => GraphInv
  BY GraphStart
<1>2. GraphInv /\ [Next]_vars => GraphInv'
  BY GraphInductive
<1>3. GraphInv => Settled
  <2> SUFFICES ASSUME GraphInv, \A t \in Threads : Idle(t)
               PROVE  /\ alive = list
                      /\ \A o, p \in list : name[o] = name[p] => o = p
                      /\ \A o \in list : users[o] = 0 => o \notin deleted \cup enable
                      /\ \A f \in Frames : queue[f] # NULL => users[queue[f]] > 0
    BY DEF Settled
  <2>1. PICK t : Threads = {t}
    BY DEF OneThread
  <2>2. /\ list = alive /\ \A o \in enable : made[o] > 0
        /\ \A o \in deleted : users[o] > 0
        /\ \A f \in Frames : queue[f] # NULL => users[queue[f]] > 0
    BY <2>1, IdleIs
  <2>3. NameInv /\ enable \subseteq Objs /\ \A o \in Objs : made[o] > 0 => users[o] > 0
    BY <2>1, Facts DEF TypeInv, TypeOK, GraphType
  <2> QED BY <2>2, <2>3 DEF NameInv
<1> QED BY <1>1, <1>2, <1>3, PTL DEF Spec

(* An owned component loses an output only to a msi_del_output: msi_free   *)
(* unbinds the outputs of components that nobody owns.                     *)
THEOREM OutputsKept ==
  ASSUME OneThread
  PROVE  Spec => OutputsStay
<1> DEFINE Kept == \A o \in Objs : made[o] > 0 /\ made'[o] > 0 =>
              \A i \in Outs : \/ outs[o][i] \in {NULL, outs'[o][i]}
                              \/ \E t \in Threads : Idle(t) /\ stk'[t] # <<>> /\ stk'[t][1].op = "unlock"
<1>1. Init => GraphInv
  BY GraphStart
<1>2. GraphInv /\ [Next]_vars => GraphInv'
  BY GraphInductive
<1>3. GraphInv /\ [Next]_vars => [Kept]_vars
  <2> SUFFICES ASSUME GraphInv, Next PROVE Kept
    OBVIOUS
  <2>1. PICK t : Threads = {t}
    BY DEF OneThread
  <2>2. /\ t \in Threads /\ TypeInv /\ ThreadInv(t)
        /\ \A o \in Objs : made[o] > 0 => users[o] > 0
    BY <2>1, Facts
  <2>3. outs \in [Objs -> [Outs -> Objs \cup {NULL}]] /\ stk \in [Threads -> Seq(Record)]
    BY <2>2 DEF TypeInv, TypeOK, GraphType
  <2>4. UNCHANGED outs => Kept
    OBVIOUS
  <2>5. ASSUME NEW l \in Objs, NEW p \in Objs, Binding(l, p) PROVE Kept
    BY <2>3, <2>4, <2>5 DEF Binding
  <2>6. CASE Call(t)
    <3> USE DEF objVars, graphVars
    <3>1. ASSUME NEW n \in Names, NEW p \in Objs, msi_new(t, n, p) \/ add_output_nomem(t, n, p)
          PROVE  Kept
      BY <2>4, <3>1 DEF msi_new, add_output_nomem
    <3>2. ASSUME NEW n \in Names, NEW only \in BOOLEAN, msi_find(t, n, only) PROVE Kept
      BY <2>4, <3>2 DEF msi_find
    <3>3. ASSUME NEW p \in Objs, msi_put(t, p) \/ msi_destroy(t, p) \/ msi_enable(t, p)
          PROVE  Kept
      BY <2>4, <3>3 DEF msi_put, msi_destroy, msi_enable
    <3>4. ASSUME NEW l \in Objs, NEW p \in Objs, NEW on \in Names, add_output_of(t, l, on, p)
          PROVE  Kept
      BY <2>5, <3>4, BindIs DEF add_output_of
    <3>5. ASSUME NEW ln \in Names, NEW on \in Names, NEW l \in Objs, NEW p \in Objs,
                 msi_add_output(t, ln, l, on, p)
          PROVE  Kept
      BY <2>5, <3>5, BindIs DEF msi_add_output
    <3>6. CASE \/ \E l \in Objs, on \in Names : del_output_of(t, l, on)
               \/ \E ln, on \in Names : msi_del_output(t, ln, on)
      <4>1. PICK S, l, on : \E ls \in SUBSET list :
                Work(S, ls, msi_find_lock(on)) /\ Deleting(t, S, ls, msi_find_lock(on), l)
        BY <2>2, <3>6, DeletingIs
      <4>2. /\ Idle(t) /\ S \in Seq(Record) /\ S # <<>> /\ S[1].op = "unlock"
            /\ \/ stk' = [stk EXCEPT ![t] = S]
               \/ \E r \in Record : stk' = [stk EXCEPT ![t] = Append(S, r)]
        BY <4>1 DEF Work, Deleting
      <4>3. \A r \in Record : Append(S, r) # <<>> /\ Append(S, r)[1] = S[1]
        BY <4>2
      <4>4. stk'[t] # <<>> /\ stk'[t][1].op = "unlock"
        BY <2>2, <2>3, <4>2, <4>3
      <4> QED BY <2>2, <4>2, <4>4
    <3> QED BY <2>6, <3>1, <3>2, <3>3, <3>4, <3>5, <3>6 DEF Call
  <2>7. CASE FrameCall(t)
    BY <2>4, <2>7 DEF FrameCall, fb_alloc, msi_get_fb, fb_put, msi_output_fb, objVars, graphVars
  <2>8. CASE \/ put_read(t) \/ put_dec(t) \/ put_post(t) \/ unbind_dec(t)
             \/ unlock(t) \/ output_next(t) \/ fbq_enqueue(t) \/ trans_forward(t)
             \/ \E f \in Frames : put_drain(t, f)
             \/ \E last \in BOOLEAN : output_done(t, last)
    BY <2>4, <2>8 DEF put_read, put_dec, put_post, unbind_dec, unlock, output_next, fbq_enqueue,
       trans_forward, put_drain, output_done, objVars, graphVars
  <2>9. CASE msi_unbind(t)
    <3>1. At(t, {"free"}) /\ Top(t).obj \in Objs
      BY <2>2, <2>9, UnbindIs
    <3>2. CASE Freed(t, Top(t).obj)
      BY <2>4, <3>2 DEF Freed
    <3>3. ASSUME NEW i \in Outs, Cut(t, Top(t).obj, i) PROVE Kept
      <4>1. Top(t) \in Recs(stk[t]) /\ Top(t) \in Free(Top(t).obj)
        BY <2>2, <3>1, TopOK, Classes
      <4>2. Num(stk[t], Free(Top(t).obj)) > 0
        BY <2>2, <4>1, NumIs, RecsOK
      <4>3. users[Top(t).obj] = 0
        BY <2>2, <3>1, <4>2 DEF ThreadInv, FreeInv
      <4>4. ~ (made[Top(t).obj] > 0)
        BY <2>2, <3>1, <4>3
      <4>5. \A o \in Objs : o # Top(t).obj => outs'[o] = outs[o]
        BY <2>3, <3>1, <3>3 DEF Cut
      <4> QED BY <4>4, <4>5
    <3> QED BY <2>2, <2>9, <3>2, <3>3, UnbindIs
  <2> QED BY <2>1, <2>6, <2>7, <2>8, <2>9 DEF Next, Step
<1> QED BY <1>1, <1>2, <1>3, PTL DEF Spec, OutputsStay
=============================================================================
