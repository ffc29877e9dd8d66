------------------------------ MODULE FrameBuff ------------------------------
(***************************************************************************)
(* Reference counting of framebuffers: framebuff.c and fbpool.c of the MSI *)
(* media core, with the part of msi_put / msi_destroy that decides when    *)
(* the component owning a frame (and with it the frame pool) goes away.    *)
(*                                                                         *)
(* A handle is one reference to the head of a framebuff chain: a local     *)
(* pointer of a component thread, a slot of a receive queue, a pointer     *)
(* kept by a codec.  Every handle runs its operations independently of the *)
(* others, so all interleavings of the threads that share a frame are      *)
(* covered.  fb_get and fb_put recurse to the tail of the chain and count  *)
(* on the way back; `stk` is that recursion's stack and every atomic_inc / *)
(* atomic_dec_and_test is a step of its own.                               *)
(***************************************************************************)
EXTENDS Naturals, Sequences, FiniteSets

CONSTANTS Handles,    \* references that code may hold
          HeapFbs,    \* frames from FB_ALLOC
          PoolFbs,    \* preallocated frames of one fbpool
          Msis,       \* components that own frames
          PoolMsi,    \* the component that owns the pool
          UsersMod,   \* fb->users is a uint8: 256 in the code
          NULL

Fbs == HeapFbs \cup PoolFbs

(* A frame never has as many references as its counter has values. *)
ASSUME FbAssumption ==
    /\ IsFiniteSet(Handles) /\ IsFiniteSet(Fbs)
    /\ HeapFbs \cap PoolFbs = {}
    /\ NULL \notin Fbs \cup Msis \cup Handles
    /\ PoolMsi \in Msis
    /\ UsersMod \in Nat /\ Cardinality(Handles) < UsersMod

VARIABLES
    \* struct framebuff
    users,    \* users[f]: the atomic8_t counter
    next,     \* next[f]: the following node of the chain
    live,     \* heap frames allocated and pool slots with used = 1
    fmsi,     \* fmsi[f]: fb->msi
    \* struct msi, as far as frames depend on it
    musers,   \* musers[m]: msi->users
    inited,   \* inited[m]: msi->inited, 1 until the creator destroys it
    torn,     \* components whose POST_DESTROY ran (frees the pool of PoolMsi)
    mpc,      \* where the thread in msi_destroy(m) is
    \* the operation each handle is in, and its locals
    ref, pc, cur, stk, src, lmsi, linited,
    \* history variables
    owed,     \* owed[h]: frames on which handle h accounts for one count
    depth     \* depth[f]: length of the chain that starts at f

fbVars  == <<users, next, live, fmsi, depth>>
msiVars == <<musers, inited, torn, mpc>>
opVars  == <<ref, pc, cur, stk, src, lmsi, linited, owed>>
vars    == <<fbVars, msiVars, opVars>>

PcGet  == {"getwalk", "getinc"}
PcFree == {"freecb", "msiput", "msidec", "postdestroy", "fbfree"}
PcPut  == {"putwalk", "putfree"} \cup PcFree
Pcs    == {"none", "idle"} \cup PcGet \cup PcPut

FbTypeOK ==
    /\ users \in [Fbs -> 0 .. UsersMod - 1]
    /\ next \in [Fbs -> Fbs \cup {NULL}]
    /\ live \in SUBSET Fbs
    /\ fmsi \in [Fbs -> Msis \cup {NULL}]
    /\ depth \in [Fbs -> Nat]

MsiTypeOK ==
    /\ musers \in [Msis -> Nat]
    /\ inited \in [Msis -> {0, 1}]
    /\ torn \in SUBSET Msis
    /\ mpc \in [Msis -> {"up", "dec", "postdestroy", "down"}]

OpTypeOK ==
    /\ ref \in [Handles -> Fbs \cup {NULL}]
    /\ pc \in [Handles -> Pcs]
    /\ cur \in [Handles -> Fbs \cup {NULL}]
    /\ stk \in [Handles -> Seq(Fbs)]
    /\ src \in [Handles -> Handles \cup {NULL}]
    /\ lmsi \in [Handles -> Msis \cup {NULL}]
    /\ linited \in [Handles -> {0, 1}]
    /\ owed \in [Handles -> SUBSET Fbs]

TypeOK == FbTypeOK /\ MsiTypeOK /\ OpTypeOK

Init ==
    /\ users = [f \in Fbs |-> 0]
    /\ next = [f \in Fbs |-> NULL]
    /\ live = {}
    /\ fmsi = [f \in Fbs |-> NULL]
    /\ depth = [f \in Fbs |-> 0]
    /\ musers = [m \in Msis |-> 1]          \* the creator's msi_new
    /\ inited = [m \in Msis |-> 1]
    /\ torn = {}
    /\ mpc = [m \in Msis |-> "up"]
    /\ ref = [h \in Handles |-> NULL]
    /\ pc = [h \in Handles |-> "none"]
    /\ cur = [h \in Handles |-> NULL]
    /\ stk = [h \in Handles |-> <<>>]
    /\ src = [h \in Handles |-> NULL]
    /\ lmsi = [h \in Handles |-> NULL]
    /\ linited = [h \in Handles |-> 0]
    /\ owed = [h \in Handles |-> {}]

(***************************************************************************)
(* Atomics, stack and helpers.                                             *)
(***************************************************************************)
(* Mutant: a counter with one value fewer than references. *)
atomic_inc_narrow(f) == [users EXCEPT ![f] = (@ + 1) % (UsersMod - 1)]

atomic_inc(f) == [users EXCEPT ![f] = (@ + 1) % UsersMod]

(* The counter saturates at 0, and "reached 0" is true if it was 0. *)
Dec(n) == IF n > 0 THEN n - 1 ELSE 0

Top(s) == s[Len(s)]
Pop(s) == SubSeq(s, 1, Len(s) - 1)

(* A reference no running operation uses: its owner may start one.  The    *)
(* thread that copies a reference keeps its own until the copy is made.    *)
Free(h) == pc[h] = "idle" /\ \A g \in Handles : src[g] # h

(* fb_clone and fb_ref hang the chain they take behind their own node. *)
Linking(h) == ref[h] # ref[src[h]]

(* Mutant: the frame takes no reference to its component. *)
NewFrame_unowned(h, f, m) ==
    /\ live' = live \cup {f}
    /\ next' = [next EXCEPT ![f] = NULL]
    /\ fmsi' = [fmsi EXCEPT ![f] = m]
    /\ depth' = [depth EXCEPT ![f] = 1]
    /\ ref' = [ref EXCEPT ![h] = f]
    /\ owed' = [owed EXCEPT ![h] = {f}]
    /\ UNCHANGED <<musers, inited, torn, mpc, stk, lmsi, linited>>

(* Frame f starts its life with one user, owned by component m. *)
NewFrame(h, f, m) ==
    /\ live' = live \cup {f}
    /\ next' = [next EXCEPT ![f] = NULL]
    /\ fmsi' = [fmsi EXCEPT ![f] = m]
    /\ depth' = [depth EXCEPT ![f] = 1]
    /\ musers' = [musers EXCEPT ![m] = @ + 1]     \* msi_get(fb->msi)
    /\ ref' = [ref EXCEPT ![h] = f]
    /\ owed' = [owed EXCEPT ![h] = {f}]
    /\ UNCHANGED <<inited, torn, mpc, stk, lmsi, linited>>

(***************************************************************************)
(* fb_alloc, fbpool_get, fb_clone: new frames.  The caller is the owning   *)
(* component, so its creator has not destroyed it.                         *)
(***************************************************************************)
fb_alloc(h, f, m) ==
    /\ pc[h] = "none" /\ f \in HeapFbs \ live /\ inited[m] = 1
    /\ users' = [users EXCEPT ![f] = 1]
    /\ NewFrame(h, f, m)
    /\ pc' = [pc EXCEPT ![h] = "idle"]
    /\ UNCHANGED <<cur, src>>

(* Any free slot: the code takes the one with the lowest index. *)
fbpool_get(h, f) ==
    /\ pc[h] = "none" /\ f \in PoolFbs \ live
    /\ inited[PoolMsi] = 1 /\ PoolMsi \notin torn
    /\ users' = atomic_inc(f)
    /\ NewFrame(h, f, PoolMsi)
    /\ pc' = [pc EXCEPT ![h] = "idle"]
    /\ UNCHANGED <<cur, src>>

fb_clone(h, g, f, m) ==
    /\ pc[h] = "none" /\ Free(g) /\ f \in HeapFbs \ live /\ inited[m] = 1
    /\ users' = [users EXCEPT ![f] = 1]
    /\ NewFrame(h, f, m)
    /\ pc' = [pc EXCEPT ![h] = "getwalk"]
    /\ cur' = [cur EXCEPT ![h] = ref[g]]
    /\ src' = [src EXCEPT ![h] = g]

(***************************************************************************)
(* fb_get, and the fb_get inside fb_clone and fb_ref.                      *)
(***************************************************************************)
StartGet(h, g) ==
    /\ pc' = [pc EXCEPT ![h] = "getwalk"]
    /\ cur' = [cur EXCEPT ![h] = ref[g]]
    /\ src' = [src EXCEPT ![h] = g]
    /\ UNCHANGED <<fbVars, msiVars, stk, lmsi, linited, owed>>

fb_get(h, g) ==
    /\ pc[h] = "none" /\ Free(g)
    /\ ref' = [ref EXCEPT ![h] = ref[g]]
    /\ StartGet(h, g)

(* Mutant: fb_ref links without fb_get(fb_old). *)
fb_ref_uncounted(h, g) ==
    /\ h # g /\ Free(h) /\ Free(g)
    /\ next[ref[h]] = NULL /\ users[ref[h]] = 1
    /\ next' = [next EXCEPT ![ref[h]] = ref[g]]
    /\ UNCHANGED <<users, live, fmsi, depth, msiVars, opVars>>

(* fb_new is fresh from fb_alloc: nobody else refers to it yet. *)
fb_ref(h, g) ==
    /\ h # g /\ Free(h) /\ Free(g)
    /\ next[ref[h]] = NULL /\ users[ref[h]] = 1
    /\ StartGet(h, g)
    /\ UNCHANGED ref

(* Enter the recursive call on cur, or return from the one on NULL. *)
Walk(h, then) ==
    /\ IF cur[h] # NULL
       THEN /\ stk' = [stk EXCEPT ![h] = Append(@, cur[h])]
            /\ cur' = [cur EXCEPT ![h] = next[cur[h]]]
            /\ UNCHANGED pc
       ELSE /\ pc' = [pc EXCEPT ![h] = then]
            /\ UNCHANGED <<stk, cur>>
    /\ UNCHANGED <<fbVars, msiVars, ref, src, lmsi, linited, owed>>

(* Mutant: fb_get counts the head of the chain only. *)
fb_get_head(h) ==
    /\ pc[h] = "getwalk"
    /\ stk' = [stk EXCEPT ![h] = <<cur[h]>>]
    /\ cur' = [cur EXCEPT ![h] = NULL]
    /\ pc' = [pc EXCEPT ![h] = "getinc"]
    /\ UNCHANGED <<fbVars, msiVars, ref, src, lmsi, linited, owed>>

fb_get_walk(h) == pc[h] = "getwalk" /\ Walk(h, "getinc")

fb_get_inc(h) ==
    /\ pc[h] = "getinc" /\ stk[h] # <<>>
    /\ users' = atomic_inc(Top(stk[h]))
    /\ owed' = [owed EXCEPT ![h] = @ \cup {Top(stk[h])}]
    /\ stk' = [stk EXCEPT ![h] = Pop(@)]
    /\ UNCHANGED <<next, live, fmsi, depth, msiVars, ref, pc, cur, src, lmsi, linited>>

(* The outermost call returned; fb_clone and fb_ref now set fb->next. *)
fb_get_done(h) ==
    /\ pc[h] = "getinc" /\ stk[h] = <<>>
    /\ IF Linking(h)
       THEN /\ next' = [next EXCEPT ![ref[h]] = ref[src[h]]]
            /\ depth' = [depth EXCEPT ![ref[h]] = depth[ref[src[h]]] + 1]
       ELSE UNCHANGED <<next, depth>>
    /\ pc' = [pc EXCEPT ![h] = "idle"]
    /\ src' = [src EXCEPT ![h] = NULL]
    /\ UNCHANGED <<users, live, fmsi, msiVars, ref, cur, stk, lmsi, linited, owed>>

(***************************************************************************)
(* fb_put and fb_free.                                                     *)
(***************************************************************************)
fb_put(h) ==
    /\ Free(h)
    /\ pc' = [pc EXCEPT ![h] = "putwalk"]
    /\ cur' = [cur EXCEPT ![h] = ref[h]]
    /\ UNCHANGED <<fbVars, msiVars, ref, stk, src, lmsi, linited, owed>>

fb_put_walk(h) == pc[h] = "putwalk" /\ Walk(h, "putfree")

(* Mutant: fb_free waits for the other references instead of returning. *)
fb_free_wait(h) ==
    /\ pc[h] = "putfree" /\ stk[h] # <<>>
    /\ LET f == Top(stk[h]) IN
       /\ Dec(users[f]) = 0
       /\ users' = [users EXCEPT ![f] = Dec(@)]
       /\ owed' = [owed EXCEPT ![h] = @ \ {f}]
       /\ stk' = [stk EXCEPT ![h] = Pop(@)]
       /\ cur' = [cur EXCEPT ![h] = f]
       /\ lmsi' = [lmsi EXCEPT ![h] = fmsi[f]]
       /\ pc' = [pc EXCEPT ![h] = "freecb"]
    /\ UNCHANGED <<next, live, fmsi, depth, msiVars, ref, src, linited>>

(* fb_free up to its early return: whoever takes the last count frees. *)
fb_free(h) ==
    /\ pc[h] = "putfree" /\ stk[h] # <<>>
    /\ LET f == Top(stk[h]) IN
       /\ users' = [users EXCEPT ![f] = Dec(@)]
       /\ owed' = [owed EXCEPT ![h] = @ \ {f}]
       /\ stk' = [stk EXCEPT ![h] = Pop(@)]
       /\ IF Dec(users[f]) = 0
          THEN /\ cur' = [cur EXCEPT ![h] = f]
               /\ lmsi' = [lmsi EXCEPT ![h] = fmsi[f]]
               /\ pc' = [pc EXCEPT ![h] = "freecb"]
          ELSE UNCHANGED <<cur, lmsi, pc>>
    /\ UNCHANGED <<next, live, fmsi, depth, msiVars, ref, src, linited>>

(* Mutant: fbpool_put leaves used = 1. *)
fbpool_put_used(f) ==
    /\ users' = [users EXCEPT ![f] = 0]
    /\ next' = [next EXCEPT ![f] = NULL]
    /\ fmsi' = [fmsi EXCEPT ![f] = NULL]
    /\ UNCHANGED live

(* fbpool_put, one irq-protected section; it refuses a destroyed pool. *)
fbpool_put(f) ==
    IF PoolMsi \in torn
    THEN UNCHANGED <<users, next, live, fmsi>>
    ELSE /\ live' = live \ {f}
         /\ users' = [users EXCEPT ![f] = 0]
         /\ next' = [next EXCEPT ![f] = NULL]
         /\ fmsi' = [fmsi EXCEPT ![f] = NULL]

(* MSI_CMD_FREE_FB: the pool owner takes its frame back. *)
free_fb(h) ==
    /\ pc[h] = "freecb"
    /\ IF cur[h] \in PoolFbs THEN fbpool_put(cur[h])
                             ELSE UNCHANGED <<users, next, live, fmsi>>
    /\ pc' = [pc EXCEPT ![h] = "msiput"]
    /\ UNCHANGED <<depth, msiVars, ref, cur, stk, src, lmsi, linited, owed>>

(* msi_put(msi): the counters are read first, users is decremented later. *)
msi_put_read(h) ==
    /\ pc[h] = "msiput"
    /\ linited' = [linited EXCEPT ![h] = inited[lmsi[h]]]
    /\ pc' = [pc EXCEPT ![h] = "msidec"]
    /\ UNCHANGED <<fbVars, msiVars, ref, cur, stk, src, lmsi, owed>>

msi_put_dec(h) ==
    /\ pc[h] = "msidec"
    /\ musers' = [musers EXCEPT ![lmsi[h]] = Dec(@)]
    /\ pc' = [pc EXCEPT ![h] =
                IF Dec(musers[lmsi[h]]) = 0 /\ linited[h] = 0
                THEN "postdestroy" ELSE "fbfree"]
    /\ UNCHANGED <<fbVars, inited, torn, mpc, ref, cur, stk, src, lmsi, linited, owed>>

(* MSI_CMD_POST_DESTROY: fbpool_destroy and the rest of the component. *)
msi_put_destroy(h) ==
    /\ pc[h] = "postdestroy"
    /\ torn' = torn \cup {lmsi[h]}
    /\ pc' = [pc EXCEPT ![h] = "fbfree"]
    /\ UNCHANGED <<fbVars, musers, inited, mpc, ref, cur, stk, src, lmsi, linited, owed>>

(* FB_FREE(fb), skipped for a frame its component manages itself. *)
fb_free_mem(h) ==
    /\ pc[h] = "fbfree"
    /\ live' = IF cur[h] \in PoolFbs THEN live ELSE live \ {cur[h]}
    /\ cur' = [cur EXCEPT ![h] = NULL]
    /\ lmsi' = [lmsi EXCEPT ![h] = NULL]
    /\ linited' = [linited EXCEPT ![h] = 0]
    /\ pc' = [pc EXCEPT ![h] = "putfree"]
    /\ UNCHANGED <<users, next, fmsi, depth, msiVars, ref, stk, src, owed>>

fb_put_done(h) ==
    /\ pc[h] = "putfree" /\ stk[h] = <<>>
    /\ pc' = [pc EXCEPT ![h] = "none"]
    /\ ref' = [ref EXCEPT ![h] = NULL]
    /\ UNCHANGED <<fbVars, msiVars, cur, stk, src, lmsi, linited, owed>>

(***************************************************************************)
(* msi_destroy by the creator: inited goes first, so its own msi_put can   *)
(* only read inited = 0.                                                   *)
(***************************************************************************)
(* Mutant: a second msi_destroy counts inited down again. *)
msi_destroy_twice(m) ==
    /\ mpc[m] \in {"up", "down"}
    /\ inited' = [inited EXCEPT ![m] = @ - 1]
    /\ mpc' = [mpc EXCEPT ![m] = "dec"]
    /\ UNCHANGED <<fbVars, musers, torn, opVars>>

msi_destroy(m) ==
    /\ mpc[m] = "up"
    /\ inited' = [inited EXCEPT ![m] = 0]
    /\ mpc' = [mpc EXCEPT ![m] = "dec"]
    /\ UNCHANGED <<fbVars, musers, torn, opVars>>

(* Mutant: msi_destroy does not wait for the frames in circulation. *)
msi_destroy_now(m) ==
    /\ mpc[m] = "dec"
    /\ musers' = [musers EXCEPT ![m] = Dec(@)]
    /\ mpc' = [mpc EXCEPT ![m] = "postdestroy"]
    /\ UNCHANGED <<fbVars, inited, torn, opVars>>

msi_destroy_dec(m) ==
    /\ mpc[m] = "dec"
    /\ musers' = [musers EXCEPT ![m] = Dec(@)]
    /\ mpc' = [mpc EXCEPT ![m] = IF Dec(musers[m]) = 0 THEN "postdestroy" ELSE "down"]
    /\ UNCHANGED <<fbVars, inited, torn, opVars>>

msi_destroy_post(m) ==
    /\ mpc[m] = "postdestroy"
    /\ torn' = torn \cup {m}
    /\ mpc' = [mpc EXCEPT ![m] = "down"]
    /\ UNCHANGED <<fbVars, musers, inited, opVars>>

(***************************************************************************)
(* The specification.  An operation a thread has begun runs on; nothing    *)
(* obliges a thread to begin one.                                          *)
(***************************************************************************)
Begin(h) ==
    \/ \E f \in HeapFbs, m \in Msis : fb_alloc(h, f, m)
    \/ \E f \in PoolFbs : fbpool_get(h, f)
    \/ \E g \in Handles, f \in HeapFbs, m \in Msis : fb_clone(h, g, f, m)
    \/ \E g \in Handles : fb_get(h, g)
    \/ \E g \in Handles : fb_ref(h, g)
    \/ fb_put(h)

Continue(h) ==
    \/ fb_get_walk(h) \/ fb_get_inc(h) \/ fb_get_done(h)
    \/ fb_put_walk(h) \/ fb_free(h) \/ free_fb(h)
    \/ msi_put_read(h) \/ msi_put_dec(h) \/ msi_put_destroy(h)
    \/ fb_free_mem(h) \/ fb_put_done(h)

Destroy(m) == msi_destroy(m) \/ msi_destroy_dec(m) \/ msi_destroy_post(m)

Next ==
    \/ \E h \in Handles : Begin(h) \/ Continue(h)
    \/ \E m \in Msis : Destroy(m)

Fairness == \A h \in Handles : WF_vars(Continue(h))

Spec == Init /\ [][Next]_vars
FairSpec == Spec /\ Fairness

-----------------------------------------------------------------------------
(***************************************************************************)
(* Properties.                                                             *)
(***************************************************************************)
StkSet(h) == {stk[h][i] : i \in 1 .. Len(stk[h])}

(* The frame whose last count h took, until it is given back. *)
Freeing(h) == pc[h] = "freecb" \/ (pc[h] \in PcFree /\ cur[h] \in HeapFbs)

(* Memory the operation of h will still read or write. *)
Deref(h) ==
    StkSet(h)
    \cup (IF pc[h] \in {"idle"} \cup PcGet THEN {ref[h]} ELSE {})
    \cup (IF pc[h] \in PcGet THEN {ref[src[h]]} ELSE {})
    \cup (IF cur[h] # NULL /\ (pc[h] \in PcFree => Freeing(h)) THEN {cur[h]} ELSE {})

(* Nobody reads or writes a frame after it was given back: fb_get and      *)
(* fb_put walk the chain without a lock while other threads drop their     *)
(* references to the same nodes, and the pool array is never freed under   *)
(* them.                                                                   *)
NoUseAfterFree ==
    \A h \in Handles :
        /\ Deref(h) \subseteq live
        /\ PoolMsi \in torn => Deref(h) \cap PoolFbs = {}

(* fb->users is exactly the number of references that cover the frame, in  *)
(* the middle of any set of concurrent fb_get / fb_put / fb_clone calls;   *)
(* in particular the uint8 never wraps and fb_free's ASSERT(users > 0)     *)
(* holds.                                                                  *)
UsersExact ==
    \A f \in Fbs : users[f] = Cardinality({h \in Handles : f \in owed[h]})

(* A reference covers its whole chain: from the head to the end of the     *)
(* list every node carries a count of this reference, so walking it needs  *)
(* no lock.                                                                *)
ChainCovered ==
    \A h \in Handles : pc[h] = "idle" =>
        /\ ref[h] \in owed[h]
        /\ \A f \in owed[h] : next[f] \in owed[h] \cup {NULL}

(* Every frame in use is referenced, or its last holder is on the way to   *)
(* give it back: no frame and no pool slot is lost.                        *)
NoLeak ==
    \A f \in live :
        \/ \E h \in Handles : f \in owed[h]
        \/ \E h \in Handles : Freeing(h) /\ cur[h] = f

(* References that an owner's msi->users stands for: its creator, its      *)
(* frames in circulation, and fb_free calls that have not put it yet.      *)
CreatorRef(m) == IF mpc[m] \in {"up", "dec"} THEN 1 ELSE 0
FramesOf(m) == {f \in live : users[f] > 0 /\ fmsi[f] = m}
Putting(m) == {h \in Handles : pc[h] \in {"freecb", "msiput", "msidec"} /\ lmsi[h] = m}

(* msi->users counts the creator and the frames in circulation exactly, so *)
(* fbpool_destroy (POST_DESTROY) runs only when the last frame of the      *)
(* component has come home.                                                *)
OwnerExact ==
    \A m \in Msis :
        musers[m] = CreatorRef(m) + Cardinality(FramesOf(m)) + Cardinality(Putting(m))

(* A component is torn down at most once and never while a frame of it is  *)
(* in circulation.                                                         *)
OwnerOutlivesFrames ==
    \A m \in Msis :
        m \in torn \/ mpc[m] = "postdestroy" =>
            /\ FramesOf(m) = {} /\ Putting(m) = {}
            /\ ~(m \in torn /\ mpc[m] = "postdestroy")
            /\ \A h \in Handles : pc[h] = "postdestroy" => lmsi[h] # m

(* fb_put always comes to its end: the recursion over a chain that other   *)
(* threads share is finite.                                                *)
PutTerminates == \A h \in Handles : pc[h] = "putwalk" ~> pc[h] = "none"

(* A destroyed component whose last reference is gone has been torn down,  *)
(* as msi.h says of msi_destroy.  The code breaks it: msi_put samples      *)
(* msi->inited before it drops its count.                                  *)
DestroyedIsReclaimed ==
    \A m \in Msis :
        (mpc[m] = "down" /\ musers[m] = 0)
            => m \in torn \/ \E h \in Handles : pc[h] = "postdestroy" /\ lmsi[h] = m
-----------------------------------------------------------------------------
(***************************************************************************)
(* The inductive invariant behind these properties.                        *)
(***************************************************************************)
(* Reference h covers a chain: one frame for each depth 1 .. depth[ref[h]], *)
(* linked from the deepest, the head, down to the last one.                *)
Covers(h) ==
    /\ ref[h] \in owed[h]
    /\ \A f \in owed[h] :
        /\ 1 <= depth[f] /\ depth[f] <= depth[ref[h]]
        /\ depth[f] = 1 => next[f] = NULL
        /\ depth[f] # 1 => next[f] \in owed[h] /\ depth[next[f]] = depth[f] - 1
    /\ \A f, g \in owed[h] : depth[f] = depth[g] => f = g

(* The stack of h runs down the chain that reference g covers. *)
OnChain(h, g) ==
    /\ Len(stk[h]) <= depth[ref[g]]
    /\ \A i \in 1 .. Len(stk[h]) :
        stk[h][i] \in owed[g] /\ depth[stk[h][i]] = depth[ref[g]] + 1 - i

(* The recursion of h is about to enter the next node of that chain. *)
AtCur(h, g) ==
    /\ cur[h] = NULL => Len(stk[h]) = depth[ref[g]]
    /\ cur[h] # NULL => cur[h] \in owed[g] /\ depth[cur[h]] + Len(stk[h]) = depth[ref[g]]

(* What the fb_get of h has counted so far on the chain of g. *)
Counted(h, g) ==
    {f \in owed[g] : pc[h] = "getinc" /\ depth[f] + Len(stk[h]) <= depth[ref[g]]}

NoneOK(h) == pc[h] = "none" => owed[h] = {} /\ stk[h] = <<>> /\ cur[h] = NULL

IdleOK(h) == pc[h] = "idle" => Covers(h) /\ stk[h] = <<>> /\ cur[h] = NULL

WalkOK(h) == pc[h] = "putwalk" => Covers(h) /\ OnChain(h, h) /\ AtCur(h, h)

ReleaseOK(h) == pc[h] \in {"putfree"} \cup PcFree =>
    /\ owed[h] = StkSet(h)
    /\ \A i, j \in 1 .. Len(stk[h]) : stk[h][i] = stk[h][j] => i = j
    /\ pc[h] = "putfree" => cur[h] = NULL
    /\ pc[h] \in PcFree => cur[h] \in Fbs
    /\ Freeing(h) => cur[h] \in live /\ users[cur[h]] = 0

GetOK(h) == pc[h] \in PcGet =>
    /\ src[h] \in Handles \ {h} /\ pc[src[h]] = "idle"
    /\ ref[h] \in Fbs
    /\ OnChain(h, src[h])
    /\ pc[h] = "getwalk" => AtCur(h, src[h])
    /\ pc[h] = "getinc" => cur[h] = NULL
    /\ ~Linking(h) => owed[h] = Counted(h, src[h])
    /\ Linking(h) =>
        /\ owed[h] = Counted(h, src[h]) \cup {ref[h]}
        /\ \A g \in Handles \ {h} : ref[h] \notin owed[g]
        /\ next[ref[h]] = NULL

HandleOK(h) ==
    /\ NoneOK(h) /\ IdleOK(h) /\ WalkOK(h) /\ ReleaseOK(h) /\ GetOK(h)
    /\ pc[h] \notin PcGet => src[h] = NULL
    /\ owed[h] \subseteq live

FreeOnce == \A g, h \in Handles :
    g # h /\ Freeing(g) /\ Freeing(h) => cur[g] # cur[h]

(* Reference counting: the invariant about frames and handles. *)
FrameInv ==
    /\ TypeOK
    /\ \A h \in Handles : HandleOK(h)
    /\ UsersExact
    /\ FreeOnce
    /\ NoLeak

(* A frame in use belongs to a component, a pool frame to the pool's. *)
FrameOwned == \A f \in live : fmsi[f] \in Msis /\ (f \in PoolFbs => fmsi[f] = PoolMsi)

(* The component an fb_free of h is giving its frame back to. *)
PutOwned(h) ==
    /\ pc[h] \in PcFree => lmsi[h] \in Msis /\ (cur[h] \in PoolFbs => lmsi[h] = PoolMsi)
    /\ pc[h] = "msidec" /\ linited[h] = 0 => inited[lmsi[h]] = 0
    /\ pc[h] = "postdestroy" =>
        /\ inited[lmsi[h]] = 0 /\ musers[lmsi[h]] = 0
        /\ lmsi[h] \notin torn /\ mpc[lmsi[h]] = "down"
        /\ \A g \in Handles \ {h} : pc[g] = "postdestroy" => lmsi[g] # lmsi[h]

MsiOK(m) ==
    /\ inited[m] = 1 <=> mpc[m] = "up"
    /\ m \in torn \/ mpc[m] = "postdestroy" => musers[m] = 0 /\ mpc[m] # "dec"
    /\ ~(m \in torn /\ mpc[m] = "postdestroy")

(* Ownership: the invariant about frames and the components behind them. *)
OwnerInv ==
    /\ FrameOwned
    /\ \A h \in Handles : PutOwned(h)
    /\ \A m \in Msis : MsiOK(m)
    /\ OwnerExact

IInv == FrameInv /\ OwnerInv
=============================================================================
