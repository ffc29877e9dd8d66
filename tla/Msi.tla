--------------------------------- MODULE Msi ---------------------------------
(***************************************************************************)
(* The component graph of the media core: msi.c.  Components are found by  *)
(* name, created on first mention (a placeholder without users when it is  *)
(* only named as an output), bound to their outputs, and freed when their  *)
(* reference count and their binding count are both zero.                  *)
(*                                                                         *)
(* A thread runs one call of the API at a time, and calls nest: the last   *)
(* msi_put of a component runs its POST_DESTROY callback and drains its    *)
(* queue, which puts frames, which puts the components that own them.  So  *)
(* a thread is a stack of activation records; the last one says what it    *)
(* does next:                                                              *)
(*                                                                         *)
(*    unlock      release g_MSI.lock                                       *)
(*    pre         PRE_DESTROY of obj, then put                             *)
(*    trans       TRANS_FB of obj with fb, then put                        *)
(*    put, dec    msi_put(obj): sample bound and inited, drop the count    *)
(*    post, drain POST_DESTROY of obj, fbq_destory of its queue            *)
(*    free        msi_free(obj), off the list already                      *)
(*    unref       msi_unbind has cleared an entry that pointed to obj      *)
(*    walk        msi_output_fb of obj, at output n, with fb               *)
(*                                                                         *)
(* msi_put does not take g_MSI.lock.                                       *)
(***************************************************************************)
EXTENDS Naturals, Sequences, FiniteSets, FiniteSetsExt

CONSTANTS Threads, Names,
          Objs,        \* addresses os_zalloc may return for a struct msi
          Frames,      \* frames the components have at a time
          OutMax,      \* MSI_OUTIF_MAX: 4 in the code
          MaxRefs,     \* bound: references the callers hold at a time
          MaxForward,  \* bound: nested msi_output_fb of TRANS_FB callbacks
          NULL

ASSUME MsiAssumption ==
    /\ OutMax \in Nat \ {0} /\ MaxRefs \in Nat /\ MaxForward \in Nat
    /\ IsFiniteSet(Objs) /\ IsFiniteSet(Frames)
    /\ NULL \notin Objs \cup Names \cup Threads \cup Frames

VARIABLES
    \* struct msi, and g_MSI.list
    alive, list, name, users, bound, inited, deleted, enable, outs,
    \* a frame: fb->msi, and the queue that holds its last count, or NULL when
    \* a caller does
    owner, queue,
    \* per thread: the activation records of its call
    stk,
    \* references the callers hold: from msi_new, and from msi_find
    made, found

graphVars == <<alive, list, name, bound, outs>>
objVars   == <<graphVars, users, inited, deleted, enable>>
fbVars    == <<owner, queue>>
refVars   == <<made, found>>
vars      == <<objVars, fbVars, stk, refVars>>

Outs == 1 .. OutMax

(* Records that stand for a reference to their component. *)
RefOps == {"pre", "trans", "put", "dec"}
(* Records of an msi_put that found the last reference. *)
LastOps == {"post", "drain"}
Record == [op : RefOps \cup LastOps \cup {"unlock", "free", "unref", "walk"},
           obj : Objs \cup {NULL}, n : Nat, k : Nat, fb : Frames \cup {NULL}]

GraphType ==
    /\ alive \subseteq Objs /\ list \subseteq Objs
    /\ deleted \subseteq Objs /\ enable \subseteq Objs
    /\ name \in [Objs -> Names \cup {NULL}]
    /\ outs \in [Objs -> [Outs -> Objs \cup {NULL}]]

CountType ==
    /\ users \in [Objs -> Nat] /\ bound \in [Objs -> Nat] /\ inited \in [Objs -> Nat]
    /\ made \in [Objs -> Nat] /\ found \in [Objs -> Nat]

TypeOK ==
    /\ GraphType /\ CountType
    /\ owner \in [Frames -> Objs \cup {NULL}] /\ queue \in [Frames -> Objs \cup {NULL}]
    /\ stk \in [Threads -> Seq(Record)]

Init ==
    /\ alive = {} /\ list = {} /\ deleted = {} /\ enable = {}
    /\ name = [o \in Objs |-> NULL]
    /\ users = [o \in Objs |-> 0] /\ bound = users /\ inited = users
    /\ outs = [o \in Objs |-> [i \in Outs |-> NULL]]
    /\ owner = [f \in Frames |-> NULL] /\ queue = owner
    /\ stk = [t \in Threads |-> <<>>]
    /\ made = [o \in Objs |-> 0] /\ found = made

(***************************************************************************)
(* The stack of a thread.                                                  *)
(***************************************************************************)
Rec(op, o) == [op |-> op, obj |-> o, n |-> 0, k |-> 0, fb |-> NULL]
Top(t)   == stk[t][Len(stk[t])]
Below(t) == SubSeq(stk[t], 1, Len(stk[t]) - 1)
At(t, ops) == stk[t] # <<>> /\ Top(t).op \in ops

Idle(t) == stk[t] = <<>>
Pop(t) == stk' = [stk EXCEPT ![t] = Below(t)]
Turn(t, r) == stk' = [stk EXCEPT ![t] = Append(Below(t), r)]

(* g_MSI.lock nests; whoever has it has a record that will release it. *)
Locked(t) == \E i \in 1 .. Len(stk[t]) : stk[t][i].op = "unlock"
Ready(t) == \A s \in Threads \ {t} : ~Locked(s)

(* Some msi_output_fb under way has a count of the frame. *)
Carries(r, f) == r.op \in {"walk", "trans"} /\ r.fb = f
Walked(f) == \E t \in Threads : \E i \in 1 .. Len(stk[t]) : Carries(stk[t][i], f)

(***************************************************************************)
(* Helpers.                                                                *)
(***************************************************************************)
Dec(n) == IF n > 0 THEN n - 1 ELSE 0
MayRef == MapThenSumSet(LAMBDA o : made[o] + found[o], Objs) < MaxRefs

msi_find_lock(n) == {o \in list : name[o] = n}

(* o is the component called n after msi_new_lock(n): the listed one, or a *)
(* zeroed one that joins the list.                                         *)
msi_new_lock(n, o) ==
    \/ o \in msi_find_lock(n)
    \/ msi_find_lock(n) = {} /\ o \notin alive

Join(o, n) ==
    /\ alive' = alive \cup {o} /\ list' = list \cup {o}
    /\ name' = [name EXCEPT ![o] = n]

msi_get(o) == users' = [users EXCEPT ![o] = @ + 1]

msi_bound(l, o) == {i \in Outs : outs[l][i] = o}
First(S) == CHOOSE i \in S : \A j \in S : i <= j

(***************************************************************************)
(* Calls under the lock that change nothing step by step.                  *)
(***************************************************************************)
msi_new(t, n, o) ==
    /\ Idle(t) /\ Ready(t) /\ msi_new_lock(n, o) /\ o \notin deleted /\ MayRef
    /\ Join(o, n)
    /\ inited' = [inited EXCEPT ![o] = @ + 1]
    /\ msi_get(o)
    /\ made' = [made EXCEPT ![o] = @ + 1]
    /\ UNCHANGED <<bound, deleted, enable, outs, fbVars, stk, found>>

(* The component sets msi->enable itself, some time after its msi_new. *)
msi_enable(t, o) ==
    /\ Idle(t) /\ made[o] > 0 /\ o \notin enable
    /\ enable' = enable \cup {o}
    /\ UNCHANGED <<graphVars, users, inited, deleted, fbVars, stk, refVars>>

(* msi_find, and the msi_find of msi_cmd; only: the `inited` argument. *)
msi_find(t, n, only) ==
    /\ Idle(t) /\ Ready(t)
    /\ \E o \in msi_find_lock(n) :
        /\ MayRef /\ (only => inited[o] > 0)
        /\ msi_get(o)
        /\ found' = [found EXCEPT ![o] = @ + 1]
    /\ UNCHANGED <<graphVars, inited, deleted, enable, fbVars, stk, made>>

(* Mutant: bound is counted before a free entry is found. *)
msi_bind_early(l, o) ==
    IF msi_bound(l, o) = {}
    THEN /\ bound' = [bound EXCEPT ![o] = @ + 1]
         /\ IF msi_bound(l, NULL) = {} THEN UNCHANGED outs
            ELSE outs' = [outs EXCEPT ![l][First(msi_bound(l, NULL))] = o]
    ELSE UNCHANGED <<bound, outs>>

msi_bind(l, o) ==
    IF msi_bound(l, o) = {} /\ msi_bound(l, NULL) # {}
    THEN /\ bound' = [bound EXCEPT ![o] = @ + 1]
         /\ outs' = [outs EXCEPT ![l][First(msi_bound(l, NULL))] = o]
    ELSE UNCHANGED <<bound, outs>>

(* msi_add_output(l, NULL, on) by the component l itself. *)
add_output_of(t, l, on, o) ==
    /\ Idle(t) /\ Ready(t) /\ made[l] > 0 /\ msi_new_lock(on, o)
    /\ Join(o, on)
    /\ msi_bind(l, o)
    /\ UNCHANGED <<users, inited, deleted, enable, fbVars, stk, refVars>>

(* os_zalloc fails for one end of msi_add_output: the other end has joined *)
(* the list by then and stays there unbound.                               *)
add_output_nomem(t, n, o) ==
    /\ Idle(t) /\ Ready(t) /\ msi_new_lock(n, o)
    /\ Join(o, n)
    /\ UNCHANGED <<users, bound, inited, deleted, enable, outs, fbVars, stk, refVars>>

(* msi_add_output(NULL, ln, on). *)
msi_add_output(t, ln, l, on, o) ==
    /\ Idle(t) /\ Ready(t) /\ msi_new_lock(ln, l) /\ msi_new_lock(on, o)
    /\ ln = on <=> l = o
    /\ alive' = alive \cup {l, o} /\ list' = list \cup {l, o}
    /\ name' = [name EXCEPT ![l] = ln, ![o] = on]
    /\ msi_bind(l, o)
    /\ UNCHANGED <<users, inited, deleted, enable, fbVars, stk, refVars>>

(***************************************************************************)
(* msi_del_output: finds its ends (ls: the left one, when it is found by   *)
(* name), unbinds them, puts what it found, the left end first.            *)
(***************************************************************************)
Puts(S) == IF S = {} THEN <<>> ELSE <<Rec("put", CHOOSE o \in S : TRUE)>>

(* Mutant: the output that was found is not put. *)
DelOutput_leak(t, ls, l, on) ==
    /\ Idle(t) /\ Ready(t)
    /\ users' = [x \in Objs |-> users[x] + Cardinality(ls \cap {x})
                                         + Cardinality(msi_find_lock(on) \cap {x})]
    /\ stk' = [stk EXCEPT ![t] = <<Rec("unlock", NULL)>> \o Puts(ls)]
    /\ UNCHANGED <<graphVars, inited, deleted, enable, fbVars, refVars>>

DelOutput(t, ls, l, on) ==
    LET os == msi_find_lock(on)
        hit == {i \in Outs : l # NULL /\ outs[l][i] \in os}
        work == <<Rec("unlock", NULL)>> \o Puts(os) \o Puts(ls)
    IN
    /\ Idle(t) /\ Ready(t)
    /\ users' = [x \in Objs |-> users[x] + Cardinality(ls \cap {x}) + Cardinality(os \cap {x})]
    /\ IF hit = {}
       THEN /\ stk' = [stk EXCEPT ![t] = work]
            /\ UNCHANGED outs
       ELSE LET o == outs[l][First(hit)] IN
            /\ outs' = [outs EXCEPT ![l][First(hit)] = NULL]
            /\ stk' = [stk EXCEPT ![t] = Append(work, [Rec("unref", o) EXCEPT !.n = users'[o]])]
    /\ UNCHANGED <<alive, list, name, bound, inited, deleted, enable, fbVars, refVars>>

del_output_of(t, l, on) == made[l] > 0 /\ DelOutput(t, {}, l, on)

msi_del_output(t, ln, on) ==
    \/ \E l \in msi_find_lock(ln) : DelOutput(t, {l}, l, on)
    \/ msi_find_lock(ln) = {} /\ DelOutput(t, {}, NULL, on)

unlock(t) == At(t, {"unlock"}) /\ Pop(t) /\ UNCHANGED <<objVars, fbVars, refVars>>

(***************************************************************************)
(* msi_destroy, also from the PRE_DESTROY and POST_DESTROY callbacks: a    *)
(* component destroys the ones it has created.  The last owner hands the   *)
(* component to msi_put, still under the lock.  The component's own thread *)
(* has stopped by then.                                                    *)
(***************************************************************************)
(* Mutant: destroying a component that its owner destroyed before. *)
msi_destroy_again(t, o) ==
    /\ Idle(t) /\ Ready(t) /\ o \in list
    /\ made' = [made EXCEPT ![o] = @ - 1]
    /\ inited' = [inited EXCEPT ![o] = @ - 1]
    /\ users' = [users EXCEPT ![o] = Dec(@)]
    /\ UNCHANGED <<graphVars, deleted, enable, fbVars, stk, found>>

msi_destroy(t, o) ==
    /\ Idle(t) \/ At(t, {"pre", "post"})
    /\ Ready(t) /\ made[o] > 0
    /\ \A s \in Threads : \A i \in 1 .. Len(stk[s]) : ~(stk[s][i].op = "walk" /\ stk[s][i].obj = o)
    /\ made' = [made EXCEPT ![o] = @ - 1]
    /\ inited' = [inited EXCEPT ![o] = Dec(@)]
    /\ IF Dec(inited[o]) = 0
       THEN /\ enable' = enable \ {o} /\ deleted' = deleted \cup {o}
            /\ stk' = [stk EXCEPT ![t] = Append(Append(@, Rec("unlock", NULL)), Rec("pre", o))]
            /\ UNCHANGED users
       ELSE /\ users' = [users EXCEPT ![o] = Dec(@)]
            /\ UNCHANGED <<enable, deleted, stk>>
    /\ UNCHANGED <<graphVars, fbVars, found>>

(***************************************************************************)
(* Frames, as far as they hold components: fb_alloc takes a reference to   *)
(* the owner, and the put of the last count gives it back, after the       *)
(* owner's FREE_FB.  A put of another count does not touch the graph.      *)
(***************************************************************************)
fb_alloc(t, o, f) ==
    /\ Idle(t) /\ made[o] > 0 /\ owner[f] = NULL
    /\ owner' = [owner EXCEPT ![f] = o]
    /\ msi_get(o)
    /\ UNCHANGED <<graphVars, inited, deleted, enable, queue, stk, refVars>>

(* fb_put and msi_delete_fb by a caller, also from a callback. *)
fb_put(t, f) ==
    /\ Idle(t) \/ At(t, {"pre", "post", "trans"})
    /\ owner[f] # NULL /\ queue[f] = NULL /\ ~Walked(f)
    /\ owner' = [owner EXCEPT ![f] = NULL]
    /\ stk' = [stk EXCEPT ![t] = Append(@, Rec("put", owner[f]))]
    /\ UNCHANGED <<objVars, queue, refVars>>

(* The thread of component o takes a frame from its queue. *)
msi_get_fb(t, o, f) ==
    /\ Idle(t) /\ made[o] > 0 /\ queue[f] = o
    /\ queue' = [queue EXCEPT ![f] = NULL]
    /\ UNCHANGED <<objVars, owner, stk, refVars>>

(***************************************************************************)
(* msi_put.                                                                *)
(***************************************************************************)
(* The caller gives up a reference it got from msi_find. *)
msi_put(t, o) ==
    /\ Idle(t) /\ found[o] > 0
    /\ found' = [found EXCEPT ![o] = @ - 1]
    /\ stk' = [stk EXCEPT ![t] = Append(@, Rec("put", o))]
    /\ UNCHANGED <<objVars, fbVars, made>>

(* A callback that comes before the put is over by now. *)
put_read(t) ==
    /\ At(t, {"pre", "trans", "put"})
    /\ LET o == Top(t).obj IN
       Turn(t, [Rec("dec", o) EXCEPT !.n = bound[o], !.k = inited[o]])
    /\ UNCHANGED <<objVars, fbVars, refVars>>

put_dec(t) ==
    /\ At(t, {"dec"})
    /\ LET o == Top(t).obj IN
       /\ users' = [users EXCEPT ![o] = Dec(@)]
       /\ IF Dec(users[o]) = 0 /\ Top(t).k = 0
          THEN Turn(t, [Rec("post", o) EXCEPT !.n = Top(t).n])
          ELSE Pop(t)
    /\ UNCHANGED <<graphVars, inited, deleted, enable, fbVars, refVars>>

(* One irq-protected section, with or without the lock. *)
msi_list_del(o) == list' = list \ {o}

(* Off the list; what remains is to unbind the outputs and to free o. *)
msi_free(t, o) == msi_list_del(o) /\ Turn(t, Rec("free", o))

(* POST_DESTROY is over: fbq_destory puts the next frame of the queue.  It *)
(* is the last put unless the frame is still being output.                 *)
put_drain(t, f) ==
    /\ At(t, LastOps)
    /\ LET r == Top(t)
           rest == Append(Below(t), [r EXCEPT !.op = "drain"])
       IN /\ queue[f] = r.obj
          /\ queue' = [queue EXCEPT ![f] = NULL]
          /\ IF Walked(f)
             THEN /\ stk' = [stk EXCEPT ![t] = rest]
                  /\ UNCHANGED owner
             ELSE /\ stk' = [stk EXCEPT ![t] = Append(rest, Rec("put", owner[f]))]
                  /\ owner' = [owner EXCEPT ![f] = NULL]
    /\ UNCHANGED <<objVars, refVars>>

(* Mutant: the placeholder stays marked as being destroyed. *)
put_post_marked(t) ==
    /\ At(t, LastOps) /\ \A f \in Frames : queue[f] # Top(t).obj
    /\ IF Top(t).n = 0 THEN msi_free(t, Top(t).obj) ELSE Pop(t) /\ UNCHANGED list
    /\ UNCHANGED <<alive, name, bound, outs, users, inited, deleted, enable, fbVars, refVars>>

(* The queue is empty: free, or leave a placeholder for those bound to it. *)
put_post(t) ==
    /\ At(t, LastOps) /\ \A f \in Frames : queue[f] # Top(t).obj
    /\ IF Top(t).n = 0
       THEN msi_free(t, Top(t).obj) /\ UNCHANGED deleted
       ELSE /\ deleted' = deleted \ {Top(t).obj}
            /\ Pop(t) /\ UNCHANGED list
    /\ UNCHANGED <<alive, name, bound, outs, users, inited, enable, fbVars, refVars>>

(* msi_unbind(msi, NULL): the next output leaves; after the last, os_free. *)
msi_unbind(t) ==
    /\ At(t, {"free"})
    /\ LET o == Top(t).obj
           set == {i \in Outs : outs[o][i] # NULL}
           out == outs[o][First(set)]
       IN IF set = {}
          THEN /\ alive' = alive \ {o}
               /\ deleted' = deleted \ {o} /\ enable' = enable \ {o}
               /\ name' = [name EXCEPT ![o] = NULL]
               /\ Pop(t) /\ UNCHANGED outs
          ELSE /\ outs' = [outs EXCEPT ![o][First(set)] = NULL]
               /\ stk' = [stk EXCEPT ![t] = Append(@, [Rec("unref", out) EXCEPT !.n = users[out]])]
               /\ UNCHANGED <<alive, deleted, enable, name>>
    /\ UNCHANGED <<list, users, bound, inited, fbVars, refVars>>

(* Mutant: an output is freed with its last binding, used or not. *)
unbind_dec_used(t) ==
    /\ At(t, {"unref"})
    /\ LET o == Top(t).obj IN
       /\ bound' = [bound EXCEPT ![o] = Dec(@)]
       /\ IF Dec(bound[o]) = 0 THEN msi_free(t, o) ELSE Pop(t) /\ UNCHANGED list
    /\ UNCHANGED <<alive, name, outs, users, inited, deleted, enable, fbVars, refVars>>

(* bound drops; an output nobody uses and nobody else is bound to goes. *)
unbind_dec(t) ==
    /\ At(t, {"unref"})
    /\ LET o == Top(t).obj IN
       /\ bound' = [bound EXCEPT ![o] = Dec(@)]
       /\ IF Dec(bound[o]) = 0 /\ Top(t).n = 0
          THEN msi_free(t, o)
          ELSE Pop(t) /\ UNCHANGED list
    /\ UNCHANGED <<alive, name, outs, users, inited, deleted, enable, fbVars, refVars>>

(***************************************************************************)
(* msi_output_fb by the thread of component o, with a frame in its hand or *)
(* without one, to ask whether an output is enabled: every enabled output  *)
(* is referenced while it takes the frame.                                 *)
(***************************************************************************)
msi_output_fb(t, o, f) ==
    /\ Idle(t) /\ made[o] > 0 /\ o \in enable
    /\ f # NULL => owner[f] # NULL /\ queue[f] = NULL
    /\ stk' = [stk EXCEPT ![t] = Append(@, [Rec("walk", o) EXCEPT !.n = 1, !.fb = f])]
    /\ UNCHANGED <<objVars, fbVars, refVars>>

(* Mutant: the loop does not step over an output that is not enabled. *)
output_next_stuck(t) ==
    /\ At(t, {"walk"}) /\ Top(t).n <= OutMax
    /\ LET r == Top(t)
           out == outs[r.obj][r.n]
       IN /\ out \in enable
          /\ msi_get(out)
          /\ stk' = [stk EXCEPT ![t] = Append(Append(Below(t), [r EXCEPT !.n = @ + 1]),
                                              [Rec("trans", out) EXCEPT !.fb = r.fb])]
    /\ UNCHANGED <<graphVars, inited, deleted, enable, fbVars, refVars>>

output_next(t) ==
    /\ At(t, {"walk"}) /\ Top(t).n <= OutMax
    /\ LET r == Top(t)
           out == outs[r.obj][r.n]
           next == [r EXCEPT !.n = IF r.fb = NULL /\ out \in enable THEN OutMax + 1 ELSE @ + 1]
       IN IF out \in enable
          THEN /\ msi_get(out)
               /\ stk' = [stk EXCEPT ![t] = Append(Append(Below(t), next),
                                                   [Rec("trans", out) EXCEPT !.fb = r.fb])]
          ELSE Turn(t, next) /\ UNCHANGED users
    /\ UNCHANGED <<graphVars, inited, deleted, enable, fbVars, refVars>>

(* TRANS_FB accepts the frame: it goes into the output's queue, which will *)
(* hold its last count.  The queue that was to hold it so far will not.    *)
fbq_enqueue(t) ==
    /\ At(t, {"trans"}) /\ Top(t).fb # NULL
    /\ queue' = [queue EXCEPT ![Top(t).fb] = Top(t).obj]
    /\ Turn(t, Rec("put", Top(t).obj))
    /\ UNCHANGED <<objVars, owner, refVars>>

(* TRANS_FB passes the frame on to the outputs of the output, as auto_jpg  *)
(* and the route component do.                                             *)
Walks(t) == Cardinality({i \in 1 .. Len(stk[t]) : stk[t][i].op = "walk"})
trans_forward(t) ==
    /\ At(t, {"trans"}) /\ Top(t).fb # NULL /\ Top(t).obj \in enable
    /\ Walks(t) <= MaxForward
    /\ LET r == Top(t) IN
       stk' = [stk EXCEPT ![t] = Append(Append(Below(t), Rec("put", r.obj)),
                                        [Rec("walk", r.obj) EXCEPT !.n = 1, !.fb = r.fb])]
    /\ UNCHANGED <<objVars, fbVars, refVars>>

(* The frame is put; last: with its last count, so that nobody else has a  *)
(* count of it.                                                            *)
output_done(t, last) ==
    /\ At(t, {"walk"}) /\ Top(t).n > OutMax
    /\ LET f == Top(t).fb
           others == \E s \in Threads : \E i \in 1 .. Len(stk[s]) :
                        Carries(stk[s][i], f) /\ ~(s = t /\ i = Len(stk[t]))
       IN IF last
          THEN /\ f # NULL /\ queue[f] = NULL /\ ~others
               /\ owner' = [owner EXCEPT ![f] = NULL]
               /\ Turn(t, Rec("put", owner[f]))
          ELSE Pop(t) /\ UNCHANGED owner
    /\ UNCHANGED <<objVars, queue, refVars>>

(***************************************************************************)
(* The specification.                                                      *)
(***************************************************************************)
Call(t) ==
    \/ \E n \in Names, o \in Objs : msi_new(t, n, o) \/ add_output_nomem(t, n, o)
    \/ \E n \in Names, only \in BOOLEAN : msi_find(t, n, only)
    \/ \E o \in Objs : msi_put(t, o) \/ msi_destroy(t, o) \/ msi_enable(t, o)
    \/ \E l, o \in Objs, on \in Names : add_output_of(t, l, on, o)
    \/ \E ln, on \in Names, l, o \in Objs : msi_add_output(t, ln, l, on, o)
    \/ \E l \in Objs, on \in Names : del_output_of(t, l, on)
    \/ \E ln, on \in Names : msi_del_output(t, ln, on)

FrameCall(t) ==
    \/ \E o \in Objs, f \in Frames : fb_alloc(t, o, f) \/ msi_get_fb(t, o, f)
    \/ \E f \in Frames : fb_put(t, f)
    \/ \E o \in Objs, f \in Frames \cup {NULL} : msi_output_fb(t, o, f)

Step(t) ==
    \/ put_read(t) \/ put_dec(t) \/ put_post(t) \/ msi_unbind(t) \/ unbind_dec(t)
    \/ unlock(t) \/ output_next(t) \/ fbq_enqueue(t) \/ trans_forward(t)
    \/ \E f \in Frames : put_drain(t, f)
    \/ \E last \in BOOLEAN : output_done(t, last)

Next == \E t \in Threads : Call(t) \/ FrameCall(t) \/ Step(t)

Spec == Init /\ [][Next]_vars

(* A call that has begun runs on. *)
FairSpec == Spec /\ \A t \in Threads : WF_vars(Step(t))

-----------------------------------------------------------------------------
Records == UNION {{<<t, i>> : i \in 1 .. Len(stk[t])} : t \in Threads}
InUse(e) == stk[e[1]][e[2]]

(* No pointer outlives its component: not a reference from msi_new,        *)
(* msi_find or a frame, not an entry of an output list or of g_MSI.list,   *)
(* not a component a call is working on.  In particular nothing is freed   *)
(* twice, however msi_put, msi_free and the callbacks nest.  The exception *)
(* is an msi_put that will leave a placeholder (n > 0): see FreedIsUnused. *)
NoDangling ==
    /\ list \subseteq alive
    /\ \A o \in alive, i \in Outs : outs[o][i] \in alive \cup {NULL}
    /\ \A o \in Objs : made[o] + found[o] > 0 => o \in alive
    /\ \A f \in Frames : owner[f] \in alive \cup {NULL}
    /\ \A e \in Records :
        LET r == InUse(e) IN
        r.op # "unlock" /\ ~(r.op \in LastOps /\ r.n > 0) => r.obj \in alive

(* msi_unbind frees a component because "both the reference count and the  *)
(* binding count are 0": no other call is working on it then, not even the *)
(* msi_put that is still running its callback or draining its queue.       *)
FreedIsUnused ==
    \A d, e \in Records :
        d # e /\ InUse(d).op = "free" => InUse(d).obj # InUse(e).obj

(* msi->users is the number of references out: those of callers, of frames *)
(* and of calls under way, also between the steps of a call.               *)
RefsExact ==
    \A o \in Objs :
        users[o] = made[o] + found[o] + Cardinality({f \in Frames : owner[f] = o})
                   + Cardinality({e \in Records : InUse(e).op \in RefOps /\ InUse(e).obj = o})

(* msi->bound is the number of output entries that point here, and of      *)
(* those that have been cleared and not yet counted off.                   *)
BoundExact ==
    \A o \in Objs :
        bound[o] = Cardinality({e \in alive \X Outs : outs[e[1]][e[2]] = o})
                   + Cardinality({e \in Records : InUse(e).op = "unref" /\ InUse(e).obj = o})

(* Between calls: a name stands for one component, no component is alive   *)
(* outside the list, one whose last user is gone is neither enabled nor    *)
(* marked as being destroyed, so that msi_new can create it again, and no  *)
(* frame is left in its queue.                                             *)
Settled ==
    (\A t \in Threads : Idle(t)) =>
        /\ alive = list
        /\ \A o, p \in list : name[o] = name[p] => o = p
        /\ \A o \in list : users[o] = 0 => o \notin deleted \cup enable
        /\ \A f \in Frames : queue[f] # NULL => users[queue[f]] > 0

(* Every call returns: msi_free follows chains of outputs that nobody else *)
(* uses, fbq_destory puts frames whose owners go next, and both end.       *)
CallsReturn == \A t \in Threads : ~Idle(t) ~> Idle(t)

(* Nobody but its own msi_del_output takes an output from a component that *)
(* some msi_new still owns: not the destruction of its neighbours, and not *)
(* a reference to it that comes and goes.                                  *)
OutputsStay ==
    [][\A o \in Objs : made[o] > 0 /\ made'[o] > 0 =>
        \A i \in Outs : \/ outs[o][i] \in {NULL, outs'[o][i]}
                        \/ \E t \in Threads : Idle(t) /\ stk'[t] # <<>> /\ stk'[t][1].op = "unlock"]_vars
=============================================================================
