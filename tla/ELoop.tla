------------------------------- MODULE ELoop -------------------------------
(***************************************************************************)
(* The socket event loop of lib/net/eloop/eloop.c: one thread runs         *)
(* user_eloop_run; other threads, and the callbacks the loop makes, add,   *)
(* remove, enable and reschedule events.  A loopback datagram wakes the    *)
(* loop out of select.                                                     *)
(*                                                                         *)
(* e->flags is a plain int: every |= or &= on it is a load and a store     *)
(* with other threads between them (the two of eloop_remove_event are one  *)
(* load and one store in the -Os build).  Lists are sets: the order of     *)
(* events of one kind is left open.  A time is only reached or not, a      *)
(* socket only ready or not.                                               *)
(***************************************************************************)
EXTENDS Integers, FiniteSets

CONSTANTS Threads,   \* threads that use the API, other than the loop's
          Loop,      \* the thread in user_eloop_run
          Kind,      \* of each event: "time", "always" or "fd"
          Owner,     \* the thread that adds an event and keeps its handle
          AddFlags,  \* the flags its clients pass for an event
          Loopback,  \* the fd event of the loopback socket
          MaxDgram,  \* datagrams the loopback socket holds; more are dropped
          MaxCalls   \* calls into the API that one callback makes

Events  == DOMAIN Kind
Clients == Events \ {Loopback}
Callers == Threads \cup {Loop}
Flags   == {"ENABLED", "REMOVE", "ONESHOT", "RUNNING"}
NoFd    == Loopback       \* nobody closes the loopback socket

ASSUME ELoopAssumption ==
    /\ Loop \notin Threads
    /\ Kind \in [Events -> {"time", "always", "fd"}]
    /\ Loopback \in Events /\ Kind[Loopback] = "fd"
    /\ Owner \in [Clients -> Callers]
    /\ AddFlags \in [Clients -> SUBSET SUBSET {"ENABLED", "ONESHOT"}]
    /\ MaxDgram \in Nat \ {0} /\ MaxCalls \in Nat

VARIABLES
    where,     \* the list an event is on; "none" before its malloc, after its free
    flags,     \* e->flags
    signal,    \* its time is reached, its socket is ready
    closes,    \* the socket that an alarm's callback closes
    closed,    \* events whose socket is closed
    gone,      \* events whose eloop_remove_event has stored its flags
    flag,      \* global_loopback_flag
    dgram,     \* datagrams in the loopback socket
    call,      \* where each thread is in a call of the API
    lpc,       \* where the loop is in user_eloop_run
    todo,      \* events the current walk of the lists has still to visit
    fdset,     \* rfds and wfds as select was given them
    timed,     \* st is not NULL
    hit,       \* rfds and wfds as select left them, empty when it returns <= 0
    cur,       \* the event whose callback runs
    ncalls,    \* API calls made by that callback
    end_loop

evars == <<where, flags, signal, closes, closed, gone>>
wvars == <<flag, dgram>>
lvars == <<lpc, todo, fdset, timed, hit, cur, ncalls>>
vars  == <<evars, wvars, lvars, call, end_loop>>

Idle == [pc |-> "idle", op |-> "none", ev |-> Loopback, val |-> {}]
Call == [pc : {"idle", "store", "wake", "set", "send"},
         op : {"none", "add", "remove", "enable", "resched", "arm", "fire"},
         ev : Events, val : SUBSET Flags]

\* The variables have their types.
TypeOK ==
    /\ where \in [Events -> {"none", "wait", "list"}]
    /\ flags \in [Events -> SUBSET Flags]
    /\ signal \in [Events -> BOOLEAN]
    /\ closes \in [Events -> Events]
    /\ closed \subseteq Clients /\ gone \subseteq Clients
    /\ flag \in {0, 1} /\ dgram \in 0..MaxDgram
    /\ call \in [Callers -> Call]
    /\ lpc \in {"top", "take", "arm", "select", "woken", "run", "call", "read", "done"}
    /\ todo \subseteq Events /\ fdset \subseteq Events /\ hit \subseteq Events
    /\ timed \in BOOLEAN /\ end_loop \in BOOLEAN
    /\ cur \in Events /\ ncalls \in 0..MaxCalls

\* eloop_init: the loopback event is added without a wakeup.
Init ==
    /\ where  = [e \in Events |-> IF e = Loopback THEN "wait" ELSE "none"]
    /\ flags  = [e \in Events |-> IF e = Loopback THEN {"ENABLED"} ELSE {}]
    /\ signal = [e \in Events |-> FALSE]
    /\ closes = [e \in Events |-> NoFd]
    /\ closed = {} /\ gone = {}
    /\ flag = 0 /\ dgram = 0
    /\ call = [c \in Callers |-> Idle]
    /\ lpc = "top" /\ todo = {} /\ fdset = {} /\ timed = FALSE /\ hit = {}
    /\ cur = Loopback /\ ncalls = 0
    /\ end_loop = FALSE

-----------------------------------------------------------------------------
(* Calls of the API, by a thread or by a callback on the loop's thread.    *)

\* A callback other than the loopback's may call the API.
MayCall(c) ==
    /\ call[c] = Idle
    /\ c = Loop => lpc = "call" /\ cur # Loopback /\ ncalls < MaxCalls

CountCall(c) == ncalls' = IF c = Loop THEN ncalls + 1 ELSE ncalls

\* Handles of one-shot events are never kept: the loop frees them.
Holds(c, e) ==
    Owner[e] = c /\ where[e] # "none" /\ e \notin gone /\ "ONESHOT" \notin flags[e]

\* Threads other than the loop's write the flags of the events they own.
Shared(e) == e # Loopback /\ Owner[e] # Loop

\* Mutant: set_event_enabled does not wake the loop.
AfterStoreQuiet(op) == IF op = "remove" THEN [Idle EXCEPT !.pc = "wake", !.op = op] ELSE Idle

\* What follows the store: remove and set_event_enabled go on to eloop_wakeup.
AfterStore(op) ==
    IF op \in {"remove", "enable"} THEN [Idle EXCEPT !.pc = "wake", !.op = op] ELSE Idle

\* A read-modify-write of e->flags: for a shared event the load, with what is
\* to be stored; for any other event load and store in one step.
Modify(c, op, e, add, del) ==
    LET val == (flags[e] \cup add) \ del IN
    IF Shared(e)
    THEN /\ call' = [call EXCEPT ![c] = [pc |-> "store", op |-> op, ev |-> e, val |-> val]]
         /\ UNCHANGED <<flags, gone>>
    ELSE /\ call' = [call EXCEPT ![c] = AfterStore(op)]
         /\ flags' = [flags EXCEPT ![e] = val]
         /\ gone' = IF op = "remove" THEN gone \cup {e} ELSE gone

Store(c) ==
    LET k == call[c] IN
    /\ k.pc = "store"
    /\ flags' = [flags EXCEPT ![k.ev] = k.val]
    /\ gone'  = IF k.op = "remove" THEN gone \cup {k.ev} ELSE gone
    /\ call'  = [call EXCEPT ![c] = AfterStore(k.op)]
    /\ UNCHANGED <<where, signal, closes, closed, wvars, lvars, end_loop>>

\* Mutant: no wakeup after the event is in the wait list, as in eloop_add_fd_init.
AddEventQuiet(c, e, f, due, fd) ==
    /\ MayCall(c) /\ Owner[e] = c /\ where[e] = "none" /\ f \in AddFlags[e]
    /\ \A a \in Events : closes[a] # e
    /\ Kind[e] = "always" => "ENABLED" \in f /\ ~due
    /\ fd = NoFd
    /\ where'  = [where EXCEPT ![e] = "wait"]
    /\ flags'  = [flags EXCEPT ![e] = f]
    /\ signal' = [signal EXCEPT ![e] = due]
    /\ gone'   = gone \ {e}
    /\ CountCall(c)
    /\ UNCHANGED <<closes, closed, call, wvars, lpc, todo, fdset, timed, hit, cur, end_loop>>

\* eloop_add_timer, _alarm, _fd and _always: into the wait list, then wake.
\* An alarm may be there to close the socket of an event just removed.
AddEvent(c, e, f, due, fd) ==
    /\ MayCall(c) /\ Owner[e] = c /\ where[e] = "none" /\ f \in AddFlags[e]
    /\ \A a \in Events : closes[a] # e   \* the name of a socket still to be closed
    /\ Kind[e] = "always" => "ENABLED" \in f /\ ~due
    /\ fd # NoFd => /\ Kind[e] = "time" /\ "ONESHOT" \in f
                    /\ fd \in gone \ closed /\ Kind[fd] = "fd" /\ Owner[fd] = c
    /\ where'  = [where EXCEPT ![e] = "wait"]
    /\ flags'  = [flags EXCEPT ![e] = f]
    /\ signal' = [signal EXCEPT ![e] = due]
    /\ closes' = [closes EXCEPT ![e] = fd]
    /\ closed' = closed \ {e}
    /\ gone'   = gone \ {e}
    /\ call'   = [call EXCEPT ![c] = [Idle EXCEPT !.pc = "wake", !.op = "add"]]
    /\ CountCall(c)
    /\ UNCHANGED <<wvars, lpc, todo, fdset, timed, hit, cur, end_loop>>

\* Mutant: RUNNING stays until the next pass.
RemoveEventRunning(c, e) ==
    /\ MayCall(c) /\ Holds(c, e)
    /\ Modify(c, "remove", e, {"REMOVE"}, {"ENABLED"})
    /\ CountCall(c)
    /\ UNCHANGED <<where, signal, closes, closed, wvars, lpc, todo, fdset, timed, hit,
                   cur, end_loop>>

RemoveEvent(c, e) ==
    /\ MayCall(c) /\ Holds(c, e)
    /\ Modify(c, "remove", e, {"REMOVE"}, {"RUNNING", "ENABLED"})
    /\ CountCall(c)
    /\ UNCHANGED <<where, signal, closes, closed, wvars, lpc, todo, fdset, timed, hit,
                   cur, end_loop>>

SetEventEnabled(c, e, on) ==
    /\ MayCall(c) /\ Holds(c, e)
    /\ IF on THEN Modify(c, "enable", e, {"ENABLED"}, {})
             ELSE Modify(c, "enable", e, {}, {"ENABLED"})
    /\ CountCall(c)
    /\ UNCHANGED <<where, signal, closes, closed, wvars, lpc, todo, fdset, timed, hit,
                   cur, end_loop>>

\* eloop_resched_event and eloop_set_event_interval, by the callback of a
\* timer: its fire time changes and REMOVE is cleared; the loop is not woken.
ReschedEvent(e, due) ==
    /\ MayCall(Loop) /\ cur = e /\ Kind[e] = "time"
    /\ signal' = [signal EXCEPT ![e] = due]
    /\ Modify(Loop, "resched", e, {}, {"REMOVE"})
    /\ CountCall(Loop)
    /\ UNCHANGED <<where, closes, closed, wvars, lpc, todo, fdset, timed, hit, cur,
                   end_loop>>

\* eloop_wakeup: nothing to do when the flag is up; else raise it and send.
WakeupTest(c) ==
    /\ call[c].pc = "wake"
    /\ call' = [call EXCEPT ![c] = IF flag = 1 THEN Idle ELSE [@ EXCEPT !.pc = "set"]]
    /\ UNCHANGED <<evars, wvars, lvars, end_loop>>

WakeupSet(c) ==
    /\ call[c].pc = "set"
    /\ flag' = 1
    /\ call' = [call EXCEPT ![c].pc = "send"]
    /\ UNCHANGED <<evars, dgram, lvars, end_loop>>

WakeupSend(c) ==
    /\ call[c].pc = "send"
    /\ dgram' = IF dgram < MaxDgram THEN dgram + 1 ELSE dgram
    /\ call' = [call EXCEPT ![c] = Idle]
    /\ UNCHANGED <<evars, flag, lvars, end_loop>>

\* eloop_exit, from any thread, only sets end_loop: it does not wake the loop.
Exit ==
    /\ ~end_loop
    /\ end_loop' = TRUE
    /\ UNCHANGED <<evars, wvars, lvars, call>>

-----------------------------------------------------------------------------
(* user_eloop_run.                                                         *)

LoopAt(l) == lpc = l /\ call[Loop] = Idle
Listed    == {e \in Events : where[e] = "list"}
Ready(e)  == IF e = Loopback THEN dgram > 0 ELSE signal[e]

\* The lists are walked one after the other: times, always, fds.
Rank(e)   == CASE Kind[e] = "time" -> 1 [] Kind[e] = "always" -> 2 [] OTHER -> 3
Visits(e) == e \in todo /\ \A f \in todo : Rank(e) <= Rank(f)

\* Mutant: the flag stays up from the last pass.
TopKeepsFlag ==
    /\ LoopAt("top")
    /\ lpc' = "take"
    /\ UNCHANGED <<evars, wvars, todo, fdset, timed, hit, cur, ncalls, call, end_loop>>

Top ==
    /\ LoopAt("top")
    /\ flag' = 0
    /\ lpc' = "take"
    /\ UNCHANGED <<evars, dgram, todo, fdset, timed, hit, cur, ncalls, call, end_loop>>

\* eloop_wait_events.  An event added meanwhile goes in front of the walk and
\* stays in the wait list.
Take ==
    /\ LoopAt("take")
    /\ where' = [e \in Events |-> IF where[e] = "wait" THEN "list" ELSE where[e]]
    /\ todo' = {e \in Events : where[e] # "none"}
    /\ lpc' = "arm"
    /\ UNCHANGED <<flags, signal, closes, closed, gone, wvars, fdset, timed, hit, cur,
                   ncalls, call, end_loop>>

\* Raise or drop RUNNING on one event, give its socket or its timeout to select.
Arm(e) ==
    /\ LoopAt("arm") /\ Visits(e)
    /\ todo' = todo \ {e}
    /\ IF "ENABLED" \in flags[e]
       THEN /\ Modify(Loop, "arm", e, {"RUNNING"}, {})
            /\ fdset' = IF Kind[e] = "fd" THEN fdset \cup {e} ELSE fdset
            /\ timed' = (timed \/ Kind[e] # "fd")
       ELSE /\ Modify(Loop, "arm", e, {}, {"RUNNING"})
            /\ UNCHANGED <<fdset, timed>>
    /\ UNCHANGED <<where, signal, closes, closed, wvars, lpc, hit, cur, ncalls, end_loop>>

Armed ==
    /\ LoopAt("arm") /\ todo = {}
    /\ lpc' = "select"
    /\ UNCHANGED <<evars, wvars, todo, fdset, timed, hit, cur, ncalls, call, end_loop>>

\* select returns with the ready sockets, after its timeout, or with an error
\* when it was given a closed socket.
Select ==
    LET bad == fdset \cap closed # {}
        rdy == {e \in fdset : Ready(e)}
    IN  /\ LoopAt("select")
        /\ bad \/ timed \/ rdy # {}
        /\ hit' = IF bad THEN {} ELSE rdy
        /\ lpc' = "woken"
        /\ UNCHANGED <<evars, wvars, todo, fdset, timed, cur, ncalls, call, end_loop>>

Woken ==
    /\ LoopAt("woken")
    /\ flag' = 1
    /\ todo' = Listed /\ fdset' = {} /\ timed' = FALSE
    /\ lpc' = "run"
    /\ UNCHANGED <<evars, dgram, hit, cur, ncalls, call, end_loop>>

\* Mutant: the sockets that select found ready are not looked up.
FiresUnready(e) ==
    /\ "RUNNING" \in flags[e] /\ ~end_loop
    /\ Kind[e] = "time" => signal[e]

\* What the three walks after select ask of an event before they call it.
Fires(e) ==
    /\ "RUNNING" \in flags[e] /\ ~end_loop
    /\ CASE Kind[e] = "time" -> signal[e] [] Kind[e] = "fd" -> e \in hit [] OTHER -> TRUE

Skip(e) ==
    /\ LoopAt("run") /\ Visits(e) /\ ~Fires(e)
    /\ todo' = todo \ {e}
    /\ UNCHANGED <<evars, wvars, lpc, fdset, timed, hit, cur, ncalls, call, end_loop>>

\* A one-shot event gets REMOVE and a periodic timer its next time, which may
\* have passed already; then the callback runs.
Fire(e, due) ==
    LET once == "ONESHOT" \in flags[e]
        tick == Kind[e] = "time" /\ ~once
    IN  /\ LoopAt("run") /\ Visits(e) /\ Fires(e)
        /\ due => tick
        /\ todo' = todo \ {e} /\ cur' = e /\ lpc' = "call"
        /\ signal' = IF tick THEN [signal EXCEPT ![e] = due] ELSE signal
        /\ CASE once  -> Modify(Loop, "fire", e, {"REMOVE"}, {})
             [] tick  -> Modify(Loop, "fire", e, {}, {"REMOVE"})
             [] OTHER -> UNCHANGED <<call, flags, gone>>
        /\ UNCHANGED <<where, closes, closed, wvars, fdset, timed, hit, ncalls,
                       end_loop>>

\* A client's callback returns: it may have read its socket dry; the alarm of
\* del_rtp_endpoint has closed its socket.
Return(e, more) ==
    /\ LoopAt("call") /\ cur = e /\ e # Loopback
    /\ more => Kind[e] = "fd" /\ signal[e]
    /\ signal' = IF Kind[e] = "fd" THEN [signal EXCEPT ![e] = more] ELSE signal
    /\ closed' = IF closes[e] # NoFd THEN closed \cup {closes[e]} ELSE closed
    /\ lpc' = "run" /\ cur' = Loopback /\ ncalls' = 0
    /\ UNCHANGED <<where, flags, closes, gone, wvars, todo, fdset, timed, hit, call, end_loop>>

\* eloop_wakeup_read: take one datagram, then lower the flag.
WakeupRead ==
    /\ LoopAt("call") /\ cur = Loopback
    /\ dgram' = dgram - 1
    /\ lpc' = "read"
    /\ UNCHANGED <<evars, flag, todo, fdset, timed, hit, cur, ncalls, call, end_loop>>

WakeupLower ==
    /\ LoopAt("read")
    /\ flag' = 0
    /\ lpc' = "run"
    /\ UNCHANGED <<evars, dgram, todo, fdset, timed, hit, cur, ncalls, call, end_loop>>

\* Mutant: the list of socket events is not stripped.
StripTimers ==
    LET dead == {e \in Listed : "REMOVE" \in flags[e] /\ Kind[e] # "fd"}
    IN  /\ LoopAt("run") /\ todo = {}
        /\ where' = [e \in Events |-> IF e \in dead THEN "none" ELSE where[e]]
        /\ flags'  = [e \in Events |-> IF e \in dead THEN {} ELSE flags[e]]
        /\ signal' = [e \in Events |-> signal[e] /\ e \notin dead]
        /\ closes' = [e \in Events |-> IF e \in dead THEN NoFd ELSE closes[e]]
        /\ hit' = {}
        /\ lpc' = IF end_loop THEN "done" ELSE "top"
        /\ UNCHANGED <<closed, gone, wvars, todo, fdset, timed, cur, ncalls, call, end_loop>>

\* eloop_strip_events on the three lists, then around or out.
Strip ==
    LET dead == {e \in Listed : "REMOVE" \in flags[e]}
    IN  /\ LoopAt("run") /\ todo = {}
        /\ where' = [e \in Events |-> IF e \in dead THEN "none" ELSE where[e]]
        /\ flags'  = [e \in Events |-> IF e \in dead THEN {} ELSE flags[e]]
        /\ signal' = [e \in Events |-> signal[e] /\ e \notin dead]
        /\ closes' = [e \in Events |-> IF e \in dead THEN NoFd ELSE closes[e]]
        /\ hit' = {}
        /\ lpc' = IF end_loop THEN "done" ELSE "top"
        /\ UNCHANGED <<closed, gone, wvars, todo, fdset, timed, cur, ncalls, call, end_loop>>

-----------------------------------------------------------------------------
\* A time is reached, a socket becomes ready.
Signal(e) ==
    /\ Kind[e] # "always" /\ e # Loopback
    /\ where[e] # "none" /\ ~signal[e]
    /\ signal' = [signal EXCEPT ![e] = TRUE]
    /\ UNCHANGED <<where, flags, closes, closed, gone, wvars, lvars, call, end_loop>>

\* The steps that a call takes once it is made.
CallStep(c) == Store(c) \/ WakeupTest(c) \/ WakeupSet(c) \/ WakeupSend(c)

ApiCall(c) ==
    \/ \E e \in Clients, f \in SUBSET {"ENABLED", "ONESHOT"}, due \in BOOLEAN, fd \in Events :
          AddEvent(c, e, f, due, fd)
    \/ \E e \in Clients : RemoveEvent(c, e)
    \/ \E e \in Clients, on \in BOOLEAN : SetEventEnabled(c, e, on)

LoopStep ==
    \/ Top \/ Take \/ Armed \/ Select \/ Woken \/ WakeupRead \/ WakeupLower \/ Strip
    \/ \E e \in Events : Arm(e) \/ Skip(e)
    \/ \E e \in Events, b \in BOOLEAN : Fire(e, b) \/ Return(e, b)

Next ==
    \/ LoopStep
    \/ \E c \in Callers : CallStep(c) \/ ApiCall(c)
    \/ \E e \in Events, due \in BOOLEAN : ReschedEvent(e, due)
    \/ \E e \in Events : Signal(e)
    \/ Exit

\* The tasks are of one priority and take turns, and a select with a timeout
\* returns.  Nothing says that a time is reached, that a socket becomes ready
\* or that a client calls.
Fairness ==
    /\ WF_vars(LoopStep)
    /\ \A c \in Callers : WF_vars(CallStep(c))

Spec     == Init /\ [][Next]_vars
FairSpec == Spec /\ Fairness
-----------------------------------------------------------------------------
(* Properties.                                                             *)

\* What the loop in select does not know of: an event in the wait list, an
\* event enabled after it was armed.
Unseen(e) ==
    \/ where[e] = "wait"
    \/ /\ where[e] = "list" /\ "ENABLED" \in flags[e]
       /\ IF Kind[e] = "fd" THEN e \notin fdset ELSE ~timed

\* No wakeup is lost although one flag spares most datagrams: while the loop
\* is in select and there is an event it does not know of, a datagram is in
\* the loopback socket, which select was given, or a caller is in eloop_wakeup.
NoLostWakeup ==
    lpc = "select" /\ (\E e \in Events : Unseen(e)) =>
        /\ Loopback \in fdset
        /\ dgram > 0 \/ \E c \in Callers : call[c].pc \in {"wake", "set", "send"}

\* An event that a callback has removed is never called again, even when the
\* select before it found its socket ready or its time reached.
RemovedIsFinal ==
    [][\A e \in Clients :
         Owner[e] = Loop /\ e \in gone /\ lpc = "run" /\ lpc' = "call" => cur' # e]_vars

\* "Removing the event and closing the socket" are safe when the socket is
\* closed by an alarm added after the removal: select is never given a closed
\* socket.
ClosedNeverPolled == lpc = "select" => fdset \cap closed = {}

\* Every event that a thread adds is taken up by the loop.
TakenUp == \A e \in Events : where[e] = "wait" ~> where[e] # "wait" \/ end_loop

\* An enabled event whose socket is ready or whose time is reached is called,
\* however many other events keep the loop busy, unless its owner is changing
\* it.
Due(e) == where[e] # "none" /\ "ENABLED" \in flags[e] /\ signal[e]
Served ==
    \A e \in Clients :
      Due(e) ~> \/ ~Due(e) \/ end_loop \/ (lpc = "call" /\ cur = e)
                \/ call[Owner[e]].op \in {"remove", "enable"}

\* An event of the loop's lists that a callback has removed is freed once the
\* pass is over.  (One that the same callback added before is still in the
\* wait list: it is freed after the next select.)
RemovedIsFreed ==
    \A e \in Clients :
      (Owner[e] = Loop /\ e \in gone /\ where[e] = "list" /\ lpc \in {"call", "run"})
        ~> (e \notin gone \/ where[e] = "none" \/ end_loop)
=============================================================================
