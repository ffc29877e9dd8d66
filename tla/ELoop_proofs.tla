---------------------------- MODULE ELoop_proofs ----------------------------
(***************************************************************************)
(* Proofs about ELoop, for any events, owners and threads.                 *)
(***************************************************************************)
EXTENDS ELoop, TLAPS

-----------------------------------------------------------------------------
(* The inductive invariant.                                                *)

\* A store that is still to come is to the flags of a shared event; the loop
\* moves on only when its own calls are over.
CallInv ==
    /\ \A c \in Callers : call[c].pc = "store" =>
          /\ Shared(call[c].ev)
          /\ call[c].op \in IF c = Loop THEN {"arm", "fire", "resched"} ELSE {"remove", "enable"}
    /\ lpc \notin {"arm", "call"} => call[Loop] = Idle
    /\ lpc = "arm" /\ call[Loop] # Idle => call[Loop].pc = "store" /\ call[Loop].op = "arm"

\* The loopback event is never removed, and every select is given its socket.
LoopbackInv ==
    /\ where[Loopback] # "none" /\ "ENABLED" \in flags[Loopback]
    /\ "REMOVE" \notin flags[Loopback] /\ "ONESHOT" \notin flags[Loopback]
    /\ lpc = "arm" => Loopback \in todo \cup fdset
    /\ lpc = "select" => Loopback \in fdset /\ todo = {}

\* eloop_wakeup_read runs once after a select, and only when there is something
\* to read.
ReadInv ==
    /\ lpc \in {"run", "call", "woken"} /\ Loopback \in hit
         /\ (lpc = "woken" \/ Loopback \in todo) => dgram > 0
    /\ lpc = "call" /\ cur = Loopback => dgram > 0 /\ Loopback \notin todo
    /\ lpc = "read" => Loopback \notin todo

Sending == \E c \in Callers : call[c].pc = "send"
Waking  == dgram > 0 \/ \E c \in Callers : call[c].pc \in {"wake", "set", "send"}

\* Up to the end of select the flag is up only if a datagram is there or on
\* its way: whoever finds it up may rely on it.
FlagInv == lpc \in {"take", "arm", "select"} /\ flag = 1 => dgram > 0 \/ Sending

\* What select will know of an event.
Seen(e) == IF Kind[e] = "fd" THEN e \in fdset ELSE timed

\* What the walk that arms the events has passed by.
Missed(e) ==
    \/ where[e] = "wait"
    \/ where[e] = "list" /\ "ENABLED" \in flags[e] /\ e \notin todo /\ ~Seen(e)

\* A store of the loop that enables an event enables one it has armed.
StoreInv ==
    lpc = "arm" /\ call[Loop].pc = "store" /\ "ENABLED" \in call[Loop].val
      => Seen(call[Loop].ev)

WakeInv ==
    /\ lpc \in {"arm", "select"} /\ (\E e \in Events : Missed(e)) => Waking
    /\ StoreInv

\* What a callback has removed is neither armed nor polled; callbacks run while
\* select has nothing.
GoneInv ==
    /\ lpc \notin {"arm", "select", "woken"} => fdset = {}
    /\ \A e \in gone : Owner[e] = Loop =>
          /\ "RUNNING" \notin flags[e] /\ "ENABLED" \notin flags[e]
          /\ e \notin fdset

\* Only the socket of a removed event is closed or is to be closed.
ClosedInv ==
    /\ \A e \in closed : e \in gone /\ Kind[e] = "fd"
    /\ \A a \in Events : closes[a] # NoFd => closes[a] \in gone /\ Kind[closes[a]] = "fd"

IInv ==
    /\ TypeOK /\ CallInv /\ LoopbackInv /\ ReadInv
    /\ FlagInv /\ WakeInv /\ GoneInv /\ ClosedInv

\* What the threads do, and what the callbacks of the loop may do as well.
CallAction(c) == CallStep(c) \/ ApiCall(c)

-----------------------------------------------------------------------------
(* Types.                                                                  *)

Ops == {"none", "add", "remove", "enable", "resched", "arm", "fire"}

LEMMA CallTypes ==
  /\ Idle \in Call /\ Idle.pc = "idle"
  /\ \A op \in Ops : AfterStore(op) \in Call /\ AfterStore(op).pc \in {"idle", "wake"}
  /\ \A op \in {"resched", "arm", "fire"} : AfterStore(op) = Idle
  /\ \A op \in {"remove", "enable"} : AfterStore(op).pc = "wake"
<1>1. Loopback \in Events
  BY ELoopAssumption
<1> QED BY <1>1 DEF Idle, Call, AfterStore, Ops

LEMMA ModifyTypes ==
  ASSUME TypeOK, NEW c \in Callers, NEW op \in Ops, NEW e \in Events,
         NEW add \in SUBSET Flags, NEW del \in SUBSET Flags,
         Modify(c, op, e, add, del), op = "remove" => e \in Clients
  PROVE  /\ flags' \in [Events -> SUBSET Flags]
         /\ gone' \subseteq Clients
         /\ call' \in [Callers -> Call]
<1> DEFINE val == (flags[e] \cup add) \ del
<1>1. val \in SUBSET Flags
  BY DEF TypeOK
<1>2. CASE Shared(e)
  <2>1. [pc |-> "store", op |-> op, ev |-> e, val |-> val] \in Call
    BY <1>1 DEF Call, Ops
  <2> QED BY <1>2, <2>1 DEF Modify, TypeOK
<1>3. CASE ~Shared(e)
  <2>1. /\ call' = [call EXCEPT ![c] = AfterStore(op)]
        /\ flags' = [flags EXCEPT ![e] = val]
        /\ gone' = IF op = "remove" THEN gone \cup {e} ELSE gone
    BY <1>3 DEF Modify
  <2> HIDE DEF val
  <2> QED BY <1>1, <2>1, CallTypes DEF TypeOK
<1> QED BY <1>2, <1>3

LEMMA ApiTypes ==
  ASSUME TypeOK, CallInv, NEW c \in Callers, CallAction(c)
  PROVE  TypeOK'
<1> USE ELoopAssumption
<1>1. CASE Store(c)
  <2>1. call[c] \in Call /\ call[c].op \in Ops /\ call[c].ev \in Clients
        /\ call[c].val \in SUBSET Flags
    BY <1>1 DEF Store, TypeOK, Call, Ops, CallInv, Shared, Clients
  <2>2. AfterStore(call[c].op) \in Call
    BY <2>1, CallTypes
  <2> QED BY <1>1, <2>1, <2>2 DEF Store, TypeOK, wvars, lvars, Clients
<1>2. CASE WakeupTest(c) \/ WakeupSet(c) \/ WakeupSend(c)
  <2>1. call[c] \in Call
    BY DEF TypeOK
  <2>2. call' \in [Callers -> Call]
    <3>1. /\ Idle \in Call
          /\ [call[c] EXCEPT !.pc = "set"] \in Call
          /\ [call[c] EXCEPT !.pc = "send"] \in Call
      BY <2>1, CallTypes DEF Call
    <3>2. call \in [Callers -> Call]
      BY DEF TypeOK
    <3>3. ASSUME NEW v \in Call PROVE [call EXCEPT ![c] = v] \in [Callers -> Call]
      BY <3>2
    <3>4. \/ call' = [call EXCEPT ![c] = Idle]
          \/ call' = [call EXCEPT ![c] = [call[c] EXCEPT !.pc = "set"]]
          \/ call' = [call EXCEPT ![c] = [call[c] EXCEPT !.pc = "send"]]
      BY <1>2, <3>2 DEF WakeupTest, WakeupSet, WakeupSend
    <3> QED BY <3>1, <3>3, <3>4
  <2>3. flag' \in {0, 1} /\ dgram' \in 0..MaxDgram
    BY <1>2 DEF WakeupTest, WakeupSet, WakeupSend, TypeOK, wvars
  <2> QED BY <1>2, <2>2, <2>3
          DEF WakeupTest, WakeupSet, WakeupSend, TypeOK, evars, lvars
<1>3. ASSUME NEW e \in Clients, NEW f \in SUBSET {"ENABLED", "ONESHOT"}, NEW due \in BOOLEAN,
             NEW fd \in Events, AddEvent(c, e, f, due, fd)
      PROVE  TypeOK'
  <2>1. [Idle EXCEPT !.pc = "wake", !.op = "add"] \in Call
    BY CallTypes DEF Call
  <2>2. call' \in [Callers -> Call]
    BY <1>3, <2>1 DEF AddEvent, TypeOK
  <2>3. ncalls' \in 0..MaxCalls
    BY <1>3 DEF AddEvent, MayCall, CountCall, TypeOK
  <2>4. where' \in [Events -> {"none", "wait", "list"}] /\ flags' \in [Events -> SUBSET Flags]
    BY <1>3 DEF AddEvent, TypeOK, Flags
  <2>5. signal' \in [Events -> BOOLEAN] /\ closes' \in [Events -> Events]
    BY <1>3 DEF AddEvent, TypeOK
  <2> QED BY <1>3, <2>2, <2>3, <2>4, <2>5 DEF AddEvent, TypeOK, wvars
<1>4. ASSUME NEW e \in Clients, RemoveEvent(c, e)
      PROVE  TypeOK'
  <2>1. Modify(c, "remove", e, {"REMOVE"}, {"RUNNING", "ENABLED"})
    BY <1>4 DEF RemoveEvent
  <2>2. flags' \in [Events -> SUBSET Flags] /\ gone' \subseteq Clients
        /\ call' \in [Callers -> Call]
    BY <2>1, ModifyTypes DEF Ops, Flags, Clients
  <2>3. ncalls' \in 0..MaxCalls
    BY <1>4 DEF RemoveEvent, MayCall, CountCall, TypeOK
  <2> QED BY <1>4, <2>2, <2>3 DEF RemoveEvent, TypeOK, wvars
<1>5. ASSUME NEW e \in Clients, NEW on \in BOOLEAN, SetEventEnabled(c, e, on)
      PROVE  TypeOK'
  <2>1. \/ Modify(c, "enable", e, {"ENABLED"}, {})
        \/ Modify(c, "enable", e, {}, {"ENABLED"})
    BY <1>5 DEF SetEventEnabled
  <2>2. flags' \in [Events -> SUBSET Flags] /\ gone' \subseteq Clients
        /\ call' \in [Callers -> Call]
    BY <2>1, ModifyTypes DEF Ops, Flags, Clients
  <2>3. ncalls' \in 0..MaxCalls
    BY <1>5 DEF SetEventEnabled, MayCall, CountCall, TypeOK
  <2> QED BY <1>5, <2>2, <2>3 DEF SetEventEnabled, TypeOK, wvars
<1> QED BY <1>1, <1>2, <1>3, <1>4, <1>5 DEF CallAction, CallStep, ApiCall

LEMMA LoopTypes ==
  ASSUME TypeOK, ReadInv, LoopStep
  PROVE  TypeOK'
<1> USE ELoopAssumption
<1>0. Loop \in Callers
  BY DEF Callers
<1>1. CASE Top \/ Armed \/ Woken \/ WakeupLower
  BY <1>1 DEF Top, Armed, Woken, WakeupLower, TypeOK, evars, wvars, Listed
<1>2. CASE Take
  BY <1>2 DEF Take, TypeOK, wvars
<1>3. CASE Select
  BY <1>3 DEF Select, TypeOK, evars, wvars
<1>4. CASE WakeupRead
  <2>1. dgram > 0
    BY <1>4 DEF WakeupRead, LoopAt, ReadInv
  <2>2. dgram' \in 0..MaxDgram
    BY <1>4, <2>1 DEF WakeupRead, TypeOK
  <2> QED BY <1>4, <2>2 DEF WakeupRead, TypeOK, evars
<1>5. CASE Strip
  BY <1>5 DEF Strip, TypeOK, wvars, NoFd
<1>6. ASSUME NEW e \in Events, Arm(e)
      PROVE  TypeOK'
  <2>1. Modify(Loop, "arm", e, {"RUNNING"}, {}) \/ Modify(Loop, "arm", e, {}, {"RUNNING"})
    BY <1>6 DEF Arm
  <2>2. flags' \in [Events -> SUBSET Flags] /\ gone' \subseteq Clients
        /\ call' \in [Callers -> Call]
    BY <1>0, <2>1, ModifyTypes DEF Ops, Flags
  <2>3. /\ fdset' = fdset \/ fdset' = fdset \cup {e}
        /\ timed' = timed \/ timed' = (timed \/ Kind[e] # "fd")
        /\ todo' = todo \ {e}
    BY <1>6, Zenon DEF Arm
  <2>4. fdset \subseteq Events /\ todo \subseteq Events /\ timed \in BOOLEAN
    BY DEF TypeOK
  <2>5. fdset' \subseteq Events /\ todo' \subseteq Events
    BY <2>3, <2>4
  <2>6. timed' \in BOOLEAN
    BY <2>3, <2>4, Zenon
  <2> QED BY <1>6, <2>2, <2>5, <2>6 DEF Arm, TypeOK, wvars
<1>7. ASSUME NEW e \in Events, Skip(e)
      PROVE  TypeOK'
  BY <1>7 DEF Skip, TypeOK, evars, wvars
<1>8. ASSUME NEW e \in Events, NEW due \in BOOLEAN, Fire(e, due)
      PROVE  TypeOK'
  <2>1. \/ Modify(Loop, "fire", e, {"REMOVE"}, {}) \/ Modify(Loop, "fire", e, {}, {"REMOVE"})
        \/ UNCHANGED <<call, flags, gone>>
    BY <1>8 DEF Fire
  <2>2. flags' \in [Events -> SUBSET Flags] /\ gone' \subseteq Clients
        /\ call' \in [Callers -> Call]
    BY <1>0, <2>1, ModifyTypes DEF Ops, Flags, TypeOK
  <2>3. signal' \in [Events -> BOOLEAN]
    BY <1>8 DEF Fire, TypeOK
  <2> QED BY <1>8, <2>2, <2>3 DEF Fire, TypeOK, wvars
<1>9. ASSUME NEW e \in Events, NEW more \in BOOLEAN, Return(e, more)
      PROVE  TypeOK'
  <2>1. signal' \in [Events -> BOOLEAN]
    BY <1>9 DEF Return, TypeOK
  <2>2. closed' \subseteq Clients
    BY <1>9 DEF Return, TypeOK, Clients, NoFd
  <2> QED BY <1>9, <2>1, <2>2 DEF Return, TypeOK, wvars
<1> QED BY <1>1, <1>2, <1>3, <1>4, <1>5, <1>6, <1>7, <1>8, <1>9 DEF LoopStep

LEMMA OtherTypes ==
  ASSUME TypeOK,
         \/ \E e \in Events, due \in BOOLEAN : ReschedEvent(e, due)
         \/ \E e \in Events : Signal(e)
         \/ Exit
  PROVE  TypeOK'
<1>1. ASSUME NEW e \in Events, NEW due \in BOOLEAN, ReschedEvent(e, due)
      PROVE  TypeOK'
  <2>1. flags' \in [Events -> SUBSET Flags] /\ gone' \subseteq Clients
        /\ call' \in [Callers -> Call]
    BY <1>1, ModifyTypes DEF ReschedEvent, Ops, Flags, Callers
  <2>2. ncalls' \in 0..MaxCalls
    BY <1>1, ELoopAssumption DEF ReschedEvent, MayCall, CountCall, TypeOK
  <2>3. signal' \in [Events -> BOOLEAN]
    BY <1>1 DEF ReschedEvent, TypeOK
  <2> QED BY <1>1, <2>1, <2>2, <2>3 DEF ReschedEvent, TypeOK, wvars
<1>2. ASSUME NEW e \in Events, Signal(e)
      PROVE  TypeOK'
  BY <1>2 DEF Signal, TypeOK, wvars, lvars
<1>3. CASE Exit
  BY <1>3 DEF Exit, TypeOK, evars, wvars, lvars
<1> QED BY <1>1, <1>2, <1>3

-----------------------------------------------------------------------------
(* Calls under way.                                                        *)

\* Of a shared event only the load has been done.
LEMMA ModifyShared ==
  ASSUME TypeOK, NEW c \in Callers, NEW e \in Events, NEW op, NEW add, NEW del,
         Modify(c, op, e, add, del), Shared(e)
  PROVE  /\ \A d \in Callers \ {c} : call'[d] = call[d]
         /\ call'[c] = [pc |-> "store", op |-> op, ev |-> e, val |-> (flags[e] \cup add) \ del]
         /\ UNCHANGED <<flags, gone>>
BY DEF Modify, TypeOK

\* Of any other event the flags are written at once.
LEMMA ModifyOwn ==
  ASSUME TypeOK, NEW c \in Callers, NEW e \in Events, NEW op, NEW add, NEW del,
         Modify(c, op, e, add, del), ~Shared(e)
  PROVE  /\ \A d \in Callers \ {c} : call'[d] = call[d]
         /\ call'[c] = AfterStore(op)
         /\ \A f \in Events \ {e} : flags'[f] = flags[f]
         /\ flags'[e] = (flags[e] \cup add) \ del
         /\ gone' = IF op = "remove" THEN gone \cup {e} ELSE gone
<1>1. DOMAIN call = Callers /\ DOMAIN flags = Events
  BY DEF TypeOK
<1>2. /\ call' = [call EXCEPT ![c] = AfterStore(op)]
      /\ flags' = [flags EXCEPT ![e] = (flags[e] \cup add) \ del]
      /\ gone' = IF op = "remove" THEN gone \cup {e} ELSE gone
  BY DEF Modify
<1> QED BY <1>1, <1>2

\* The steps of the loop that leave the calls alone.
QuietLoop ==
    \/ Top \/ Take \/ Armed \/ Select \/ Woken \/ WakeupRead \/ WakeupLower \/ Strip
    \/ \E e \in Events : Skip(e)
    \/ \E e \in Events, b \in BOOLEAN : Return(e, b)

LEMMA QuietCalls ==
  ASSUME QuietLoop
  PROVE  call' = call /\ call[Loop] = Idle
BY DEF QuietLoop, Top, Take, Armed, Select, Woken, WakeupRead, WakeupLower, Strip, Skip,
       Return, LoopAt

LEMMA ApiCalls ==
  ASSUME TypeOK, CallInv, NEW c \in Callers, CallAction(c)
  PROVE  CallInv'
<1> USE ELoopAssumption DEF CallInv
<1>0. call \in [Callers -> Call] /\ Loop \in Callers
  BY DEF TypeOK, Callers
<1>1. CASE Store(c)
  <2>1. lpc' = lpc /\ call' = [call EXCEPT ![c] = AfterStore(call[c].op)] /\ call[c].pc = "store"
    BY <1>1 DEF Store, lvars
  <2>2. call[c].op \in IF c = Loop THEN {"arm", "fire", "resched"} ELSE {"remove", "enable"}
    BY <2>1
  <2>3. c = Loop => AfterStore(call[c].op) = Idle
    BY <2>2, CallTypes
  <2>4. AfterStore(call[c].op).pc # "store"
    BY <2>2, CallTypes DEF Ops
  <2>5. lpc \notin {"arm", "call"} => c # Loop
    BY <2>1, CallTypes
  <2> QED BY <1>0, <2>1, <2>3, <2>4, <2>5
<1>2. CASE WakeupTest(c) \/ WakeupSet(c) \/ WakeupSend(c)
  <2>1. /\ lpc' = lpc /\ \A d \in Callers \ {c} : call'[d] = call[d]
        /\ call[c].pc \in {"wake", "set", "send"}
    BY <1>0, <1>2 DEF WakeupTest, WakeupSet, WakeupSend, lvars
  <2>2. call'[c].pc # "store"
    BY <1>0, <1>2, CallTypes DEF WakeupTest, WakeupSet, WakeupSend, Call
  <2>3. c = Loop => lpc = "call"
    BY <2>1, CallTypes
  <2> QED BY <1>0, <2>1, <2>2, <2>3
<1>3. ASSUME NEW e \in Clients, NEW f \in SUBSET {"ENABLED", "ONESHOT"}, NEW due \in BOOLEAN,
             NEW fd \in Events, AddEvent(c, e, f, due, fd)
      PROVE  CallInv'
  <2>1. /\ lpc' = lpc /\ \A d \in Callers \ {c} : call'[d] = call[d]
        /\ call'[c].pc = "wake" /\ (c = Loop => lpc = "call")
    BY <1>0, <1>3, CallTypes DEF AddEvent, MayCall, Call
  <2> QED BY <1>0, <2>1
<1>4. ASSUME NEW e \in Clients, NEW op \in {"remove", "enable"},
             NEW add \in SUBSET Flags, NEW del \in SUBSET Flags,
             MayCall(c), Holds(c, e), Modify(c, op, e, add, del), lpc' = lpc
      PROVE  CallInv'
  <2>1. c = Loop => lpc = "call" /\ ~Shared(e)
    BY <1>4 DEF MayCall, Holds, Shared
  <2>2. \A d \in Callers \ {c} : call'[d] = call[d]
    BY <1>4, ModifyShared, ModifyOwn DEF Clients
  <2>3. CASE Shared(e)
    <3>0. call'[c] = [pc |-> "store", op |-> op, ev |-> e, val |-> (flags[e] \cup add) \ del]
      BY <1>4, <2>3, ModifyShared DEF Clients
    <3>1. call'[c].pc = "store" /\ call'[c].op = op /\ call'[c].ev = e
      BY <3>0
    <3> QED BY <1>0, <1>4, <2>1, <2>2, <2>3, <3>1 DEF Shared
  <2>4. CASE ~Shared(e)
    <3>0. call'[c] = AfterStore(op)
      BY <1>4, <2>4, ModifyOwn DEF Clients
    <3>1. call'[c].pc = "wake"
      BY <3>0, CallTypes
    <3> QED BY <1>0, <1>4, <2>1, <2>2, <3>1
  <2> QED BY <2>3, <2>4
<1>5. ASSUME NEW e \in Clients, RemoveEvent(c, e) \/ \E on \in BOOLEAN : SetEventEnabled(c, e, on)
      PROVE  CallInv'
  BY <1>4, <1>5 DEF RemoveEvent, SetEventEnabled, Flags
<1> QED BY <1>1, <1>2, <1>3, <1>5 DEF CallAction, CallStep, ApiCall

LEMMA LoopCalls ==
  ASSUME TypeOK, CallInv, LoopStep \/ \E e \in Events, due \in BOOLEAN : ReschedEvent(e, due)
  PROVE  CallInv'
<1> USE ELoopAssumption DEF CallInv
<1>0. call \in [Callers -> Call] /\ Loop \in Callers
  BY DEF TypeOK, Callers
<1>1. CASE QuietLoop
  BY <1>1, QuietCalls, CallTypes DEF Shared
<1>2. ASSUME NEW e \in Events, NEW op \in {"arm", "fire", "resched"},
             NEW add \in SUBSET Flags, NEW del \in SUBSET Flags,
             Modify(Loop, op, e, add, del),
             lpc' = "call" \/ (lpc' = "arm" /\ op = "arm")
      PROVE  CallInv'
  <2>1. \A d \in Callers \ {Loop} : call'[d] = call[d]
    BY <1>0, <1>2, ModifyShared, ModifyOwn
  <2>2. CASE Shared(e)
    <3>0. call'[Loop] = [pc |-> "store", op |-> op, ev |-> e, val |-> (flags[e] \cup add) \ del]
      BY <1>0, <1>2, <2>2, ModifyShared
    <3>1. call'[Loop].pc = "store" /\ call'[Loop].op = op /\ call'[Loop].ev = e
      BY <3>0
    <3> QED BY <1>0, <1>2, <2>1, <2>2, <3>1 DEF Shared
  <2>3. CASE ~Shared(e)
    <3>0. call'[Loop] = AfterStore(op)
      BY <1>0, <1>2, <2>3, ModifyOwn
    <3>1. call'[Loop] = Idle
      BY <3>0, CallTypes
    <3> QED BY <1>0, <1>2, <2>1, <3>1, CallTypes DEF Shared
  <2> QED BY <2>2, <2>3
<1>3. ASSUME NEW e \in Events, Arm(e)
      PROVE  CallInv'
  BY <1>2, <1>3 DEF Arm, LoopAt, Flags
<1>4. ASSUME NEW e \in Events, NEW due \in BOOLEAN, Fire(e, due)
      PROVE  CallInv'
  <2>1. \/ Modify(Loop, "fire", e, {"REMOVE"}, {}) \/ Modify(Loop, "fire", e, {}, {"REMOVE"})
        \/ UNCHANGED <<call, flags, gone>>
    BY <1>4 DEF Fire
  <2>2. lpc' = "call"
    BY <1>4 DEF Fire
  <2> QED BY <1>2, <2>1, <2>2 DEF Flags, Shared
<1>5. ASSUME NEW e \in Events, NEW due \in BOOLEAN, ReschedEvent(e, due)
      PROVE  CallInv'
  BY <1>2, <1>5 DEF ReschedEvent, MayCall, Flags
<1> QED BY <1>1, <1>3, <1>4, <1>5 DEF LoopStep, QuietLoop

-----------------------------------------------------------------------------
(* The loopback event.                                                     *)

\* A call of the API leaves the walk of the loop and the loopback event alone.
LEMMA ApiFrame ==
  ASSUME TypeOK, CallInv, NEW c \in Callers, CallAction(c)
  PROVE  /\ UNCHANGED <<lpc, todo, fdset, timed, hit, cur>>
         /\ where'[Loopback] = where[Loopback] /\ flags'[Loopback] = flags[Loopback]
<1>0. Loopback \in Events
  BY ELoopAssumption
<1>1. CASE Store(c)
  <2>1. call[c].ev # Loopback
    BY <1>1 DEF Store, CallInv, Shared
  <2> QED BY <1>0, <1>1, <2>1 DEF Store, TypeOK, lvars
<1>2. CASE WakeupTest(c) \/ WakeupSet(c) \/ WakeupSend(c)
  BY <1>2 DEF WakeupTest, WakeupSet, WakeupSend, evars, lvars
<1>3. ASSUME NEW e \in Clients, NEW f \in SUBSET {"ENABLED", "ONESHOT"}, NEW due \in BOOLEAN,
             NEW fd \in Events, AddEvent(c, e, f, due, fd)
      PROVE  /\ UNCHANGED <<lpc, todo, fdset, timed, hit, cur>>
             /\ where'[Loopback] = where[Loopback] /\ flags'[Loopback] = flags[Loopback]
  BY <1>0, <1>3 DEF AddEvent, TypeOK, Clients
<1>4. ASSUME NEW e \in Clients, NEW op, NEW add, NEW del, Modify(c, op, e, add, del)
      PROVE  flags'[Loopback] = flags[Loopback]
  <2>1. e \in Events /\ Loopback \in Events \ {e}
    BY <1>0 DEF Clients
  <2>2. CASE Shared(e)
    BY <1>4, <2>1, <2>2, ModifyShared
  <2>3. CASE ~Shared(e)
    BY <1>4, <2>1, <2>3, ModifyOwn
  <2> QED BY <2>2, <2>3
<1>5. ASSUME NEW e \in Clients, RemoveEvent(c, e) \/ \E on \in BOOLEAN : SetEventEnabled(c, e, on)
      PROVE  /\ UNCHANGED <<lpc, todo, fdset, timed, hit, cur>>
             /\ where'[Loopback] = where[Loopback] /\ flags'[Loopback] = flags[Loopback]
  BY <1>4, <1>5 DEF RemoveEvent, SetEventEnabled
<1> QED BY <1>1, <1>2, <1>3, <1>5 DEF CallAction, CallStep, ApiCall

\* The loop writes the flags of an event where it arms it and where it calls it.
LEMMA LoopModify ==
  ASSUME TypeOK, NEW e \in Events, NEW op \in {"arm", "fire", "resched"}, NEW add, NEW del,
         Modify(Loop, op, e, add, del)
  PROVE  /\ gone' = gone
         /\ \A f \in Events \ {e} : flags'[f] = flags[f]
         /\ flags'[e] \in {flags[e], (flags[e] \cup add) \ del}
         /\ ~Shared(e) => flags'[e] = (flags[e] \cup add) \ del
<1>0. Loop \in Callers
  BY DEF Callers
<1>1. CASE Shared(e)
  BY <1>0, <1>1, ModifyShared
<1>2. CASE ~Shared(e)
  BY <1>0, <1>2, ModifyOwn
<1> QED BY <1>1, <1>2

LEMMA LoopbackStays ==
  ASSUME TypeOK, CallInv, LoopbackInv, Next
  PROVE  LoopbackInv'
<1> USE DEF LoopbackInv
<1>0. Loopback \in Events /\ Kind[Loopback] = "fd"
  BY ELoopAssumption
<1>1. ASSUME NEW c \in Callers, CallAction(c)
      PROVE  LoopbackInv'
  BY <1>1, ApiFrame
<1>2. CASE Top \/ Armed \/ Select \/ Woken \/ WakeupRead \/ WakeupLower
  BY <1>0, <1>2 DEF Top, Armed, Select, Woken, WakeupRead, WakeupLower, evars, LoopAt
<1>3. CASE Take
  BY <1>0, <1>3 DEF Take, TypeOK
<1>4. CASE Strip
  BY <1>0, <1>4 DEF Strip, TypeOK, LoopAt
<1>5. ASSUME NEW e \in Events, Arm(e)
      PROVE  LoopbackInv'
  <2>1. Loopback \in todo' \cup fdset' /\ lpc' = "arm" /\ where' = where
    BY <1>0, <1>5 DEF Arm, LoopAt
  <2>2. flags'[Loopback] \in {flags[Loopback], flags[Loopback] \cup {"RUNNING"},
                              flags[Loopback] \ {"RUNNING"}}
    BY <1>0, <1>5, LoopModify DEF Arm
  <2> QED BY <2>1, <2>2
<1>6. ASSUME NEW e \in Events, NEW b \in BOOLEAN, Skip(e) \/ Return(e, b)
      PROVE  LoopbackInv'
  BY <1>6 DEF Skip, Return, evars, LoopAt
<1>7. ASSUME NEW e \in Events, NEW due \in BOOLEAN, Fire(e, due)
      PROVE  LoopbackInv'
  <2>1. lpc' = "call" /\ where' = where
    BY <1>7 DEF Fire
  <2>2. flags'[Loopback] = flags[Loopback]
    <3>1. CASE e = Loopback
      BY <1>0, <1>7, <3>1 DEF Fire
    <3>2. CASE e # Loopback
      BY <1>0, <1>7, <3>2, LoopModify DEF Fire
    <3> QED BY <3>1, <3>2
  <2> QED BY <2>1, <2>2
<1>8. ASSUME NEW e \in Events, NEW due \in BOOLEAN, ReschedEvent(e, due)
      PROVE  LoopbackInv'
  <2>1. lpc' = lpc /\ lpc = "call" /\ where' = where /\ e # Loopback
    BY <1>0, <1>8 DEF ReschedEvent, MayCall
  <2>2. flags'[Loopback] = flags[Loopback]
    BY <1>0, <1>8, <2>1, LoopModify DEF ReschedEvent
  <2> QED BY <2>1, <2>2
<1>9. CASE Exit \/ \E e \in Events : Signal(e)
  BY <1>9 DEF Exit, Signal, evars, lvars
<1> QED BY <1>1, <1>2, <1>3, <1>4, <1>5, <1>6, <1>7, <1>8, <1>9
        DEF Next, LoopStep, CallAction

-----------------------------------------------------------------------------
(* Reading the loopback socket.                                            *)

LEMMA ReadStays ==
  ASSUME TypeOK, CallInv, ReadInv, Next
  PROVE  ReadInv'
<1> USE DEF ReadInv
<1>0. Loopback \in Events /\ Kind[Loopback] = "fd" /\ dgram \in Nat
  BY ELoopAssumption DEF TypeOK
<1>1. ASSUME NEW c \in Callers, CallAction(c)
      PROVE  ReadInv'
  <2>1. dgram' \in Nat /\ dgram' >= dgram
    BY <1>0, <1>1 DEF CallAction, CallStep, ApiCall, Store, WakeupTest, WakeupSet, WakeupSend,
                      AddEvent, RemoveEvent, SetEventEnabled, wvars
  <2>2. UNCHANGED <<lpc, todo, hit, cur>>
    BY <1>1, ApiFrame
  <2> QED BY <1>0, <2>1, <2>2
<1>2. CASE Top \/ Take \/ Armed \/ Strip
  BY <1>2 DEF Top, Take, Armed, Strip
<1>3. CASE Select
  <2>1. Loopback \in hit' => dgram > 0
    BY <1>3 DEF Select, Ready
  <2> QED BY <1>3, <2>1 DEF Select, wvars
<1>4. CASE Woken \/ WakeupRead \/ WakeupLower
  BY <1>4 DEF Woken, WakeupRead, WakeupLower, LoopAt
<1>5. ASSUME NEW e \in Events, Arm(e) \/ Skip(e)
      PROVE  ReadInv'
  BY <1>5 DEF Arm, Skip, LoopAt, wvars
<1>6. ASSUME NEW e \in Events, NEW due \in BOOLEAN, Fire(e, due)
      PROVE  ReadInv'
  <2>1. /\ lpc = "run" /\ lpc' = "call" /\ cur' = e /\ todo' = todo \ {e} /\ e \in todo
        /\ UNCHANGED <<hit, dgram>>
    BY <1>6 DEF Fire, LoopAt, Visits, wvars
  <2>2. e = Loopback => Loopback \in hit
    BY <1>0, <1>6 DEF Fire, Fires
  <2> QED BY <2>1, <2>2
<1>7. ASSUME NEW e \in Events, NEW b \in BOOLEAN, Return(e, b) \/ ReschedEvent(e, b)
      PROVE  ReadInv'
  BY <1>7 DEF Return, ReschedEvent, MayCall, LoopAt, wvars
<1>8. CASE Exit \/ \E e \in Events : Signal(e)
  BY <1>8 DEF Exit, Signal, wvars, lvars
<1> QED BY <1>1, <1>2, <1>3, <1>4, <1>5, <1>6, <1>7, <1>8 DEF Next, LoopStep, CallAction

-----------------------------------------------------------------------------
(* Removed events.                                                         *)

LEMMA ApiGone ==
  ASSUME TypeOK, CallInv, GoneInv, NEW c \in Callers, CallAction(c)
  PROVE  GoneInv'
<1> USE DEF GoneInv
<1>0. UNCHANGED <<lpc, fdset>> /\ gone \subseteq Clients /\ DOMAIN flags = Events
  BY ApiFrame DEF TypeOK
<1>1. CASE Store(c)
  <2>1. Shared(call[c].ev)
    BY <1>1 DEF Store, CallInv
  <2>2. /\ \A f \in Clients : f # call[c].ev => flags'[f] = flags[f]
        /\ gone' \subseteq gone \cup {call[c].ev}
    BY <1>0, <1>1 DEF Store, Clients
  <2>3. Owner[call[c].ev] # Loop
    BY <2>1 DEF Shared
  <2> QED BY <1>0, <2>2, <2>3
<1>2. CASE WakeupTest(c) \/ WakeupSet(c) \/ WakeupSend(c)
  BY <1>0, <1>2 DEF WakeupTest, WakeupSet, WakeupSend, evars
<1>3. ASSUME NEW e \in Clients, NEW f \in SUBSET {"ENABLED", "ONESHOT"}, NEW due \in BOOLEAN,
             NEW fd \in Events, AddEvent(c, e, f, due, fd)
      PROVE  GoneInv'
  BY <1>0, <1>3 DEF AddEvent, Clients
<1>4. ASSUME NEW e \in Clients, RemoveEvent(c, e)
      PROVE  GoneInv'
  <2>0. Modify(c, "remove", e, {"REMOVE"}, {"RUNNING", "ENABLED"}) /\ e \in Events
    BY <1>4 DEF RemoveEvent, Clients
  <2>1. CASE Shared(e)
    BY <1>0, <2>0, <2>1, ModifyShared
  <2>2. CASE ~Shared(e)
    <3>1. c = Loop
      BY <1>4, <2>2 DEF RemoveEvent, Holds, Shared, Clients
    <3>2. fdset = {}
      BY <1>4, <3>1 DEF RemoveEvent, MayCall
    <3>3. /\ \A f \in Events \ {e} : flags'[f] = flags[f]
          /\ flags'[e] = (flags[e] \cup {"REMOVE"}) \ {"RUNNING", "ENABLED"}
          /\ gone' = gone \cup {e}
      BY <2>0, <2>2, ModifyOwn
    <3> QED BY <1>0, <3>2, <3>3 DEF Clients
  <2> QED BY <2>1, <2>2
<1>5. ASSUME NEW e \in Clients, NEW on \in BOOLEAN, SetEventEnabled(c, e, on)
      PROVE  GoneInv'
  <2>0. /\ e \in Events /\ e \notin gone
        /\ \/ Modify(c, "enable", e, {"ENABLED"}, {})
           \/ Modify(c, "enable", e, {}, {"ENABLED"})
    BY <1>5 DEF SetEventEnabled, Clients, Holds
  <2>1. gone' = gone /\ \A f \in Events \ {e} : flags'[f] = flags[f]
    <3>1. CASE Shared(e)
      BY <2>0, <3>1, ModifyShared
    <3>2. CASE ~Shared(e)
      BY <2>0, <3>2, ModifyOwn
    <3> QED BY <3>1, <3>2
  <2> QED BY <1>0, <2>0, <2>1 DEF Clients
<1> QED BY <1>1, <1>2, <1>3, <1>4, <1>5 DEF CallAction, CallStep, ApiCall

LEMMA GoneStays ==
  ASSUME TypeOK, CallInv, GoneInv, Next
  PROVE  GoneInv'
<1> USE DEF GoneInv
<1>0. gone \subseteq Clients /\ gone \subseteq Events /\ DOMAIN flags = Events
  BY DEF TypeOK, Clients
<1>1. ASSUME NEW c \in Callers, CallAction(c)
      PROVE  GoneInv'
  BY <1>1, ApiGone
<1>2. CASE Top \/ Take \/ Armed \/ Select \/ Woken \/ WakeupRead \/ WakeupLower
  BY <1>2 DEF Top, Take, Armed, Select, Woken, WakeupRead, WakeupLower, LoopAt, evars
<1>3. CASE Strip
  BY <1>0, <1>3 DEF Strip, LoopAt
<1>4. ASSUME NEW e \in Events, Arm(e)
      PROVE  GoneInv'
  <2>0. lpc' = "arm"
    BY <1>4 DEF Arm, LoopAt
  <2>1. CASE "ENABLED" \in flags[e]
    <3>1. Modify(Loop, "arm", e, {"RUNNING"}, {}) /\ fdset' \subseteq fdset \cup {e}
      BY <1>4, <2>1 DEF Arm
    <3>2. gone' = gone /\ \A f \in Events \ {e} : flags'[f] = flags[f]
      BY <3>1, LoopModify
    <3> QED BY <1>0, <2>0, <2>1, <3>1, <3>2
  <2>2. CASE "ENABLED" \notin flags[e]
    <3>1. Modify(Loop, "arm", e, {}, {"RUNNING"}) /\ fdset' = fdset
      BY <1>4, <2>2 DEF Arm
    <3>2. /\ gone' = gone /\ \A f \in Events \ {e} : flags'[f] = flags[f]
          /\ flags'[e] \in {flags[e], flags[e] \ {"RUNNING"}}
      BY <3>1, LoopModify
    <3> QED BY <1>0, <2>0, <3>1, <3>2
  <2> QED BY <2>1, <2>2
<1>5. ASSUME NEW e \in Events, NEW b \in BOOLEAN, Skip(e) \/ Return(e, b)
      PROVE  GoneInv'
  BY <1>5 DEF Skip, Return, LoopAt, evars
<1>6. ASSUME NEW e \in Events, NEW due \in BOOLEAN, Fire(e, due) \/ ReschedEvent(e, due)
      PROVE  GoneInv'
  <2>1. /\ UNCHANGED fdset /\ lpc' \notin {"arm", "select", "woken"}
        /\ lpc \notin {"arm", "select", "woken"}
    BY <1>6 DEF Fire, ReschedEvent, MayCall, LoopAt
  <2>2. /\ gone' = gone /\ \A f \in Events \ {e} : flags'[f] = flags[f]
        /\ flags'[e] \in {flags[e], flags[e] \cup {"REMOVE"}, flags[e] \ {"REMOVE"}}
    BY <1>6, LoopModify DEF Fire, ReschedEvent
  <2> QED BY <1>0, <2>1, <2>2
<1>7. CASE Exit \/ \E e \in Events : Signal(e)
  BY <1>7 DEF Exit, Signal, evars, lvars
<1> QED BY <1>1, <1>2, <1>3, <1>4, <1>5, <1>6, <1>7 DEF Next, LoopStep, CallAction

\* Calls only add to gone, except that adding an event again takes it off.
LEMMA ClosedStays ==
  ASSUME TypeOK, CallInv, ClosedInv, Next
  PROVE  ClosedInv'
<1> USE DEF ClosedInv
<1>0. closes \in [Events -> Events]
  BY DEF TypeOK
<1>1. ASSUME gone \subseteq gone', UNCHANGED <<closed, closes>>
      PROVE  ClosedInv'
  BY <1>1
<1>2. ASSUME NEW c \in Callers, CallAction(c)
      PROVE  ClosedInv'
  <2>1. CASE CallStep(c)
    BY <1>1, <2>1 DEF CallStep, Store, WakeupTest, WakeupSet, WakeupSend, evars
  <2>2. ASSUME NEW e \in Clients, NEW f \in SUBSET {"ENABLED", "ONESHOT"}, NEW due \in BOOLEAN,
               NEW fd \in Events, AddEvent(c, e, f, due, fd)
        PROVE  ClosedInv'
    <3>1. fd # NoFd => fd \in gone \ {e} /\ Kind[fd] = "fd"
      BY <2>2 DEF AddEvent
    <3>2. /\ closed' = closed \ {e} /\ gone' = gone \ {e} /\ closes' = [closes EXCEPT ![e] = fd]
          /\ \A a \in Events : closes[a] # e
      BY <2>2 DEF AddEvent
    <3> QED BY <1>0, <3>1, <3>2 DEF Clients
  <2>3. ASSUME NEW e \in Clients, RemoveEvent(c, e) \/ \E on \in BOOLEAN : SetEventEnabled(c, e, on)
        PROVE  ClosedInv'
    <3>1. gone \subseteq gone' /\ UNCHANGED <<closed, closes>>
      BY <2>3 DEF RemoveEvent, SetEventEnabled, Modify
    <3> QED BY <1>1, <3>1
  <2> QED BY <1>2, <2>1, <2>2, <2>3 DEF CallAction, ApiCall
<1>3. CASE Top \/ Take \/ Armed \/ Select \/ Woken \/ WakeupRead \/ WakeupLower
  BY <1>1, <1>3 DEF Top, Take, Armed, Select, Woken, WakeupRead, WakeupLower, evars
<1>4. CASE Strip
  BY <1>0, <1>4 DEF Strip
<1>5. ASSUME NEW e \in Events, NEW b \in BOOLEAN, Return(e, b)
      PROVE  ClosedInv'
  BY <1>0, <1>5 DEF Return
<1>6. ASSUME NEW e \in Events, NEW b \in BOOLEAN,
             Arm(e) \/ Skip(e) \/ Fire(e, b) \/ ReschedEvent(e, b)
      PROVE  ClosedInv'
  <2>1. UNCHANGED <<closed, closes>>
    BY <1>6 DEF Arm, Skip, Fire, ReschedEvent, evars
  <2>2. gone' = gone
    BY <1>6, LoopModify DEF Arm, Skip, Fire, ReschedEvent, evars
  <2> QED BY <1>1, <2>1, <2>2
<1>7. CASE Exit \/ \E e \in Events : Signal(e)
  BY <1>1, <1>7 DEF Exit, Signal, evars
<1> QED BY <1>2, <1>3, <1>4, <1>5, <1>6, <1>7 DEF Next, LoopStep, CallAction

-----------------------------------------------------------------------------
(* Wakeups.                                                                *)

\* A call leaves the others where they are.
LEMMA OneCaller ==
  ASSUME TypeOK, NEW c \in Callers, CallAction(c)
  PROVE  \A d \in Callers \ {c} : call'[d] = call[d]
<1>0. DOMAIN call = Callers
  BY DEF TypeOK
<1>1. CASE CallStep(c)
  BY <1>0, <1>1 DEF CallStep, Store, WakeupTest, WakeupSet, WakeupSend
<1>2. CASE ApiCall(c)
  BY <1>0, <1>2 DEF ApiCall, AddEvent, RemoveEvent, SetEventEnabled, Modify
<1> QED BY <1>1, <1>2 DEF CallAction

\* Before its last step a caller of eloop_wakeup is not sending.
LEMMA SendingStays ==
  ASSUME TypeOK, NEW c \in Callers, CallAction(c), Sending
  PROVE  Sending' \/ dgram' > 0
<1>1. PICK d \in Callers : call[d].pc = "send"
  BY DEF Sending
<1>2. CASE d # c
  BY <1>1, <1>2, OneCaller DEF Sending
<1>3. CASE d = c
  <2>1. call[c].pc # "idle" /\ call[c] # Idle
    BY <1>1, <1>3, CallTypes
  <2>2. WakeupSend(c)
    BY <1>1, <1>3, <2>1 DEF CallAction, CallStep, ApiCall, Store, WakeupTest, WakeupSet,
                            AddEvent, RemoveEvent, SetEventEnabled, MayCall
  <2> QED BY <2>2, ELoopAssumption DEF WakeupSend, TypeOK
<1> QED BY <1>2, <1>3

LEMMA FlagStays ==
  ASSUME TypeOK, CallInv, FlagInv, Next
  PROVE  FlagInv'
<1> USE DEF FlagInv
<1>0. dgram \in Nat /\ call \in [Callers -> Call] /\ Loop \in Callers
  BY ELoopAssumption DEF TypeOK, Callers
<1>1. ASSUME NEW c \in Callers, CallAction(c)
      PROVE  FlagInv'
  <2>0. lpc' = lpc
    BY <1>1, ApiFrame
  <2>1. CASE WakeupSet(c)
    BY <1>0, <2>1 DEF WakeupSet, Sending, Call
  <2>2. CASE ~WakeupSet(c)
    <3>1. flag' = flag /\ (dgram > 0 => dgram' > 0)
      BY <1>0, <1>1, <2>2 DEF CallAction, CallStep, ApiCall, Store, WakeupTest, WakeupSend,
                              AddEvent, RemoveEvent, SetEventEnabled, wvars
    <3> QED BY <1>1, <2>0, <3>1, SendingStays
  <2> QED BY <2>1, <2>2
<1>2. CASE QuietLoop
  <2>1. call' = call
    BY <1>2, QuietCalls
  <2>2. Sending' <=> Sending
    BY <2>1 DEF Sending
  <2> QED BY <1>2, <2>2 DEF QuietLoop, Top, Take, Armed, Select, Woken, WakeupRead, WakeupLower,
                            Strip, Skip, Return, LoopAt, wvars
<1>3. ASSUME NEW e \in Events, Arm(e)
      PROVE  FlagInv'
  <2>1. UNCHANGED <<flag, dgram, lpc>> /\ call[Loop].pc = "idle"
    BY <1>3, CallTypes DEF Arm, LoopAt, wvars
  <2>2. \A d \in Callers \ {Loop} : call'[d] = call[d]
    BY <1>0, <1>3 DEF Arm, Modify
  <2>3. Sending => Sending'
    BY <2>1, <2>2 DEF Sending
  <2> QED BY <2>1, <2>3
<1>4. ASSUME NEW e \in Events, NEW b \in BOOLEAN, Fire(e, b) \/ ReschedEvent(e, b)
      PROVE  FlagInv'
  BY <1>4 DEF Fire, ReschedEvent, MayCall
<1>5. CASE Exit \/ \E e \in Events : Signal(e)
  BY <1>5 DEF Exit, Signal, wvars, lvars, Sending
<1> QED BY <1>1, <1>2, <1>3, <1>4, <1>5 DEF Next, LoopStep, CallAction, QuietLoop

\* While the loop is on its way into select, what wakes it does not go away:
\* a caller that finds the flag up relies on another that is sending.
LEMMA WakingStays ==
  ASSUME TypeOK, FlagInv, lpc \in {"arm", "select"}, NEW c \in Callers, CallAction(c), Waking
  PROVE  Waking'
<1>0. dgram \in Nat /\ call \in [Callers -> Call]
  BY ELoopAssumption DEF TypeOK
<1>1. CASE WakeupTest(c)
  <2>1. CASE flag = 1
    <3>1. dgram > 0 \/ Sending
      BY <2>1 DEF FlagInv
    <3>2. Sending => Sending' \/ dgram' > 0
      BY SendingStays
    <3>3. dgram' = dgram
      BY <1>1 DEF WakeupTest, wvars
    <3> QED BY <3>1, <3>2, <3>3 DEF Waking, Sending
  <2>2. CASE flag # 1
    <3>1. call'[c].pc = "set"
      BY <1>0, <1>1, <2>2 DEF WakeupTest, Call
    <3> QED BY <3>1 DEF Waking
  <2> QED BY <2>1, <2>2
<1>2. CASE WakeupSet(c)
  <2>1. call'[c].pc = "send"
    BY <1>0, <1>2 DEF WakeupSet, Call
  <2> QED BY <2>1 DEF Waking
<1>3. CASE WakeupSend(c)
  BY <1>0, <1>3, ELoopAssumption DEF WakeupSend, Waking
<1>4. CASE ~(WakeupTest(c) \/ WakeupSet(c) \/ WakeupSend(c))
  <2>1. dgram' = dgram /\ call[c].pc \notin {"wake", "set", "send"}
    BY <1>4, CallTypes DEF CallAction, CallStep, ApiCall, Store, AddEvent, RemoveEvent,
                           SetEventEnabled, MayCall, wvars
  <2> QED BY <2>1, OneCaller DEF Waking
<1> QED BY <1>1, <1>2, <1>3, <1>4

\* Whatever a call makes the loop miss, the caller is about to wake it; and a
\* store of the loop itself gives back only what the loop has seen.
LEMMA ApiWake ==
  ASSUME TypeOK, CallInv, FlagInv, WakeInv, NEW c \in Callers, CallAction(c)
  PROVE  WakeInv'
<1>0. /\ UNCHANGED <<lpc, todo, fdset, timed>> /\ call \in [Callers -> Call] /\ Loop \in Callers
      /\ DOMAIN flags = Events /\ DOMAIN where = Events
  BY ApiFrame DEF TypeOK, Callers
<1>1. SUFFICES ASSUME lpc \in {"arm", "select"} PROVE WakeInv'
  BY <1>0 DEF WakeInv, StoreInv
<1>2. c = Loop => Store(c) /\ lpc = "arm" /\ call[c].pc = "store" /\ call[c].op = "arm"
  <2>1. SUFFICES ASSUME c = Loop
                 PROVE  Store(c) /\ lpc = "arm" /\ call[c].pc = "store" /\ call[c].op = "arm"
    OBVIOUS
  <2>2. ~ApiCall(c)
    BY <1>1, <2>1 DEF ApiCall, AddEvent, RemoveEvent, SetEventEnabled, MayCall
  <2>3. CallStep(c) /\ call[c].pc # "idle"
    BY <2>2 DEF CallAction, CallStep, Store, WakeupTest, WakeupSet, WakeupSend
  <2>4. lpc = "arm" /\ call[c].pc = "store" /\ call[c].op = "arm"
    BY <1>1, <2>1, <2>3, CallTypes DEF CallInv
  <2> QED BY <2>3, <2>4 DEF CallStep, WakeupTest, WakeupSet, WakeupSend
<1>3. StoreInv'
  <2>1. CASE c = Loop
    <3>1. call'[Loop] = AfterStore("arm")
      BY <1>0, <1>2, <2>1 DEF Store
    <3> QED BY <3>1, CallTypes DEF StoreInv
  <2>2. CASE c # Loop
    <3>1. call'[Loop] = call[Loop]
      BY <1>0, <2>2, OneCaller
    <3> QED BY <1>0, <3>1 DEF WakeInv, StoreInv, Seen
  <2> QED BY <2>1, <2>2
<1>4. (\E e \in Events : Missed(e)) => Waking'
  BY <1>1, WakingStays DEF WakeInv
<1>5. ASSUME NEW e \in Events, Missed(e)'
      PROVE  Waking'
  <2>1. CASE Store(c)
    <3>1. CASE c = Loop
      <4>1. e = call[c].ev /\ "ENABLED" \in call[c].val => Seen(e)
        BY <1>2, <3>1 DEF WakeInv, StoreInv
      <4>2. where' = where /\ flags'[e] = IF e = call[c].ev THEN call[c].val ELSE flags[e]
        BY <1>0, <2>1 DEF Store
      <4>3. Seen(e)' <=> Seen(e)
        BY <1>0 DEF Seen
      <4>4. Missed(e)
        BY <1>0, <1>5, <4>1, <4>2, <4>3 DEF Missed
      <4> QED BY <1>4, <4>4
    <3>2. CASE c # Loop
      <4>1. call'[c].pc = "wake"
        BY <1>0, <2>1, <3>2, CallTypes DEF Store, CallInv
      <4> QED BY <4>1 DEF Waking
    <3> QED BY <3>1, <3>2
  <2>2. ASSUME NEW d \in Clients, NEW f \in SUBSET {"ENABLED", "ONESHOT"}, NEW due \in BOOLEAN,
               NEW fd \in Events, AddEvent(c, d, f, due, fd)
        PROVE  Waking'
    <3>1. call'[c].pc = "wake"
      BY <1>0, <2>2, CallTypes DEF AddEvent, Call
    <3> QED BY <3>1 DEF Waking
  <2>3. ASSUME NEW d \in Clients, RemoveEvent(c, d) \/ \E on \in BOOLEAN : SetEventEnabled(c, d, on)
        PROVE  Waking'
    <3>1. Shared(d)
      <4>1. Owner[d] = c /\ c # Loop
        BY <1>2, <2>3, CallTypes DEF RemoveEvent, SetEventEnabled, Holds, MayCall
      <4> QED BY <4>1 DEF Shared, Clients
    <3>2. UNCHANGED <<flags, where>>
      BY <2>3, <3>1 DEF RemoveEvent, SetEventEnabled, Modify
    <3>3. Missed(e)
      BY <1>0, <1>5, <3>2 DEF Missed, Seen
    <3> QED BY <1>4, <3>3
  <2>4. CASE WakeupTest(c) \/ WakeupSet(c) \/ WakeupSend(c)
    <3>1. Missed(e)
      BY <1>0, <1>5, <2>4 DEF WakeupTest, WakeupSet, WakeupSend, evars, Missed, Seen
    <3> QED BY <1>4, <3>1
  <2> QED BY <2>1, <2>2, <2>3, <2>4 DEF CallAction, CallStep, ApiCall
<1> QED BY <1>3, <1>5 DEF WakeInv

\* An event that the walk passes by is disabled or known to select.
LEMMA ArmWake ==
  ASSUME TypeOK, WakeInv, NEW e \in Events, Arm(e)
  PROVE  WakeInv'
<1>0. /\ UNCHANGED <<lpc, dgram, where>> /\ todo' = todo \ {e} /\ lpc = "arm"
      /\ call[Loop].pc = "idle" /\ Loop \in Callers /\ call \in [Callers -> Call]
  BY CallTypes DEF Arm, LoopAt, wvars, Callers, TypeOK
<1>1. \A f \in Events : Seen(f) => Seen(f)'
  BY DEF Arm, Seen
<1>2. "ENABLED" \in flags[e] => Seen(e)'
  BY DEF Arm, Seen
<1>3. PICK add \in {{"RUNNING"}, {}}, del \in {{"RUNNING"}, {}} : Modify(Loop, "arm", e, add, del)
  BY DEF Arm
<1>4. /\ \A f \in Events \ {e} : flags'[f] = flags[f]
      /\ flags'[e] \in {flags[e], (flags[e] \cup add) \ del}
  BY <1>3, LoopModify
<1>5. \A f \in Events : Missed(f)' => Missed(f)
  <2>1. ASSUME NEW f \in Events \ {e} PROVE Missed(f)' => Missed(f)
    BY <1>0, <1>1, <1>4 DEF Missed
  <2>2. "ENABLED" \in flags'[e] => "ENABLED" \in flags[e]
    BY <1>3, <1>4
  <2>3. Missed(e)' => Missed(e)
    BY <1>0, <1>2, <2>2 DEF Missed
  <2> QED BY <2>1, <2>3
<1>6. Waking => Waking'
  <2>1. \A d \in Callers \ {Loop} : call'[d] = call[d]
    BY <1>0, <1>3 DEF Modify
  <2> QED BY <1>0, <2>1 DEF Waking
<1>7. StoreInv'
  <2>1. CASE Shared(e)
    <3>1. call'[Loop] = [pc |-> "store", op |-> "arm", ev |-> e, val |-> (flags[e] \cup add) \ del]
      BY <1>0, <1>3, <2>1, ModifyShared
    <3>2. call'[Loop].ev = e /\ call'[Loop].val = (flags[e] \cup add) \ del
      BY <3>1
    <3>3. "ENABLED" \in call'[Loop].val => "ENABLED" \in flags[e]
      BY <1>3, <3>2
    <3> QED BY <1>2, <3>2, <3>3 DEF StoreInv, Seen
  <2>2. CASE ~Shared(e)
    <3>1. call'[Loop] = AfterStore("arm")
      BY <1>0, <1>3, <2>2, ModifyOwn
    <3> QED BY <3>1, CallTypes DEF StoreInv
  <2> QED BY <2>1, <2>2
<1> QED BY <1>0, <1>5, <1>6, <1>7 DEF WakeInv

LEMMA WakeStays ==
  ASSUME TypeOK, CallInv, FlagInv, WakeInv, Next
  PROVE  WakeInv'
<1>1. ASSUME NEW c \in Callers, CallAction(c)
      PROVE  WakeInv'
  BY <1>1, ApiWake
<1>2. ASSUME NEW e \in Events, Arm(e)
      PROVE  WakeInv'
  BY <1>2, ArmWake
<1>3. CASE Take
  <2>1. \A e \in Events : where'[e] # "wait" /\ (where'[e] = "list" => e \in todo')
    BY <1>3 DEF Take, TypeOK
  <2>2. call'[Loop].pc = "idle"
    BY <1>3, CallTypes DEF Take, LoopAt
  <2> QED BY <2>1, <2>2 DEF WakeInv, StoreInv, Missed
<1>4. CASE Armed
  BY <1>4 DEF Armed, LoopAt, WakeInv, StoreInv, Missed, Seen, Waking, evars, wvars
<1>5. CASE Top \/ Select \/ Woken \/ WakeupRead \/ WakeupLower \/ Strip
  BY <1>5 DEF Top, Select, Woken, WakeupRead, WakeupLower, Strip, WakeInv, StoreInv
<1>6. ASSUME NEW e \in Events, NEW b \in BOOLEAN,
             Skip(e) \/ Fire(e, b) \/ Return(e, b) \/ ReschedEvent(e, b)
      PROVE  WakeInv'
  BY <1>6 DEF Skip, Fire, Return, ReschedEvent, MayCall, LoopAt, WakeInv, StoreInv
<1>7. CASE Exit \/ \E e \in Events : Signal(e)
  BY <1>7 DEF Exit, Signal, evars, wvars, lvars, WakeInv, StoreInv, Missed, Seen, Waking
<1> QED BY <1>1, <1>2, <1>3, <1>4, <1>5, <1>6, <1>7 DEF Next, LoopStep, CallAction

-----------------------------------------------------------------------------
(* The theorems.                                                           *)

LEMMA Start == Init => IInv
<1>1. SUFFICES ASSUME Init PROVE IInv
  OBVIOUS
<1> USE <1>1 DEF Init
<1>2. TypeOK
  <2>1. Loopback \in Events /\ MaxDgram \in Nat /\ MaxCalls \in Nat
    BY ELoopAssumption
  <2>2. /\ where \in [Events -> {"none", "wait", "list"}] /\ flags \in [Events -> SUBSET Flags]
        /\ signal \in [Events -> BOOLEAN] /\ closes \in [Events -> Events]
    BY <2>1 DEF NoFd, Flags
  <2>3. call \in [Callers -> Call]
    BY CallTypes
  <2>4. /\ closed \subseteq Clients /\ gone \subseteq Clients /\ todo \subseteq Events
        /\ fdset \subseteq Events /\ hit \subseteq Events /\ cur \in Events
    BY <2>1
  <2>5. timed \in BOOLEAN /\ end_loop \in BOOLEAN
    OBVIOUS
  <2>6. flag \in {0, 1} /\ dgram \in 0..MaxDgram /\ ncalls \in 0..MaxCalls
    BY <2>1
  <2> QED BY <2>2, <2>3, <2>4, <2>5, <2>6 DEF TypeOK
<1>3. call[Loop] = Idle /\ \A c \in Callers : call[c].pc = "idle"
  BY CallTypes DEF Callers
<1>4. CallInv
  BY <1>3 DEF CallInv
<1>5. LoopbackInv /\ ReadInv
  BY ELoopAssumption DEF LoopbackInv, ReadInv
<1>6. FlagInv /\ WakeInv /\ GoneInv /\ ClosedInv
  BY <1>3 DEF FlagInv, WakeInv, StoreInv, GoneInv, ClosedInv
<1> QED BY <1>2, <1>4, <1>5, <1>6 DEF IInv

LEMMA Inductive == IInv /\ [Next]_vars => IInv'
<1>1. SUFFICES ASSUME IInv, [Next]_vars PROVE IInv'
  OBVIOUS
<1> USE <1>1
<1>2. CASE Next
  <2> USE <1>2 DEF IInv
  <2>1. TypeOK'
    <3>1. ASSUME NEW c \in Callers, CallAction(c) PROVE TypeOK'
      BY <3>1, ApiTypes
    <3>2. CASE LoopStep
      BY <3>2, LoopTypes
    <3>3. CASE \/ \E e \in Events, due \in BOOLEAN : ReschedEvent(e, due)
               \/ \E e \in Events : Signal(e)
               \/ Exit
      BY <3>3, OtherTypes
    <3> QED BY <3>1, <3>2, <3>3 DEF Next, CallAction
  <2>2. CallInv'
    <3>1. ASSUME NEW c \in Callers, CallAction(c) PROVE CallInv'
      BY <3>1, ApiCalls
    <3>2. CASE LoopStep \/ \E e \in Events, due \in BOOLEAN : ReschedEvent(e, due)
      BY <3>2, LoopCalls
    <3>3. CASE Exit \/ \E e \in Events : Signal(e)
      BY <3>3 DEF Exit, Signal, lvars, CallInv, Shared
    <3> QED BY <3>1, <3>2, <3>3 DEF Next, CallAction
  <2>3. LoopbackInv' /\ ReadInv'
    BY LoopbackStays, ReadStays
  <2>4. FlagInv' /\ WakeInv'
    BY FlagStays, WakeStays
  <2>5. GoneInv' /\ ClosedInv'
    BY GoneStays, ClosedStays
  <2> QED BY <2>1, <2>2, <2>3, <2>4, <2>5
<1>3. CASE UNCHANGED vars
  <2> USE <1>3 DEF vars, evars, wvars, lvars, IInv
  <2>1. TypeOK' /\ CallInv'
    BY DEF TypeOK, CallInv, Shared
  <2>2. LoopbackInv' /\ ReadInv'
    BY DEF LoopbackInv, ReadInv
  <2>3. FlagInv' /\ WakeInv'
    BY DEF FlagInv, Sending, WakeInv, StoreInv, Missed, Seen, Waking
  <2>4. GoneInv' /\ ClosedInv'
    BY DEF GoneInv, ClosedInv
  <2> QED BY <2>1, <2>2, <2>3, <2>4
<1> QED BY <1>2, <1>3

\* The invariant of the loop and its callers holds throughout.
THEOREM Invariance == Spec => []IInv
BY Start, Inductive, PTL DEF Spec

\* The variables keep their types; above all eloop_wakeup_read never reads a
\* loopback socket that is empty, which would block the loop.
THEOREM LoopTypeCorrect == Spec => []TypeOK
<1>1. IInv => TypeOK
  BY DEF IInv
<1> QED BY Invariance, <1>1, PTL

\* eloop_wakeup loses no wakeup, for any number of threads and events and any
\* depth of the loopback socket, although its test and its setting of
\* global_loopback_flag are two steps.
THEOREM NoWakeupLost == Spec => []NoLostWakeup
<1>1. IInv => NoLostWakeup
  <2>1. SUFFICES ASSUME IInv, lpc = "select", NEW e \in Events, Unseen(e)
                 PROVE  /\ Loopback \in fdset
                        /\ dgram > 0 \/ \E c \in Callers : call[c].pc \in {"wake", "set", "send"}
    BY DEF NoLostWakeup
  <2>2. Loopback \in fdset /\ todo = {}
    BY <2>1 DEF IInv, LoopbackInv
  <2>3. Missed(e)
    BY <2>1, <2>2 DEF Unseen, Missed, Seen
  <2> QED BY <2>1, <2>2, <2>3 DEF IInv, WakeInv, Waking
<1> QED BY Invariance, <1>1, PTL

\* The loop never calls an event that one of its callbacks has removed: the
\* removal takes RUNNING off, and no pass arms what is not ENABLED.
THEOREM RemovedNotCalled == Spec => RemovedIsFinal
<1> DEFINE Final == \A e \in Clients :
              Owner[e] = Loop /\ e \in gone /\ lpc = "run" /\ lpc' = "call" => cur' # e
<1>1. IInv /\ [Next]_vars => [Final]_vars
  <2>1. SUFFICES ASSUME IInv, Next, NEW e \in Clients, Owner[e] = Loop, e \in gone,
                        lpc = "run", lpc' = "call"
                 PROVE  cur' # e
    OBVIOUS
  <2>2. PICK f \in Events, due \in BOOLEAN : Fire(f, due)
    <3>1. ~ \E c \in Callers : CallAction(c)
      BY <2>1, ApiFrame DEF IInv
    <3> QED BY <2>1, <3>1 DEF Next, CallAction, LoopStep, Top, Take, Armed, Select, Woken, WakeupRead,
               WakeupLower, Strip, Arm, Skip, Return, ReschedEvent, Signal, Exit, LoopAt, lvars
  <2>3. cur' = f /\ "RUNNING" \in flags[f]
    BY <2>2 DEF Fire, Fires
  <2>4. "RUNNING" \notin flags[e]
    BY <2>1 DEF IInv, GoneInv
  <2> QED BY <2>3, <2>4
<1> QED BY Invariance, <1>1, PTL DEF Spec, RemovedIsFinal

\* Removing a socket's event and closing the socket from a later alarm is safe
\* when the callbacks of the loop own every socket event.  When a thread owns
\* one, as the live thread does in del_rtp_endpoint, it is not.
THEOREM ClosedSafe ==
  ASSUME \A e \in Clients : Kind[e] = "fd" => Owner[e] = Loop
  PROVE  Spec => []ClosedNeverPolled
<1>1. IInv => ClosedNeverPolled
  <2>1. SUFFICES ASSUME IInv, NEW e \in closed, e \in fdset PROVE FALSE
    BY DEF ClosedNeverPolled
  <2>2. e \in gone /\ Kind[e] = "fd"
    BY <2>1 DEF IInv, ClosedInv
  <2>3. Owner[e] = Loop
    BY <2>2, <2>1 DEF IInv, TypeOK
  <2> QED BY <2>1, <2>2, <2>3 DEF IInv, GoneInv
<1> QED BY Invariance, <1>1, PTL
=============================================================================
