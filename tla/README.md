# TXW82x FPV SDK: models of the media core and the services beside it

The SDK runs a camera / display product as a graph of *MSI components*
("media stream interface"): sensors, codecs, RTP senders, recorders and
displays, each with a thread of its own, that pass *framebuffers* to each other.
The code that makes this safe is small and shared by everything else: reference
counts on frame chains, preallocated frame pools, one receive queue per component,
and a graph of components that are created, bound and freed by name. Beside it, an
event loop serves the RTSP sockets and timers, and a posix layer over the kernel's
mutexes and semaphores carries the libraries. This project models these parts, checks
them with TLC, and proves the safety properties that hold with TLAPS, for every size.

Paths below are relative to the repository (`src/`).

## 1. Inventory

| Component | Code | State | Operations | Interacts with | Hard behaviour | What makes it correct |
|---|---|---|---|---|---|---|
| Framebuffers | `sdk/lib/multimedia/msi/framebuff.c` | `users` (uint8), `next`, `msi` of each frame | `fb_alloc fb_clone fb_get fb_ref fb_put fb_free` | components hold references; `fb_free` puts the owning component | chains are counted and released node by node without a lock by many threads | counts are exact, nothing is used after it is given back, nothing is lost |
| Frame pool | `fbpool.c` | `used` of each slot | `fbpool_init get put destroy` | called from the owner's `MSI_CMD_FREE_FB` and `POST_DESTROY` | the pool dies with its owner while frames travel downstream | the owner outlives its frames |
| Receive queue | `fbqueue.c`, `include/lib/common/rbuffer.h` | ring of frame pointers, `rpos`, `wpos`, semaphore | `fbq_init enqueue dequeue trace destory` | producers are the threads in `msi_output_fb`, one reader | check-then-wait, unprotected `RB_GET`, tokens that outlive frames, full ring | a bounded FIFO, exact counts, no lost wakeup |
| Component graph | `msi.c` | list, `users`, `bound`, `inited`, `deleted`, `enable`, outputs | `msi_new find get put add_output del_output destroy output_fb` | everything | recursion through cycles, callbacks and drained queues; `msi_put` without the lock that all others take | two exact counters, no dangling pointer, a name can be created again |
| Event loop | `sdk/lib/net/eloop/eloop.c` | event lists, flags of each event, wakeup flag, loopback socket | `eloop_add_* remove_event set_event_enabled resched_event exit`, `user_eloop_run` | RTSP server; callbacks call back into it | flags and lists shared with other threads; sleeping in `select` with an old set of sockets | no lost wakeup, due events are called, removed ones never again |
| Read-write lock | `sdk/lib/posix/pthread_rwlock.c`, `pthread_cond.c` | `rw_refcount`, two counts of waiters | rd/wr lock, try and timed forms, unlock, destroy | libraries | barging, timeouts, a destroy that meets waiters | many readers or one writer; exact counts |
| Condition variable, mutex | `sdk/osal/csky/{condv,mutex}.c` | `waitings`, semaphore | wait, signal, broadcast | posix layer | signal and wait both take a waiter off the count | a signal wakes a waiter |
| Byte rings | `sdk/lib/common/rbuffer.c`, `sdk/lib/audio/ring_buffer` | positions | get, set, set_force | audio path | overwriting writer moves the reader's position | data comes out in order |
| Posix layer, other | `sdk/lib/posix` | barrier count, message queues, threads | wait, send, receive, join | libraries | a barrier whose count is never reset | wrappers keep posix's promises |
| Socket monitor | `sdk/lib/net/skmonitor` | list of sockets and callbacks | add, del, work | network services | list entry kept across an unlock | callbacks only for registered sockets |
| RTSP server | `sdk/app/spook` | connections, sessions, endpoints | SETUP, PLAY, TEARDOWN, release | event loop, live thread, media core | sessions shared by two threads without a lock | a session is released once, after its last use |
| Key scan | `sdk/lib/key/keyScan.c` | debounce counters | scan | application | timing | one event per press |
| Pairing, FPV application | `project/wifi_pair.c`, `project/app/app_fpv.c` | pairing state | events, timers | radio | asynchronous events | pairing ends |
| Media player, intercom, capture / encode / display components | `sdk/lib/multimedia/mplayer`, `sdk/app` | buffers, sessions | action handlers | media core | hardware callbacks | use the core correctly |
| Third-party | lwip, curl, mbedtls, lvgl, fatfs, rhino, liteos | | | | | not this project's subject |

The hazards found while reading are listed, at their lines, in `PROJECT.json`.

## 2. Plan

1. `FrameBuff`: frames, pools and their owner (done, all safety properties proved).
2. `FbQueue` over the abstract `BoundedFifo` (done; safety and the refinement proved).
3. `Msi`: component graph with its nested calls and callbacks (done; for one calling thread
   exact counters, consistency between calls, and no dangling pointer but one are proved. The
   one is a component freed inside its own `msi_put`, `graph_drain`; `graph_race` is a second
   thread. Next: the command paths `msi_notify`, `msi_output_cmd`, `msi_fb_trace_discard`).
4. `ELoop`: the event loop and its wakeup (done, safety proved).
5. `RwLock` over the condition variable, with the abstract `RwLockSpec` (done, safety and the
   refinement proved; next: the barrier).
6. `SkMonitor`: callbacks that change the list being walked.
7. `FbQueueMulti` (multi-reader mode), `RBuffer` (byte ring), `KeyScan`, pairing.
8. A pipeline that composes `FrameBuff`'s counts, `FbQueue` and `Msi`'s output loop.

A theorem states every safety property that a passing run checks. Worth proving next: what
still holds of the component graph when several threads call it and the last `msi_put` of
a component meets no other call, and the components of 6 and 7 as they are modelled.

## 3. Modules and the code

### FrameBuff

A *handle* is one reference to the head of a chain: a local pointer, a queue slot, a
pointer kept by a codec. Every handle runs its operation independently, which
covers every interleaving of the threads that share frames. `fb_get` and `fb_put`
are recursive (`fb_get(fb->next)` first, then the count); `stk` is the recursion's
stack, `fb_get_walk` / `fb_put_walk` descend, `fb_get_inc` / `fb_free` are the
`atomic_inc` / `atomic_dec_and_test` on the way back. `fb_free` continues through
`free_fb` (`MSI_CMD_FREE_FB`, where the pool owner calls `fbpool_put`), the three
steps of `msi_put` and `FB_FREE`. `msi_destroy*` is the creator's side. `users`
wraps at `UsersMod` (256 in the code) and `atomic_dec_and_test` saturates at 0 and
reports true, as `osal/atomic.h` does. `owed` and `depth` are history variables.

Two usage rules of the code base are guards: a component allocates frames only
while it is not destroyed, and `fb_ref` is applied to a frame fresh from
`fb_alloc` (its `ASSERT(fb_new->next == NULL)` plus the fact that nobody else
refers to it yet).

### FbQueue and BoundedFifo

Producers run `msi_output_fb` -> `fbq_enqueue`: `fb_get`, `RB_INT_SET` (irq-protected,
one step), `os_sema_up`, or `fb_put` when the ring is full. The reader runs
`fbq_dequeue`: `dequeue_check` is the test of `RB_EMPTY` and the slot read,
`dequeue_advance` the move of `rpos` (two steps, since `RB_GET` is not protected),
`os_sema_down` the wait. `tmo` is the caller's timeout: 0, some milliseconds, or
forever (`0xffffffff`). `fbq_trace` is the discard; `Tracers` says which threads call
it. `fbq_destory` and `fbq_init` happen when nobody is inside the queue: whoever
outputs into a component holds a reference to it, and a component stops its own
thread before it lets go of itself. `fbq_destory` is one step for this reason, although its
loop runs callbacks; what they do to the graph is in `Msi`. A frame is output when it is
fresh, so it is never in the ring twice, which the code itself does not forbid.

`BoundedFifo` is what the queue promises: put at the end, get from the front, at
most `Capacity`, a discarded frame leaves a NULL. `Fifo` in `FbQueue` is the
refinement mapping: the queue is the ring from `rpos` to `wpos`.

### Msi

`alive` is the heap, `list` is `g_MSI.list`, the other object variables are the fields
of `struct msi`. A thread runs one call of the API at a time, but calls nest: the
last `msi_put` of a component runs `POST_DESTROY` and drains its queue, which puts frames,
which puts the components that own them; `msi_free` recurses into outputs; callbacks call
the API again. So a thread is a stack `stk` of activation records, and its last record says
what it does next (the head of `Msi.tla` lists the kinds).

* Calls that finish under `g_MSI.lock` without freeing anything are single steps (nothing
  else that takes the lock can interleave). The lock nests; a thread has it while an
  `unlock` record is on its stack.
* `msi_put`, which takes no lock, is `put_read` (samples `bound` and `inited`), `put_dec`,
  and for the last reference `post` (the `POST_DESTROY` callback runs), `put_drain` (one
  frame of `fbq_destory`'s loop) and `put_post` (free, or leave a placeholder).
* `msi_free` and `msi_unbind` work one output entry per step (`msi_unbind`, `unbind_dec`),
  with `os_free` at the end. `msi_del_output` finds both ends (two counts), unbinds, and puts
  what it found, also when only one of the ends exists.
* `PRE_DESTROY` and `POST_DESTROY` may destroy components and put frames, as
  `auto_jpg_msi.c:137` and `scale1_jpg_msi.c:427` do. `TRANS_FB` may take the frame into the
  queue (`fbq_enqueue`), pass it on to further outputs (`trans_forward`; `auto_jpg_msi.c:167`),
  put frames, or refuse it.
* `msi_output_fb` references each enabled output while that takes the frame, and puts the
  frame at the end. When its component is not enabled it is `fb_put` alone.
* A caller's `msi_cmd` is `msi_find` followed by `msi_put`. `add_output_nomem` is the failure of
  one of the two allocations.

A frame matters here for the reference to its owner, which its last put gives back
(`FrameBuff` has the counts themselves). `owner` is `fb->msi`; `queue` is the queue whose
count of the frame will be the last one, or NULL when a caller has it; counts that are
dropped before the last do not touch the graph. Freed objects may be handed out again by
`os_zalloc`. Its zeroing appears in no action: `ZeroedInv`, part of what is proved with one
thread, says that the fields of free memory are zero already. After a component was freed
inside its own `msi_put` the model goes on as if the memory were intact until it is
allocated again; what a write to freed memory does to the heap is not followed.

`made` and `found` count the references callers hold: from `msi_new`, and from
`msi_find` / `msi_get`. Usage rules that are guards: only an owner destroys a component,
after its own thread has stopped (no output of it is under way); a component allocates
frames, outputs and reads its queue only while it is owned.

### ELoop

One thread runs `user_eloop_run`; `lpc` says where. A pass is `Top` (lower the wakeup
flag), `Take` (`eloop_wait_events`), one `Arm` per event (raise or drop RUNNING, hand the
socket or the timeout to `select`), `Select`, `Woken` (raise the flag), one `Skip` or `Fire`
per event in the order times, always, fds, the callback up to `Return`, and `Strip`
(free what has REMOVE). The loopback event's callback is `WakeupRead`, `WakeupLower`. An
event added by another thread goes into the wait list (`where` = "wait") and is moved
by the next `Take`.

Threads, and callbacks on the loop's thread, call `AddEvent` (all four kinds),
`RemoveEvent`, `SetEventEnabled`; `ReschedEvent` belongs to a timer's own callback.
`eloop_wakeup` is three steps: test, set, send. `e->flags` is a plain int, so for
an event that a thread other than the loop's may write, `|=` and `&=` are a load
(`Modify`) and a `Store`, with steps of others between them; the two statements of
`eloop_remove_event` are one load and one store, as the `-Os` build makes them.

`Owner` is the thread that keeps an event's handle. `closes` and `closed` follow the
hand-over of `del_rtp_endpoint` (`rtp.c`): remove the event, then add an alarm whose
callback closes the socket. Lists are sets, a time is reached or not, a socket ready or
not; `select` fails when it is given a closed socket, as lwip's does.

### RwLock and RwLockSpec

`rw_mutex` is `owner` and `nested` (the kernel's mutexes nest). A call waits for it
(`Lock`), tests (`Take`, `Refuse`, `Wait`) and leaves (`Leave`); the sleeper counts itself in
`nwait` and `waitings` and gives the mutex up; it comes back by a token (`SemTake`) or
late (`Timeout`), takes the mutex, counts itself off in both (`Relock`) and tests again.
`Unlock` posts for one writer or all readers through `Post`, which is `os_condv_signal` and
`os_condv_broadcast`: both run under `rw_mutex`, so their compare-and-swap never
retries. A token may be taken by any sleeper. `Destroy` with -EBUSY keeps the mutex, as
the code does. Clients follow two posix rules: unlock only what you hold, and no lock
call that has not yet been counted is under way when the lock is destroyed.

`RwLockSpec` is what the lock promises, over the same `held`.

Definitions whose comment begins with `Mutant:` are plausible bugs. They are not part of
any specification: each shows that a property would notice the bug.

## 4. Runs

| Run | Checks | Result |
|---|---|---|
| `frames` | three references, two heap frames, one pool frame, one owner: `TypeOK NoUseAfterFree UsersExact ChainCovered NoLeak OwnerExact OwnerOutlivesFrames` | holds (260,445 states) |
| `frames_live` | `PutTerminates` | holds |
| `reclaim` | `DestroyedIsReclaimed` | violated: `msi_put` samples `inited` before its decrement |
| `queue` | two producers, three frames, ring of three slots, semaphore of one token: `TypeOK RefsExact PutFindsCount NoLostWakeup IsFifo WaitEnds` | holds (1,562,937 states) |
| `queue_discard` | discard by another thread: `PutFindsCount` | violated: `RB_GET` is not protected |
| `graph` | one thread, three names, three addresses, one output each, one frame: `TypeOK NoDangling RefsExact BoundExact Settled OutputsStay` | holds (298,278 states up to symmetry) |
| `graph_live` | `CallsReturn`, two names, two outputs each, one frame | holds (336,040 states) |
| `graph_race` | two threads: `NoDangling` | violated: `msi_put` frees without the lock |
| `graph_drain` | one thread, two names: `FreedIsUnused` | violated: a component is freed inside its own `msi_put` |
| `loop` | the loop, a thread, a socket event owned by the callbacks and a timer owned by the thread: `TypeOK NoLostWakeup RemovedIsFinal TakenUp Served RemovedIsFreed` | holds (293,463 states) |
| `loop_remove` | the thread owns both events: `ClosedNeverPolled` | violated: the loop overwrites the removal |
| `rwlock` | four threads, one destroy: `TypeOK RefcountExact WaitCountsExact NoPhantomWaiter DestroyedIsQuiet Implements` | holds (2,221,953 states up to symmetry) |

### Bounds

* `frames`: three handles and three frames give chains of three nodes, two threads
  that put a shared chain while a third copies it, and a counter at its maximum
  (`UsersMod` = 4 for three references; the theorem needs exactly "fewer references than
  values"). One owner has the pool and heap frames. Handles and frames are
  symmetric; liveness runs use no symmetry.
* `queue`: `QSlots` = 3 (two frames fit) with three frames makes the ring full, wrapped
  and empty; two producers race between slot and token; `SemaMax` = 1 makes the semaphore
  saturate (65535 in the code; the theorem on lost wakeups is for every maximum).
* `graph`: three names with `OutMax` = 1 (4 in the code) allow chains, cycles of two and
  three, self-loops, two components bound to one output, and an output list that is full
  when another output is added; two outputs per component are in `graph_live`, with two names.
  The theorems are for every number of both. `MaxRefs` = 2 bounds the references callers hold
  at a time: one component with two owners, an owner and a finder, or two components in
  use. One frame is enough to keep a destroyed component alive in another one's queue.
  `MaxForward` = 1: a `TRANS_FB` passes a frame on once; without a bound a cycle of forwarding
  components would recurse for ever, as it does in the code. `graph_race` needs one
  name and one address.
* `loop`: one socket and one timer event beside the loopback give every pair of a
  callback and a thread that change events while the other runs. `MaxDgram` = 1: a second
  datagram is dropped, the worst case for a wakeup. `MaxCalls` = 2 calls per callback: a
  callback may add an event and remove it again, or remove one event and add another. The
  timer belongs to the thread, so a callback that removes its own timer and then calls
  `eloop_resched_event` is not covered; that function has no caller outside `eloop.c`. No event of kind "always" is instantiated: it only adds a
  timeout of 0 to `select`, which hides lost wakeups.
* `rwlock`: four threads allow two waiting writers with a reader and a holder, or
  three sleepers of one kind. `MaxDestroy` = 1, since a refused destroy never gives
  `rw_mutex` back.
* Deadlock is checked except in the FrameBuff, loop and rwlock runs. In FrameBuff every
  component may have been destroyed and every reference put; `eloop_exit` ends the loop
  for good; the read-write lock really may stop: it is destroyed, a refused destroy has
  kept its mutex, or a wakeup was dropped (section 5).

### Fairness

`frames_live`: weak fairness of `Continue(h)`: a thread that has begun an operation is
scheduled again; nothing obliges it to begin one. `queue`: weak fairness of the
steps inside the queue code, per producer and for the reader; not of outputting or of
reading, and not of the callers. `graph_live`: weak fairness of the steps of a call
that has begun. `loop`: weak fairness of the loop's thread and of each call that has
begun; both tasks have the same priority (`OS_TASK_PRIORITY_NORMAL` + 2) and share it by
time slices, and a `select` with a timeout returns. No fairness of sockets becoming ready, of
times being reached or of clients calling, and `end_loop` releases every promise. The
kernel is a preemptive priority scheduler; these steps neither
wait for a lock nor spin, and the one wait (`os_sema_down`) is a step that is enabled
only with a token or a finite timeout.

## 5. Findings

* **`reclaim`** (`msi.c:31`). A thread that puts a frame reads `inited` = 1; the creator runs
  `msi_destroy` (its own put leaves `users` = 1); the thread then drops the last count
  and, with the stale value, skips the tear-down. The component stays in the list with
  `deleted` = 1 and `msi_new` refuses its name from then on.
* **`queue_discard`** (`fbqueue.c:145`). The reader has read the slot but not moved `rpos`; a
  discard of the same frame by another thread puts it; the reader's later `fb_put`
  finds a count of 0, where `framebuff.c:10` asserts one. In the repository the discard
  is called from `fbpool_destroy`, usually in the owner's last put.
* **`graph_race`** (`msi.c:39`). The last `msi_put` of a component nobody created, for
  example the one of an `msi_cmd` on a placeholder, has decremented `users` but not yet
  unlinked it; `msi_new` of another thread takes it from the list; it is then freed under
  its new owner. The comment on `msi_list_del` (`msi.c:130`) asks for the lock.
* **`graph_drain`** (`msi.c:36-40`). One thread is enough. B is bound to A, and A's last
  `msi_put` samples `bound` = 1, drops `users` to 0 and runs `POST_DESTROY` and `fbq_destory`. If
  either frees B, `msi_unbind` takes A's `bound` to 0, finds `users` = 0 and frees A; control
  returns into the freed A, in the rest of `fbq_destory` (`fbqueue.c:35-45`) and at
  `msi->deleted = 0`. B is freed when A's `POST_DESTROY` destroys it, as `scale1_jpg_msi.c:432`
  does with the encoder that line 254 bound to it (the run's trace), or when B was destroyed
  before and only its frame in A's queue kept it alive. The comment at `msi.c:94` counts
  references and bindings; a call under way with neither is not counted. `NoDangling`
  therefore leaves out the `msi_put` that is about to leave a placeholder, and nothing else.
* **`loop_remove`** (`eloop.c:405`). The loop loads the flags of an armed event; the live thread
  runs `eloop_remove_event`; the loop stores the old flags with RUNNING: REMOVE is lost and
  ENABLED is back. The alarm added by `del_rtp_endpoint` then closes the socket, and from
  then on every `select` is given a closed socket and fails: no socket event is served any
  more, the loopback's included. The comment at `rtp.c:79` says that this order of
  removal and alarm has no such problem. Events removed by callbacks are safe
  (`RemovedIsFinal`, `RemovedIsFreed` in `loop`). One that its callback had only just added
  is in the wait list when the lists are stripped, and is freed after the next `select`.

**The read-write lock may leave waiters asleep.** `RwLock` reaches two states in which
the lock is free and an untimed waiter sleeps without a token. (1) Two writers wait,
`waitings` = 2; the holder's unlock signals one (1); that one counts itself off again
(`condv.c:79`: 0); when it unlocks, `os_condv_signal` finds 0 and posts nothing, and
the second writer sleeps until some other thread waits and is signalled. While it does,
`rw_nwaitwriters` > 0 keeps every reader out. (2) A reader waits behind a timed writer
that times out (`pthread_rwlock.c:226`): nobody wakes the reader although nothing blocks
it any more. Hence no liveness property of the lock is stated. Removing line 79 is not
the repair: `NoPhantomWaiter` fails then (mutant `RelockNoDec`), because a waiter that
timed out would stay counted and take a signal meant for another.

Also seen and not turned into a run: the static initialiser of a read-write lock is
completed by its first user without protection (`pthread_rwlock.c:108`); `eloop_exit` and
`eloop_resched_event` do not wake the loop out of `select`; `msi_add_output(NULL, "A", "B")` before A exists
creates A without a count, so `msi_cmd("A", ...)` frees it again and the output is lost;
`msi_fb_trace_discard` (`msi.c:398`) searches its own queue in place of the output's;
`fbq_trace` always returns 0.

## 6. Proofs

### FrameBuff_proofs

For any finite sets of handles, heap frames and pool frames, any set of components
and any counter width larger than the number of handles (`FbAssumption`), every
safety property of the run `frames` is a theorem: `TypeCorrect`, `CountsExact`,
`ChainsCovered`, `FramesNotLost`, `UseBeforeFree`, `OwnerCounted`, `OwnerLast`.

None of them is inductive. The argument: a reference *covers* its chain (`Covers`): the
frames it accounts for (`owed`) have the depths 1 .. depth of the head, one of each, and
each is linked to the one below it. Depth replaces induction over the list: a walk that is at depth d with
stack length k has d + k = depth of the head (`OnChain`, `AtCur`), so its stack
never leaves what the reference covers. While `fb_put` releases, what it still
accounts for is exactly its stack (`ReleaseOK`); while `fb_get` copies, its source
handle stays at rest and what it has counted is the lower part of the source's chain
(`GetOK`, `Counted`). With `UsersExact` as a cardinality, the last put of a frame is
the only holder, so nobody else has it in its stack (`FreeOnce`, `HandleOK`). That is
`FrameInv`. `OwnerInv` adds that a frame in use belongs to a component and that
`musers` is exact; a thread that reached `postdestroy` read `inited` = 0, so the
creator's count is gone, and found the counter at 0, so there are no frames and no
other puts. `IInv` is their conjunction; `Invariance` is `Spec => []IInv`.

### FbQueue_proofs

For any frames, any finite set of producers, any tracers, ring size of at least two and
semaphore maximum of at least one (`FbqAssumption`): `QueueTypeCorrect`, and
`NeverSleepsThrough`: a reader in its wait found the ring empty, so every frame in it was
put since; its producer is about to give a token or has given one, and only this reader
takes tokens.

Three more hold when only the component's own thread discards frames (`OwnTracer`;
otherwise `queue_discard` refutes them): `QueueRefsExact`, `QueuePutsFindCount` and the
refinement `QueueIsFifo`. `QueueInv` adds to the types and the exact counts what the threads
inside rely on (`ThreadInv`): the queue is not destroyed under them, and the slot that the
reader has read still holds that frame, and is still the first one, when `rpos` moves over
it. The counts are cardinalities of the sets of places that hold a frame: ring slots,
producers and the reader. For the refinement each step is shown to change the sequence
from `rpos` to `wpos` as `BoundedFifo` allows: `RB_INT_SET` appends, `dequeue_advance` takes
the first, `fbq_trace` blanks the first match, everything else leaves it alone.

### Msi_proofs

For any names, any finite sets of addresses and frames, any output limit of at least one,
any bounds and any threads (`MsiAssumption`): `GraphTypeCorrect`. With one calling thread
(`OneThread`), every safety property of the run `graph`: `GraphRefsExact`,
`GraphBoundExact`, `NothingDangles`, `GraphSettles` and the action property `OutputsKept`.
`OneThread` cannot be dropped: `msi_put` takes no lock, and `graph_race` has two threads. Nor
can the exception in `NoDangling` for an `msi_put` that is about to leave a placeholder:
`graph_drain` refutes what is left out.

The counters alone are not inductive: `msi_put`, `msi_free` and the drain nest on one stack,
run through cycles of the graph and work from values sampled before. `GraphInv` says what
makes this safe. A sample that is about to be used, at the top of the stack, is still
current (`SampleInv`); deeper ones may have gone stale, which is where `graph_drain` comes
from. The component of a `free` record is off the list, has `users` = `bound` = 0 and no second
`free` record (`FreeInv`); by `BoundExact` no output entry points to it, so the recursion
cannot come back to it around a cycle, and everything else that is alive is on the list. A
`post` or `drain` record that will free its component (sampled `bound` 0) is the only record
that does, and nobody can bind or reference the component meanwhile (`LastInv`). `inited`
counts the owners and only an owned component is enabled (`OwnedInv`); one marked `deleted`
still has references or is on its way through `msi_put` (`DeletedInv`); a queue that holds a
frame belongs to a component with references, or is being drained (`QueueInv`); these give
the last parts of `Settled`. `FrameInv` and `CallInv` say what records and frames a call can
have. Free memory is zero (`ZeroedInv`), names are unique on the list (`NameInv`).

### ELoop_proofs

For any events, kinds, owners, threads, depth of the loopback socket and calls per callback
(`ELoopAssumption`): `LoopTypeCorrect`, `NoWakeupLost` and the action property
`RemovedNotCalled`; and `ClosedSafe` when callbacks of the loop own every socket event (with
an event of another thread, `loop_remove` refutes it).

`NoLostWakeup` speaks of `select` only. Its strengthening `WakeInv` speaks of the whole walk
that arms events: as soon as the walk has passed by something (`Missed`: an event in the
wait list, or enabled and not handed to `select`), a datagram is in the loopback socket or
some caller is still to test, set or send. A caller that finds the flag up gives up its
own wakeup, so `FlagInv` is needed: until `select` has returned the flag is up only if a
datagram is there or about to be sent. It holds because `Top` lowers the flag before the
wait list is taken, and because the loopback event is always armed and never removed
(`LoopbackInv`). `StoreInv` covers the loop's own delayed stores: what they enable, the walk
has armed. `ReadInv` says that `eloop_wakeup_read` finds something to read, so it does not
block. `GoneInv` says that an event removed by a callback is neither RUNNING nor ENABLED nor
polled; `ClosedInv` that only sockets of removed events are closed.

### RwLock_proofs

For any finite set of threads and any number of destroys (`RwLockAssumption`):
`LockTypeCorrect`, `RefcountCorrect`, `WaitersCounted`, `NoPhantoms`, `DestroyIsSafe`, and
the refinement `LockImplements`: the code keeps the promise of `RwLockSpec`.

`IInv` adds three facts to these properties: whoever is between taking and releasing
`rw_mutex` has it (`MutexInv`); a call is an unlock exactly if its thread holds the lock, and
only lock calls sleep (`CallInv`); while a destroy is under way no lock call waits at the
door (`DestroyInv`, the posix rule of section 3). A waiter counts itself on and off under
the mutex, so the sets of holders and of waiters change by one thread wherever the
counters change by one. `waitings` is only bounded by the sleepers: signal and waiter both
decrement it, and both stop at 0.

### Model-checked only

Liveness (`PutTerminates`, `WaitEnds`, `CallsReturn`, `TakenUp`, `Served`,
`RemovedIsFreed`) is out of the prover's reach and checked by TLC on the instances of
section 4. Of the five violated properties, `PutFindsCount`, `NoDangling` and
`ClosedNeverPolled` are theorems under the conditions above; `DestroyedIsReclaimed` and
`FreedIsUnused` have no such condition in the code. Each inductive invariant was checked by TLC on the
instance of its run before it was proved.

## 7. Not modelled

Frame contents, `fb_find` / `fb_len` / `fb_category` (they read a chain the caller holds),
frames without an owner (`fb->msi` NULL, for which the put of the owner does nothing),
the multi-reader mode of the queue (no caller in the repository), the command paths of
`msi.c` (`msi_notify`, `msi_output_cmd`, trace), `utils.c`, allocation failure other than in
`msi_add_output` (the operation returns NULL and changes nothing).

What the usage rules and assumptions of the models leave out: `fb_ref` onto a frame that
others refer to already, which would leave their references uncovered or close a chain on
itself; more than 255 references to a frame (`FbAssumption`); one frame twice in a ring; a
queue drained beside a live reader; several creators of one component in `FrameBuff` (the
second branch of `msi_destroy` is in `Msi`). `OutputsStay` says nothing of placeholders, whose
outputs `msi_cmd` can lose (section 5). What a write to freed memory does to the heap
is not in `Msi`.

Of the event loop: the order of events within a list, timer arithmetic, the build without
the loopback socket, a `send` in `eloop_wakeup` that fails although the socket is not full
(the flag then stays up without a datagram), and a removal between the test of ENABLED and the
load of the flags when an event is armed (the lost update of `loop_remove` again). Of the read-write lock: recursive read locks, the static initialiser,
failures of kernel objects; `pthread_cond_*` and `os_condv_*` outside it.

The RTSP server is modelled only where it hands a socket to the loop. Its sessions are
changed by the loop's thread and by the live thread without any lock (`rtsp_common.c`:
`rtsp_open` pushes to `sess_list` while `rtsp_teardown` unlinks; `rtsp_setup` decides by
`handle.hdl` whether a live thread runs while that thread may be ending;
`rtsp_release_event` frees the connection that `del_session` then looks at), so that what
a model of it could check is which of these races comes first, rather than a promise that
holds; it is listed as a hazard.

The byte rings, socket monitor, key scan, pairing, media player and intercom are
further candidates (section 2). Drivers, codecs and display components are hardware
behind the action interface of the media core. By far the largest part of the repository
is vendored or generated (lwip, lvgl with its fonts, fatfs, mbedtls, curl, the rhino and
liteos kernels, resource tables, register headers) and is not this project's subject, so
the mapped share of the whole tree is small by nature.
