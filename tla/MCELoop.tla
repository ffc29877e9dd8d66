------------------------------ MODULE MCELoop ------------------------------
(***************************************************************************)
(* Instances of ELoop for TLC.                                             *)
(***************************************************************************)
EXTENDS ELoop, TLC

CONSTANTS lo, fd, tm, loop, t1

\* The callbacks own a socket event; thread t1 adds alarms and timers.
MCKind  == (lo :> "fd") @@ (fd :> "fd") @@ (tm :> "time")
MCAddFlags == (fd :> {{}, {"ENABLED"}}) @@ (tm :> {{"ENABLED", "ONESHOT"}, {"ENABLED"}})
MCOwner == (fd :> loop) @@ (tm :> t1)

\* Thread t1 owns both: it removes the socket event and then adds the alarm
\* that closes its socket, as del_rtp_endpoint does on the live thread.
MCRtpOwner == (fd :> t1) @@ (tm :> t1)
=============================================================================
