----------------------------- MODULE SvcTimeout -----------------------------
(***************************************************************************)
(* The time-outs of the system calls: nanoseconds given by the guest       *)
(* become an absolute tick in 64-bit arithmetic.  WaitForAddress,          *)
(* WaitProcessWideKeyAtomic, ReplyAndReceive and SleepThread clamp a sum   *)
(* that overflows; WaitSynchronization does not.                           *)
(*                                                                         *)
(* The guest waits for something that never happens: only the timer ends   *)
(* a wait.  KSynchronizationObject and KHardwareTimer have the rest.       *)
(***************************************************************************)
EXTENDS Integers

CONSTANTS
    MaxTick,        \* the largest s64, 2^63 - 1
    MaxNow          \* how far the clock gets: it does not run for 292 years

MaxTickAssumption == MaxTick \in Nat /\ MaxNow \in Nat /\ MaxNow < MaxTick

Tick == -(MaxTick + 1) .. MaxTick

VARIABLES
    now,            \* GetTick(), never negative
    pc,             \* "idle", "waiting", "polled" (came back at once), "timed out"
    asked, since,   \* the time-out of the call, and when it was made
    deadline        \* the tick given to the kernel

vars == <<now, pc, asked, since, deadline>>

TypeOK ==
    /\ now \in 0 .. MaxNow /\ since \in 0 .. MaxNow
    /\ asked \in Tick /\ deadline \in Tick
    /\ pc \in {"idle", "waiting", "polled", "timed out"}

Init == now = 0 /\ pc = "idle" /\ asked = 0 /\ since = 0 /\ deadline = 0
-----------------------------------------------------------------------------
\* Mutant: the sum is one of half the width.
ToS32(x) == IF x > MaxTick \div 2 THEN x - (MaxTick + 1) ELSE x

\* A sum of the clock and a time-out wraps at most once.
ToS64(x) == IF x > MaxTick THEN x - 2 * (MaxTick + 1) ELSE x

\* if (timeout <= 0) { timeout = max; }
Clamped(x) == IF x <= 0 THEN MaxTick ELSE x

\* timeout = GetTick() + timeout_ns + 2, of u64 and of s64: the bits are the same.
AbsoluteTick(ns) == IF ns > 0 THEN ToS64(now + ns + 2) ELSE ns

\* The kernel waits with a timer if the tick is positive, does not wait if it is zero, and
\* waits for ever if it is negative.
Wait(ns, tick) ==
    /\ pc = "idle"
    /\ asked' = ns /\ since' = now /\ deadline' = tick
    /\ pc' = IF tick = 0 THEN "polled" ELSE "waiting"
    /\ UNCHANGED now

WaitSynchronization(ns) == Wait(ns, AbsoluteTick(ns))

\* WaitForAddress, WaitProcessWideKeyAtomic and ReplyAndReceive.
WaitForAddress(ns) == Wait(ns, IF ns > 0 THEN Clamped(AbsoluteTick(ns)) ELSE ns)

\* A time-out that is not positive is a kind of yield.
SleepThread(ns) == ns > 0 /\ Wait(ns, Clamped(AbsoluteTick(ns)))

\* The timer runs the tasks whose time has come.
OnTimer ==
    /\ pc = "waiting" /\ 0 < deadline /\ deadline <= now
    /\ pc' = "timed out"
    /\ UNCHANGED <<now, asked, since, deadline>>

Return ==
    /\ pc \in {"polled", "timed out"}
    /\ pc' = "idle" /\ asked' = 0 /\ since' = 0 /\ deadline' = 0
    /\ UNCHANGED now

Advance ==
    /\ now < MaxNow
    /\ now' = now + 1
    /\ UNCHANGED <<pc, asked, since, deadline>>

Next ==
    \/ \E ns \in Tick : WaitSynchronization(ns) \/ WaitForAddress(ns) \/ SleepThread(ns)
    \/ OnTimer \/ Return \/ Advance

Spec == Init /\ [][Next]_vars
-----------------------------------------------------------------------------
\* A wait that times out has lasted as long as the guest asked for, whatever the sum of the
\* clock and the time-out did, and one that comes back at once was asked to.
NeverEarly ==
    /\ pc = "timed out" => asked > 0 /\ now - since >= asked
    /\ pc = "polled" => asked = 0

\* A wait without an end was asked for, or would have ended after the end of the clock.
EndlessIsLong ==
    pc = "waiting" /\ deadline < 0 => asked < 0 \/ since + asked + 2 > MaxTick
=============================================================================
