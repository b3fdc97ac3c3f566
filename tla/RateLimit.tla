----------------------------- MODULE RateLimit -----------------------------
(***************************************************************************)
(* The sliding-window limiters of the server: one that counts by source    *)
(* address before a request is authenticated, one by subject after.  A     *)
(* check reads the time first and takes the lock after, so the stamps of   *)
(* two requests may enter a deque in either order.                         *)
(*                                                                         *)
(* A deque is written as the tail of a log: log[k] has every request of    *)
(* key k that was let through, front[k] says how many of them were popped. *)
(***************************************************************************)
EXTENDS Integers, Sequences, FiniteSets

Surfaces == {"ip", "subject"}

CONSTANTS
    Keys,           \* addresses and subjects
    Surface,        \* which limiter counts a key
    Limits,         \* the limits a server may be run with, per limiter; 0 is off
    Window,         \* length of the window, in ticks
    Second,         \* ticks in a second
    GcEvery         \* GC_EVERY

ASSUME RateAssumption ==
    /\ Surface \in [Keys -> Surfaces]
    /\ Limits # {} /\ Limits \subseteq [Surfaces -> Nat]
    /\ Window \in Nat \ {0} /\ Second \in Nat \ {0} /\ GcEvery \in Nat \ {0}

VARIABLES
    clock,
    limit,          \* the limits of this server
    log,            \* per key: [stamp: time it read, at: time it held the lock]
    front,          \* per key: how many have left the deque
    since_gc        \* per limiter: requests since the last sweep

rateVars == <<clock, limit, log, front, since_gc>>

RateInit ==
    /\ clock = 0
    /\ limit \in Limits
    /\ log = [k \in Keys |-> <<>>]
    /\ front = [k \in Keys |-> 0]
    /\ since_gc = [s \in Surfaces |-> 0]

\* A new process starts with empty deques.
Restarted ==
    /\ log' = [k \in Keys |-> <<>>]
    /\ front' = [k \in Keys |-> 0]
    /\ since_gc' = [s \in Surfaces |-> 0]

\* Instant::duration_since, which saturates.
duration_since(now, t) == IF now >= t THEN now - t ELSE 0
Aged(k, i, now) == duration_since(now, log[k][i].stamp) >= Window

\* while front is aged, pop_front.
PoppedTo(k, now) ==
    CHOOSE f \in front[k]..Len(log[k]) :
        /\ \A i \in (front[k] + 1)..f : Aged(k, i, now)
        /\ f = Len(log[k]) \/ ~Aged(k, f + 1, now)

GcDue(k) == since_gc[Surface[k]] + 1 >= GcEvery
Swept(k) == IF GcDue(k) THEN {j \in Keys : Surface[j] = Surface[k]} ELSE {k}
Off(k) == limit[Surface[k]] = 0

\* What check reads before it takes the lock; a limiter that is off reads nothing.
TimeRead(k) == IF Off(k) THEN 0 ELSE clock

\* A mistake: one more than the limit.
SlipFull(k, now) == Len(log[k]) - PoppedTo(k, now) > limit[Surface[k]]
Full(k, now) == Len(log[k]) - PoppedTo(k, now) >= limit[Surface[k]]

Sweep(k, now) ==
    /\ front' = [j \in Keys |-> IF j \in Swept(k) THEN PoppedTo(j, now) ELSE front[j]]
    /\ since_gc' = [since_gc EXCEPT ![Surface[k]] = IF GcDue(k) THEN 0 ELSE @ + 1]

\* check, by a request that read the time now: let through and recorded, or
\* refused.
LetThrough(k, now) ==
    \/ Off(k) /\ UNCHANGED rateVars
    \/ /\ ~Off(k) /\ ~Full(k, now)
       /\ Sweep(k, now)
       /\ log' = [log EXCEPT ![k] = Append(@, [stamp |-> now, at |-> clock])]
       /\ UNCHANGED <<clock, limit>>

Throttle(k, now) ==
    /\ ~Off(k) /\ Full(k, now)
    /\ Sweep(k, now)
    /\ UNCHANGED <<clock, limit, log>>

\* Retry-After, in whole seconds: as_secs truncates.
SlipRetry(k, now) ==
    LET elapsed == duration_since(now, log[k][PoppedTo(k, now) + 1].stamp)
    IN  elapsed \div Second

retry_after(k, now) ==
    LET elapsed == duration_since(now, log[k][PoppedTo(k, now) + 1].stamp)
        remaining == IF elapsed >= Window THEN 0 ELSE Window - elapsed
    IN  IF remaining < Second THEN 1 ELSE remaining \div Second

-----------------------------------------------------------------------------
\* From the moment a request read the time, no more than the limit, itself
\* included, are let through before a window has gone by: however long they
\* waited for the lock and in whatever order they got it, and whoever popped
\* the deque in between (rate_limit.rs check).
WindowRespected ==
    \A k \in Keys : ~Off(k) =>
        \A i \in DOMAIN log[k] : i + limit[Surface[k]] \in DOMAIN log[k] =>
            log[k][i + limit[Surface[k]]].at - log[k][i].stamp >= Window
=============================================================================
