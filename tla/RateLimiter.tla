----------------------------- MODULE RateLimiter -----------------------------
(***************************************************************************)
(* InMemoryRateLimiter: one bucket per (operator, blast class), a request  *)
(* count and the time the current window started.  A missing bucket is the *)
(* default one, whose window started at the epoch.  Time is in ticks; a    *)
(* real clock is far past the epoch, so it never shows less than Window.   *)
(* Threads come to it with readings of the clock they took themselves.     *)
(***************************************************************************)
EXTENDS Naturals

CONSTANTS
    Operators, Classes,
    limit_for,   \* blast class -> requests per window
    Window,      \* window_duration
    Threads,
    MaxTime      \* bound on the clock

ASSUME LimiterAssumption ==
    /\ limit_for \in [Classes -> Nat]
    /\ Window \in Nat \ {0}
    /\ MaxTime \in Nat

VARIABLES
    buckets,
    now        \* the clock

Keys == Operators \X Classes

Bucket == [count : Nat, window_start : Nat]

NewBucket == [count |-> 0, window_start |-> 0]

LimiterInit == buckets = [k \in Keys |-> NewBucket]

(* Faulty variants: the end of the window stored as its start; a window    *)
(* given up one tick early.                                                *)
CurrentByEnd(k, t) ==
    IF t >= buckets[k].window_start
    THEN [count |-> 0, window_start |-> t + Window]
    ELSE buckets[k]

CurrentTooEarly(k, t) ==
    IF t + 1 >= buckets[k].window_start + Window
    THEN [count |-> 0, window_start |-> t]
    ELSE buckets[k]

(* The bucket after the expiry check of a request that read the clock at t.*)
Current(k, t) ==
    IF t >= buckets[k].window_start + Window
    THEN [count |-> 0, window_start |-> t]
    ELSE buckets[k]

(* Faulty variants: one request too many; the count looked at before the   *)
(* window is restarted.                                                    *)
AdmitsOneMore(k, t) == Current(k, t).count <= limit_for[k[2]]

AdmitsByOldCount(k, t) == buckets[k].count < limit_for[k[2]]

Admits(k, t) == Current(k, t).count < limit_for[k[2]]

(* check_and_record under the mutex: a rejected request still restarts an  *)
(* expired window.                                                         *)
check_and_record(k, t) ==
    buckets' = [buckets EXCEPT ![k] =
                   IF Admits(k, t)
                   THEN [Current(k, t) EXCEPT !.count = @ + 1]
                   ELSE Current(k, t)]

reset(operator) ==
    buckets' = [k \in Keys |-> IF k[1] = operator THEN NewBucket ELSE buckets[k]]
=============================================================================
