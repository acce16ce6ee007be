------------------------- MODULE RateLimiterThreads -------------------------
(***************************************************************************)
(* Threads on one InMemoryRateLimiter.  check_and_record reads the clock   *)
(* before it takes the mutex, so any number of other requests, and any     *)
(* amount of time, can pass between the reading and its use.               *)
(***************************************************************************)
EXTENDS RateLimiter, Sequences, FiniteSets, FiniteSetsExt

CONSTANTS
    MaxGrants,   \* bound on the requests ever granted
    MaxStall     \* ticks a thread can be delayed between clock and mutex

ASSUME ThreadsAssumption == MaxGrants \in Nat /\ MaxStall \in Nat

VARIABLES
    reading,   \* thread -> its key and clock reading, or None
    grants,    \* history: per bucket, the granted requests
    epoch      \* history: operator -> how often it was reset

vars == <<buckets, now, reading, grants, epoch>>

None == <<>>

Init ==
    /\ LimiterInit
    /\ now = Window
    /\ reading = [t \in Threads |-> None]
    /\ grants = [k \in Keys |-> <<>>]
    /\ epoch = [o \in Operators |-> 0]

Granted == MapThenSumSet(LAMBDA k : Len(grants[k]), Keys)

(* const auto now = clock_.now();                                          *)
ReadClock(t, k) ==
    /\ reading[t] = None
    /\ Granted < MaxGrants
    /\ reading' = [reading EXCEPT ![t] = [key |-> k, at |-> now]]
    /\ UNCHANGED <<buckets, now, grants, epoch>>

(* The rest of check_and_record, under the mutex.                          *)
CheckAndRecord(t) ==
    /\ reading[t] # None
    /\ LET k == reading[t].key
       IN  /\ check_and_record(k, reading[t].at)
           /\ grants' = IF Admits(k, reading[t].at)
                        THEN [grants EXCEPT ![k] =
                                 Append(@, [when   |-> now,
                                            window |-> Current(k, reading[t].at).window_start,
                                            epoch  |-> epoch[k[1]]])]
                        ELSE grants
    /\ reading' = [reading EXCEPT ![t] = None]
    /\ UNCHANGED <<now, epoch>>

(* Tear-down of an operator session; the history remembers it by epoch.    *)
Reset(o) ==
    /\ \E c \in Classes : buckets[<<o, c>>] # NewBucket
    /\ reset(o)
    /\ epoch' = [epoch EXCEPT ![o] = @ + 1]
    /\ UNCHANGED <<now, reading, grants>>

Tick ==
    /\ now < MaxTime
    /\ \A t \in Threads : reading[t] # None => now < reading[t].at + MaxStall
    /\ now' = now + 1
    /\ UNCHANGED <<buckets, reading, grants, epoch>>

Next ==
    \/ \E t \in Threads, k \in Keys : ReadClock(t, k)
    \/ \E t \in Threads : CheckAndRecord(t)
    \/ \E o \in Operators : Reset(o)
    \/ Tick

Spec == Init /\ [][Next]_vars

-----------------------------------------------------------------------------
TypeOK ==
    /\ buckets \in [Keys -> Bucket]
    /\ now \in Nat
    /\ \A t \in Threads : reading[t] = None \/
           (reading[t] \in [key : Keys, at : Nat] /\ reading[t].at <= now)
    /\ \A k \in Keys : buckets[k].window_start <= now

GrantsIn(k, P(_)) == {i \in DOMAIN grants[k] : P(grants[k][i])}

(* The grants of the window that is open in bucket k now.                  *)
InOpenWindow(k) ==
    GrantsIn(k, LAMBDA g : g.window = buckets[k].window_start /\ g.epoch = epoch[k[1]])

(* The counter is exactly the number of requests granted in the open       *)
(* window, and no window ever grants more than its limit, however clock    *)
(* readings and lock acquisitions interleave.                              *)
CountIsExact ==
    \A k \in Keys :
        /\ buckets[k].count = Cardinality(InOpenWindow(k))
        /\ buckets[k].count <= limit_for[k[2]]

(* The part of the state every other guarantee rests on.                   *)
LimiterInv == TypeOK /\ CountIsExact

(* Windows of one bucket never overlap: a stale clock reading cannot       *)
(* reopen or shorten a window, only reset() gives one up early.            *)
WindowsDisjoint ==
    [][\A k \in Keys :
           \/ buckets'[k].window_start = buckets[k].window_start
           \/ buckets'[k].window_start >= buckets[k].window_start + Window
           \/ epoch'[k[1]] # epoch[k[1]]]_vars

(* A request is only ever rejected because a full quota was granted within *)
(* the window duration before its clock reading.                           *)
RejectionJustified ==
    [][\A t \in Threads :
           reading[t] # None /\ reading'[t] = None /\ grants' = grants =>
               LET k == reading[t].key
               IN  Cardinality(GrantsIn(k, LAMBDA g : g.when + Window > reading[t].at))
                       >= limit_for[k[2]]]_vars

(* Grants to k within one window duration from tick x, no reset between.   *)
GrantedFrom(k, x) ==
    GrantsIn(k, LAMBDA g : x <= g.when /\ g.when < x + Window /\ g.epoch = epoch[k[1]])

(* Windows are fixed, not sliding, so a stretch of one window duration can *)
(* meet two of them; every started window duration that a thread can be    *)
(* delayed between clock and mutex adds one more quota, and no more.       *)
BurstBounded ==
    \A k \in Keys, x \in 0..MaxTime :
        Cardinality(GrantedFrom(k, x))
            <= (2 + (MaxStall + Window - 1) \div Window) * limit_for[k[2]]
=============================================================================
