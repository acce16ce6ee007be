---------------------------- MODULE Limits_proofs ----------------------------
(***************************************************************************)
(* What the rate limiter promises for any number of threads, operators and *)
(* blast classes, any limits and any window duration, however long a       *)
(* request is delayed between reading the clock and taking the mutex; and  *)
(* what the validation pipeline makes of it and of the budget controller,  *)
(* for any registry, requests, ceilings and size of an unsigned integer.   *)
(***************************************************************************)
EXTENDS RateLimiterThreads, ValidationPipeline, FiniteSetTheorems, WellFoundedInduction, SequenceTheorems, TLAPS

-----------------------------------------------------------------------------
(* Natural numbers *)

LEMMA NatInductionSet ==
    ASSUME NEW T, 0 \in T, \A n \in Nat : n \in T => n + 1 \in T
    PROVE  Nat \subseteq T
<1> SUFFICES ASSUME Nat \ T # {} PROVE FALSE
  OBVIOUS
<1>1. PICK x \in Nat \ T : \A y \in Nat \ T : ~(<<y, x>> \in OpToRel(<, Nat))
  BY NatLessThanWellFounded, WFMin
<1>2. \A y \in Nat \ T : ~(y < x)
  BY <1>1 DEF OpToRel
<1>3. x # 0 /\ x - 1 \in Nat /\ x - 1 < x /\ (x - 1) + 1 = x
  OBVIOUS
<1>4. x - 1 \in T
  BY <1>2, <1>3
<1> QED
  BY <1>3, <1>4

-----------------------------------------------------------------------------
(* One bucket and the history of its grants *)

Grant == [when : Nat, window : Nat, epoch : Nat]

GrantedIn(gs, e, w) == {i \in DOMAIN gs : gs[i].window = w /\ gs[i].epoch = e}

Apart(v, w) == v = w \/ v + Window <= w \/ w + Window <= v

(* Bucket b is what the grants gs made so far, those of epoch e since the  *)
(* last reset, add up to at time n, with quota q.  The count is exact, no  *)
(* window has more than its quota, and windows do not overlap, one that is *)
(* over included: that is what an old clock reading cannot undo.           *)
BucketSound(b, gs, e, n, q) ==
    /\ b \in Bucket /\ gs \in Seq(Grant) /\ e \in Nat /\ n \in Nat /\ q \in Nat
    /\ b.window_start <= n
    /\ b.count = Cardinality(GrantedIn(gs, e, b.window_start))
    /\ \A w \in Nat : Cardinality(GrantedIn(gs, e, w)) <= q
    /\ \A i \in DOMAIN gs :
           /\ gs[i].window <= gs[i].when /\ gs[i].when <= n
           /\ gs[i].when < gs[i].window + Window + MaxStall
           /\ gs[i].epoch <= e
           /\ gs[i].epoch = e =>
                  gs[i].window = b.window_start \/ gs[i].window + Window <= b.window_start
    /\ \A i, j \in DOMAIN gs :
           gs[i].epoch = e /\ gs[j].epoch = e => Apart(gs[i].window, gs[j].window)

(* The inductive invariant.                                                *)
LimiterSound ==
    /\ now \in Nat
    /\ buckets \in [Keys -> Bucket]
    /\ grants \in [Keys -> Seq(Grant)]
    /\ epoch \in [Operators -> Nat]
    /\ reading \in [Threads -> {None} \cup [key : Keys, at : Nat]]
    /\ \A t \in Threads :
           reading[t] # None => reading[t].at <= now /\ now <= reading[t].at + MaxStall
    /\ \A k \in Keys : BucketSound(buckets[k], grants[k], epoch[k[1]], now, limit_for[k[2]])

LEMMA GrantTyped ==
    ASSUME NEW gs \in Seq(Grant), NEW i \in DOMAIN gs
    PROVE  gs[i].when \in Nat /\ gs[i].window \in Nat /\ gs[i].epoch \in Nat
<1>1. gs[i] \in Grant
  BY ElementOfSeq, LenProperties
<1> QED
  BY <1>1 DEF Grant

LEMMA GrantsFinite ==
    ASSUME NEW gs \in Seq(Grant), NEW S, S \subseteq DOMAIN gs
    PROVE  IsFiniteSet(S) /\ Cardinality(S) \in Nat
<1>1. Len(gs) \in Nat /\ DOMAIN gs = 1..Len(gs)
  BY LenProperties
<1>2. IsFiniteSet(1..Len(gs))
  BY <1>1, FS_Interval
<1> QED
  BY <1>1, <1>2, FS_Subset, FS_CardinalityType

LEMMA SoundEmpty ==
    ASSUME NEW n \in Nat, NEW q \in Nat
    PROVE  BucketSound(NewBucket, <<>>, 0, n, q)
<1>1. PICK gs : gs = <<>>
  OBVIOUS
<1>2. NewBucket \in Bucket /\ NewBucket.count = 0 /\ NewBucket.window_start = 0
  BY DEF NewBucket, Bucket
<1>3. gs \in Seq(Grant) /\ DOMAIN gs = {}
  BY <1>1
<1>4. \A w : GrantedIn(gs, 0, w) = {}
  BY <1>3 DEF GrantedIn
<1>5. Cardinality({}) = 0
  BY FS_EmptySet
<1>6. /\ \A w : Cardinality(GrantedIn(gs, 0, w)) <= q
      /\ NewBucket.count = Cardinality(GrantedIn(gs, 0, NewBucket.window_start))
  BY <1>2, <1>4, <1>5
<1>7. BucketSound(NewBucket, gs, 0, n, q)
  BY <1>2, <1>3, <1>6 DEF BucketSound
<1> QED
  BY <1>1, <1>7

LEMMA SoundLater ==
    ASSUME NEW b, NEW gs, NEW e, NEW n, NEW q, BucketSound(b, gs, e, n, q), NEW m \in Nat, n <= m
    PROVE  BucketSound(b, gs, e, m, q)
<1>1. ASSUME NEW i \in DOMAIN gs PROVE gs[i].when <= m
  <2>1. gs[i].when \in Nat /\ gs[i].epoch \in Nat
    BY GrantTyped DEF BucketSound
  <2> QED
    BY <2>1 DEF BucketSound
<1>2. b.window_start <= m
  BY DEF BucketSound, Bucket
<1> QED
  BY <1>1, <1>2 DEF BucketSound

(* A reset begins an epoch without grants.                                 *)
LEMMA SoundReset ==
    ASSUME NEW b, NEW gs, NEW e, NEW n, NEW q, BucketSound(b, gs, e, n, q)
    PROVE  BucketSound(NewBucket, gs, e + 1, n, q)
<1>1. ASSUME NEW i \in DOMAIN gs PROVE gs[i].epoch <= e + 1 /\ gs[i].epoch # e + 1
  <2>1. gs[i].when \in Nat /\ gs[i].epoch \in Nat
    BY GrantTyped DEF BucketSound
  <2> QED
    BY <2>1 DEF BucketSound
<1>2. \A w : GrantedIn(gs, e + 1, w) = {}
  BY <1>1 DEF GrantedIn
<1>3. Cardinality({}) = 0
  BY FS_EmptySet
<1>4. NewBucket \in Bucket /\ NewBucket.window_start = 0 /\ NewBucket.count = 0
  BY DEF NewBucket, Bucket
<1>5. /\ \A w \in Nat : Cardinality(GrantedIn(gs, e + 1, w)) <= q
      /\ NewBucket.count = Cardinality(GrantedIn(gs, e + 1, NewBucket.window_start))
  <2>1. q \in Nat
    BY DEF BucketSound
  <2> QED
    BY <1>2, <1>3, <1>4, <2>1
<1>6. gs \in Seq(Grant) /\ e + 1 \in Nat /\ n \in Nat /\ q \in Nat /\ NewBucket.window_start <= n
  BY <1>4 DEF BucketSound
<1>7. ASSUME NEW i \in DOMAIN gs
      PROVE  /\ gs[i].window <= gs[i].when /\ gs[i].when <= n
             /\ gs[i].when < gs[i].window + Window + MaxStall
  BY DEF BucketSound
<1> QED
  BY <1>1, <1>4, <1>5, <1>6, <1>7 DEF BucketSound

(* A new window is apart from all earlier ones.                            *)
LEMMA SoundExpired ==
    ASSUME NEW b, NEW gs, NEW e, NEW n, NEW q, BucketSound(b, gs, e, n, q),
           NEW t \in Nat, t <= n, t >= b.window_start + Window
    PROVE  BucketSound([count |-> 0, window_start |-> t], gs, e, n, q)
<1>1. PICK c : c = [count |-> 0, window_start |-> t]
  OBVIOUS
<1>2. c \in Bucket /\ c.count = 0 /\ c.window_start = t
  BY <1>1 DEF Bucket
<1>3. ASSUME NEW i \in DOMAIN gs, gs[i].epoch = e PROVE gs[i].window + Window <= t /\ gs[i].window # t
  <2>1. gs[i].window \in Nat
    BY GrantTyped DEF BucketSound
  <2>2. b.window_start \in Nat
    BY DEF BucketSound, Bucket
  <2>3. gs[i].window = b.window_start \/ gs[i].window + Window <= b.window_start
    BY <1>3 DEF BucketSound
  <2> QED
    BY <2>1, <2>2, <2>3, LimiterAssumption
<1>4. GrantedIn(gs, e, t) = {}
  BY <1>3 DEF GrantedIn
<1>5. Cardinality({}) = 0
  BY FS_EmptySet
<1>6. BucketSound(c, gs, e, n, q)
  BY <1>2, <1>3, <1>4, <1>5 DEF BucketSound
<1> QED
  BY <1>1, <1>6

LEMMA SoundGranted ==
    ASSUME NEW b, NEW gs, NEW e, NEW n, NEW q, BucketSound(b, gs, e, n, q),
           b.count < q, n < b.window_start + Window + MaxStall
    PROVE  BucketSound([b EXCEPT !.count = @ + 1],
                       Append(gs, [when |-> n, window |-> b.window_start, epoch |-> e]), e, n, q)
<1>1. PICK c : c = [b EXCEPT !.count = @ + 1]
  OBVIOUS
<1>2. PICK g : g = [when |-> n, window |-> b.window_start, epoch |-> e]
  OBVIOUS
<1>3. PICK hs : hs = Append(gs, g)
  OBVIOUS
<1>4. c \in Bucket /\ c.count = b.count + 1 /\ c.window_start = b.window_start /\ b.count \in Nat
  BY <1>1 DEF BucketSound, Bucket
<1>5. g \in Grant /\ g.when = n /\ g.window = b.window_start /\ g.epoch = e
  BY <1>2 DEF BucketSound, Bucket, Grant
<1>6. PICK l \in Nat : l = Len(gs) /\ DOMAIN gs = 1..l
  BY LenProperties DEF BucketSound
<1>7. /\ hs \in Seq(Grant) /\ Len(hs) = l + 1 /\ hs[l + 1] = g
      /\ \A i \in DOMAIN gs : hs[i] = gs[i]
  BY <1>3, <1>5, <1>6, AppendProperties DEF BucketSound
<1>8. DOMAIN hs = DOMAIN gs \cup {l + 1} /\ l + 1 \notin DOMAIN gs
  BY <1>6, <1>7, LenProperties
<1>9. GrantedIn(hs, e, b.window_start) = GrantedIn(gs, e, b.window_start) \cup {l + 1}
  BY <1>5, <1>7, <1>8 DEF GrantedIn
<1>10. \A w \in Nat : w # b.window_start => GrantedIn(hs, e, w) = GrantedIn(gs, e, w)
  BY <1>5, <1>7, <1>8 DEF GrantedIn
<1>11. Cardinality(GrantedIn(hs, e, b.window_start)) = b.count + 1
  <2>1. GrantedIn(gs, e, b.window_start) \subseteq DOMAIN gs
    BY DEF GrantedIn
  <2>2. IsFiniteSet(GrantedIn(gs, e, b.window_start)) /\ l + 1 \notin GrantedIn(gs, e, b.window_start)
    BY <1>8, <2>1, GrantsFinite DEF BucketSound
  <2>3. b.count = Cardinality(GrantedIn(gs, e, b.window_start))
    BY DEF BucketSound
  <2> QED
    BY <1>9, <2>2, <2>3, FS_AddElement
<1>12. \A w \in Nat : Cardinality(GrantedIn(hs, e, w)) <= q
  BY <1>4, <1>10, <1>11 DEF BucketSound
<1>13. /\ b.window_start <= n /\ n <= n /\ b.window_start \in Nat
       /\ e <= e
  BY DEF BucketSound, Bucket
<1>14. ASSUME NEW i \in DOMAIN hs
       PROVE  /\ hs[i].window <= hs[i].when /\ hs[i].when <= n
              /\ hs[i].when < hs[i].window + Window + MaxStall
              /\ hs[i].epoch <= e
              /\ hs[i].epoch = e =>
                     hs[i].window = b.window_start \/ hs[i].window + Window <= b.window_start
  <2>1. CASE i \in DOMAIN gs
    <3>1. hs[i] = gs[i]
      BY <1>7, <2>1
    <3> QED
      BY <2>1, <3>1 DEF BucketSound
  <2>2. CASE i = l + 1
    BY <1>5, <1>7, <1>13, <2>2
  <2> QED
    BY <1>8, <2>1, <2>2
<1>15. ASSUME NEW i \in DOMAIN hs, NEW j \in DOMAIN hs, hs[i].epoch = e, hs[j].epoch = e
       PROVE  Apart(hs[i].window, hs[j].window)
  <2>1. CASE i \in DOMAIN gs /\ j \in DOMAIN gs
    BY <1>7, <1>15, <2>1 DEF BucketSound
  <2>2. CASE i = l + 1
    BY <1>5, <1>7, <1>14, <1>15, <2>2 DEF Apart
  <2>3. CASE j = l + 1
    BY <1>5, <1>7, <1>14, <1>15, <2>3 DEF Apart
  <2> QED
    BY <1>8, <2>1, <2>2, <2>3
<1>16. BucketSound(c, hs, e, n, q)
  BY <1>4, <1>7, <1>11, <1>12, <1>13, <1>14, <1>15 DEF BucketSound
<1> QED
  BY <1>1, <1>2, <1>3, <1>16

-----------------------------------------------------------------------------
(* Steps *)

(* A bucket that is not touched stays sound while time passes.             *)
LEMMA OthersStay ==
    ASSUME LimiterSound, NEW k \in Keys, UNCHANGED epoch, now' \in Nat, now <= now',
           buckets'[k] = buckets[k], grants'[k] = grants[k]
    PROVE  BucketSound(buckets[k], grants[k], epoch[k[1]], now, limit_for[k[2]])'
BY SoundLater DEF LimiterSound

LEMMA CheckKeeps ==
    ASSUME LimiterSound, NEW t \in Threads, CheckAndRecord(t)
    PROVE  LimiterSound'
<1>1. PICK k \in Keys, r \in Nat :
          /\ k = reading[t].key /\ r = reading[t].at /\ r <= now /\ now <= r + MaxStall
  BY DEF CheckAndRecord, LimiterSound
<1>2. PICK b : b = Current(k, r)
  OBVIOUS
<1>3. BucketSound(b, grants[k], epoch[k[1]], now, limit_for[k[2]])
  <2>1. BucketSound(buckets[k], grants[k], epoch[k[1]], now, limit_for[k[2]])
    BY DEF LimiterSound
  <2> QED
    BY <1>1, <1>2, <2>1, SoundExpired DEF Current
<1>4. b \in Bucket /\ b.count \in Nat /\ b.window_start \in Nat
  BY <1>3 DEF BucketSound, Bucket
<1>5. now < b.window_start + Window + MaxStall
  <2>1. r < b.window_start + Window
    BY <1>1, <1>2, LimiterAssumption DEF Current, LimiterSound, Bucket
  <2> QED
    BY <1>1, <1>4, <2>1, LimiterAssumption, ThreadsAssumption DEF LimiterSound
<1>6. PICK c : c = [b EXCEPT !.count = @ + 1]
  OBVIOUS
<1>7. PICK g : g = [when |-> now, window |-> b.window_start, epoch |-> epoch[k[1]]]
  OBVIOUS
<1>8. /\ UNCHANGED <<now, epoch>>
      /\ reading' = [reading EXCEPT ![t] = None]
      /\ buckets' = [buckets EXCEPT ![k] = IF b.count < limit_for[k[2]] THEN c ELSE b]
      /\ grants' = IF b.count < limit_for[k[2]]
                   THEN [grants EXCEPT ![k] = Append(grants[k], g)] ELSE grants
  BY <1>1, <1>2, <1>6, <1>7 DEF CheckAndRecord, check_and_record, Admits
<1>9. c \in Bucket /\ g \in Grant
  <2>1. epoch[k[1]] \in Nat /\ now \in Nat
    BY <1>3 DEF BucketSound
  <2>2. c \in Bucket
    BY <1>4, <1>6 DEF Bucket
  <2> QED
    BY <1>4, <1>7, <2>1, <2>2 DEF Grant
<1>10. BucketSound(buckets[k], grants[k], epoch[k[1]], now, limit_for[k[2]])'
  <2>1. CASE b.count < limit_for[k[2]]
    <3>1. BucketSound(c, Append(grants[k], g), epoch[k[1]], now, limit_for[k[2]])
      BY <1>3, <1>5, <1>6, <1>7, <2>1, SoundGranted
    <3>2. buckets'[k] = c /\ grants'[k] = Append(grants[k], g)
      BY <1>8, <2>1 DEF LimiterSound
    <3> QED
      BY <1>8, <3>1, <3>2
  <2>2. CASE ~(b.count < limit_for[k[2]])
    <3>1. buckets'[k] = b /\ grants'[k] = grants[k]
      BY <1>8, <2>2 DEF LimiterSound
    <3> QED
      BY <1>3, <1>8, <3>1
  <2> QED
    BY <2>1, <2>2
<1>11. ASSUME NEW h \in Keys, h # k
       PROVE  BucketSound(buckets[h], grants[h], epoch[h[1]], now, limit_for[h[2]])'
  <2>1. buckets'[h] = buckets[h] /\ grants'[h] = grants[h] /\ now' \in Nat /\ now <= now'
    BY <1>8, <1>11 DEF LimiterSound
  <2> QED
    BY <1>8, <2>1, OthersStay
<1>12. /\ buckets' \in [Keys -> Bucket]
       /\ grants' \in [Keys -> Seq(Grant)]
  <2>1. Append(grants[k], g) \in Seq(Grant)
    BY <1>9, AppendProperties DEF LimiterSound
  <2> QED
    BY <1>4, <1>8, <1>9, <2>1 DEF LimiterSound
<1>13. /\ reading' \in [Threads -> {None} \cup [key : Keys, at : Nat]]
       /\ \A u \in Threads :
              reading'[u] # None => reading'[u].at <= now' /\ now' <= reading'[u].at + MaxStall
  BY <1>8 DEF LimiterSound
<1> QED
  BY <1>8, <1>10, <1>11, <1>12, <1>13 DEF LimiterSound

LEMMA ResetKeeps ==
    ASSUME LimiterSound, NEW o \in Operators, Reset(o)
    PROVE  LimiterSound'
<1>1. /\ buckets' = [k \in Keys |-> IF k[1] = o THEN NewBucket ELSE buckets[k]]
      /\ epoch' = [epoch EXCEPT ![o] = @ + 1]
      /\ UNCHANGED <<now, reading, grants>>
  BY DEF Reset, reset
<1>2. NewBucket \in Bucket
  BY DEF NewBucket, Bucket
<1>3. ASSUME NEW k \in Keys
      PROVE  BucketSound(buckets[k], grants[k], epoch[k[1]], now, limit_for[k[2]])'
  <2>1. BucketSound(buckets[k], grants[k], epoch[k[1]], now, limit_for[k[2]]) /\ k[1] \in Operators
    BY DEF LimiterSound, Keys
  <2>2. CASE k[1] = o
    <3>1. buckets'[k] = NewBucket /\ epoch'[k[1]] = epoch[k[1]] + 1
      BY <1>1, <2>2 DEF LimiterSound
    <3> QED
      BY <1>1, <2>1, <3>1, SoundReset
  <2>3. CASE k[1] # o
    <3>1. buckets'[k] = buckets[k] /\ epoch'[k[1]] = epoch[k[1]]
      BY <1>1, <2>1, <2>3 DEF LimiterSound
    <3> QED
      BY <1>1, <2>1, <3>1
  <2> QED
    BY <2>2, <2>3
<1> QED
  BY <1>1, <1>2, <1>3 DEF LimiterSound

LEMMA LimiterStays == LimiterSound /\ [Next]_vars => LimiterSound'
<1> SUFFICES ASSUME LimiterSound, [Next]_vars PROVE LimiterSound'
  OBVIOUS
<1>1. ASSUME NEW t \in Threads, NEW k \in Keys, ReadClock(t, k) PROVE LimiterSound'
  <2>1. /\ reading' = [reading EXCEPT ![t] = [key |-> k, at |-> now]]
        /\ UNCHANGED <<buckets, now, grants, epoch>>
    BY <1>1 DEF ReadClock
  <2>2. reading' \in [Threads -> {None} \cup [key : Keys, at : Nat]]
    BY <2>1 DEF LimiterSound
  <2>3. ASSUME NEW u \in Threads, reading'[u] # None
        PROVE  reading'[u].at <= now' /\ now' <= reading'[u].at + MaxStall
    <3>1. CASE u = t
      <4>1. reading'[u].at = now
        BY <2>1, <3>1 DEF LimiterSound
      <4> QED
        BY <2>1, <4>1, ThreadsAssumption DEF LimiterSound
    <3>2. CASE u # t
      BY <2>1, <2>3, <3>2 DEF LimiterSound
    <3> QED
      BY <3>1, <3>2
  <2> QED
    BY <2>1, <2>2, <2>3 DEF LimiterSound
<1>2. ASSUME NEW t \in Threads, CheckAndRecord(t) PROVE LimiterSound'
  BY <1>2, CheckKeeps
<1>3. ASSUME NEW o \in Operators, Reset(o) PROVE LimiterSound'
  BY <1>3, ResetKeeps
<1>4. CASE Tick
  <2>1. /\ now' = now + 1 /\ now \in Nat /\ UNCHANGED <<buckets, reading, grants, epoch>>
        /\ \A t \in Threads : reading[t] # None => now < reading[t].at + MaxStall
    BY <1>4 DEF Tick, LimiterSound
  <2>2. ASSUME NEW k \in Keys
        PROVE  BucketSound(buckets[k], grants[k], epoch[k[1]], now, limit_for[k[2]])'
    BY <2>1, OthersStay
  <2>3. ASSUME NEW t \in Threads, reading[t] # None
        PROVE  reading[t].at <= now' /\ now' <= reading[t].at + MaxStall
    <3>1. reading[t].at \in Nat /\ reading[t].at <= now
      BY <2>3 DEF LimiterSound
    <3> QED
      BY <2>1, <2>3, <3>1, ThreadsAssumption
  <2> QED
    BY <2>1, <2>2, <2>3 DEF LimiterSound
<1>5. CASE UNCHANGED vars
  BY <1>5 DEF vars, LimiterSound
<1> QED
  BY <1>1, <1>2, <1>3, <1>4, <1>5 DEF Next

LEMMA LimiterHolds == Init => LimiterSound
<1> SUFFICES ASSUME Init PROVE LimiterSound
  OBVIOUS
<1>1. NewBucket \in Bucket /\ <<>> \in Seq(Grant)
  BY DEF NewBucket, Bucket
<1>2. ASSUME NEW k \in Keys
      PROVE  BucketSound(buckets[k], grants[k], epoch[k[1]], now, limit_for[k[2]])
  <2>1. buckets[k] = NewBucket /\ grants[k] = <<>> /\ epoch[k[1]] = 0 /\ limit_for[k[2]] \in Nat
    BY LimiterAssumption DEF Init, LimiterInit, Keys
  <2>2. now \in Nat
    BY LimiterAssumption DEF Init
  <2> QED
    BY <2>1, <2>2, SoundEmpty
<1> QED
  BY <1>1, <1>2, LimiterAssumption DEF Init, LimiterInit, LimiterSound

LEMMA LimiterStaysSound == Spec => []LimiterSound
BY LimiterHolds, LimiterStays, PTL DEF Spec

-----------------------------------------------------------------------------
(* Bursts *)

LEMMA OpenWindowGrants ==
    ASSUME NEW k
    PROVE  InOpenWindow(k) = GrantedIn(grants[k], epoch[k[1]], buckets[k].window_start)
BY DEF InOpenWindow, GrantsIn, GrantedIn

LEMMA UnionBounded ==
    ASSUME NEW S, NEW T, IsFiniteSet(S), IsFiniteSet(T), NEW m \in Nat, NEW n \in Nat,
           Cardinality(S) <= m, Cardinality(T) <= n
    PROVE  Cardinality(S \cup T) <= m + n
<1>1. Cardinality(S \cup T) = Cardinality(S) + Cardinality(T) - Cardinality(S \cap T)
  BY FS_Union
<1>2. IsFiniteSet(S \cap T)
  BY FS_Subset
<1>3. Cardinality(S) \in Nat /\ Cardinality(T) \in Nat /\ Cardinality(S \cap T) \in Nat
  BY <1>2, FS_CardinalityType
<1> QED
  BY <1>1, <1>3

(* The grants of windows that start in one stretch of a window duration    *)
(* are all of the same window.                                             *)
LEMMA StretchBounded ==
    ASSUME NEW b, NEW gs, NEW e, NEW n, NEW q, BucketSound(b, gs, e, n, q), NEW v \in Int
    PROVE  Cardinality({i \in DOMAIN gs : /\ gs[i].epoch = e
                                          /\ v <= gs[i].window /\ gs[i].window < v + Window}) <= q
<1> DEFINE S == {i \in DOMAIN gs : /\ gs[i].epoch = e
                                   /\ v <= gs[i].window /\ gs[i].window < v + Window}
<1>1. CASE S = {}
  <2>1. q \in Nat
    BY DEF BucketSound
  <2> HIDE DEF S
  <2>2. Cardinality(S) <= q
    BY <1>1, <2>1, FS_EmptySet
  <2> QED
    BY <2>2 DEF S
<1>2. CASE S # {}
  <2>1. PICK i \in S : TRUE
    BY <1>2
  <2>2. \A j \in DOMAIN gs : gs[j].window \in Nat
    BY GrantTyped DEF BucketSound
  <2>3. PICK w \in Nat : w = gs[i].window
    BY <2>2
  <2>4. \A j \in S : gs[j].window = w /\ gs[j].epoch = e
    <3> SUFFICES ASSUME NEW j \in S PROVE gs[j].window = w
      OBVIOUS
    <3>1. Apart(w, gs[j].window)
      BY <2>3 DEF BucketSound
    <3> QED
      BY <2>2, <2>3, <3>1, LimiterAssumption DEF Apart
  <2>5. S \subseteq GrantedIn(gs, e, w)
    BY <2>4 DEF GrantedIn
  <2>6. IsFiniteSet(GrantedIn(gs, e, w)) /\ Cardinality(GrantedIn(gs, e, w)) \in Nat
    BY GrantsFinite DEF BucketSound, GrantedIn
  <2>7. Cardinality(S) <= Cardinality(GrantedIn(gs, e, w)) /\ Cardinality(S) \in Nat
    BY <2>5, <2>6, FS_Subset, FS_CardinalityType
  <2>8. Cardinality(GrantedIn(gs, e, w)) <= q /\ q \in Nat
    BY DEF BucketSound
  <2> HIDE DEF S
  <2>9. Cardinality(S) <= q
    BY <2>6, <2>7, <2>8
  <2> QED
    BY <2>9 DEF S
<1> QED
  BY <1>1, <1>2

(* And so n stretches have at most n quotas.                               *)
LEMMA StretchesBounded ==
    ASSUME NEW b, NEW gs, NEW e, NEW m, NEW q, BucketSound(b, gs, e, m, q), NEW v \in Int,
           NEW n \in Nat
    PROVE  Cardinality({i \in DOMAIN gs : /\ gs[i].epoch = e
                                          /\ v <= gs[i].window /\ gs[i].window < v + n * Window})
               <= n * q
<1> DEFINE S(k) == {i \in DOMAIN gs : /\ gs[i].epoch = e
                                      /\ v <= gs[i].window /\ gs[i].window < v + k * Window}
           P(k) == {i \in DOMAIN gs : /\ gs[i].epoch = e
                                      /\ v + k * Window <= gs[i].window
                                      /\ gs[i].window < (v + k * Window) + Window}
           T == {k \in Nat : Cardinality(S(k)) <= k * q}
<1>1. /\ q \in Nat /\ Window \in Nat
      /\ \A j \in DOMAIN gs : gs[j].window \in Nat
  BY LimiterAssumption, GrantTyped DEF BucketSound
<1>2. 0 \in T
  <2>1. S(0) = {}
    BY <1>1
  <2>2. 0 * q = 0 /\ Cardinality({}) = 0
    BY <1>1, FS_EmptySet
  <2> HIDE DEF S
  <2> QED
    BY <2>1, <2>2
<1>3. ASSUME NEW k \in Nat, k \in T PROVE k + 1 \in T
  <2>1. PICK u \in Int : u = v + k * Window
    BY <1>1
  <2>2. (k + 1) * Window = k * Window + Window /\ (k + 1) * q = k * q + q /\ k * q \in Nat
    BY <1>1
  <2>3. v + (k + 1) * Window = u + Window
    BY <1>1, <2>1, <2>2
  <2>4. S(k + 1) \subseteq S(k) \cup P(k)
    BY <1>1, <2>1, <2>3
  <2>5. Cardinality(P(k)) <= q
    BY <2>1, StretchBounded
  <2>6. IsFiniteSet(S(k)) /\ IsFiniteSet(P(k))
    BY GrantsFinite DEF BucketSound
  <2>7. Cardinality(S(k)) <= k * q
    BY <1>3
  <2> HIDE DEF S, P
  <2>8. Cardinality(S(k) \cup P(k)) <= k * q + q
    BY <1>1, <2>2, <2>5, <2>6, <2>7, UnionBounded
  <2>9. IsFiniteSet(S(k) \cup P(k)) /\ Cardinality(S(k) \cup P(k)) \in Nat
    BY <2>6, FS_Union, FS_CardinalityType
  <2>10. Cardinality(S(k + 1)) <= Cardinality(S(k) \cup P(k)) /\ Cardinality(S(k + 1)) \in Nat
    BY <2>4, <2>9, FS_Subset, FS_CardinalityType
  <2>11. Cardinality(S(k + 1)) <= (k + 1) * q
    BY <1>1, <2>2, <2>8, <2>9, <2>10
  <2> QED
    BY <2>11
<1>4. Nat \subseteq T
  <2> HIDE DEF T
  <2> QED
    BY <1>2, <1>3, NatInductionSet
<1> QED
  BY <1>4

LEMMA StartedWindows ==
    /\ (MaxStall + Window - 1) \div Window \in Nat
    /\ MaxStall <= ((MaxStall + Window - 1) \div Window) * Window
<1>1. MaxStall \in Nat /\ Window \in Nat \ {0}
  BY LimiterAssumption, ThreadsAssumption
<1> QED
  BY <1>1

LEMMA BurstsBounded == LimiterSound => BurstBounded
<1> SUFFICES ASSUME LimiterSound, NEW k \in Keys, NEW x \in 0..MaxTime
             PROVE  Cardinality(GrantedFrom(k, x))
                        <= (2 + (MaxStall + Window - 1) \div Window) * limit_for[k[2]]
  BY DEF BurstBounded
<1>1. /\ MaxStall \in Nat /\ Window \in Nat \ {0} /\ x \in Nat /\ limit_for[k[2]] \in Nat
  BY LimiterAssumption, ThreadsAssumption DEF Keys
<1>2. PICK d \in Nat : d = (MaxStall + Window - 1) \div Window /\ MaxStall <= d * Window
  BY StartedWindows
<1>3. PICK gs : gs = grants[k]
  OBVIOUS
<1>4. PICK e : e = epoch[k[1]]
  OBVIOUS
<1>5. BucketSound(buckets[k], gs, e, now, limit_for[k[2]])
  BY <1>3, <1>4 DEF LimiterSound
<1>6. PICK v \in Int : v = (x - Window) - MaxStall
  BY <1>1
<1> DEFINE S == {i \in DOMAIN gs : /\ gs[i].epoch = e
                                   /\ v <= gs[i].window /\ gs[i].window < v + (2 + d) * Window}
<1>7. GrantedFrom(k, x) \subseteq S
  <2> SUFFICES ASSUME NEW i \in DOMAIN gs, x <= gs[i].when, gs[i].when < x + Window,
                      gs[i].epoch = e
               PROVE  i \in S
    BY <1>3, <1>4 DEF GrantedFrom, GrantsIn
  <2>1. gs[i].when \in Nat /\ gs[i].window \in Nat
    BY <1>5, GrantTyped DEF BucketSound
  <2>2. gs[i].window <= gs[i].when /\ gs[i].when < gs[i].window + Window + MaxStall
    BY <1>5 DEF BucketSound
  <2>3. (2 + d) * Window = (Window + Window) + d * Window /\ d * Window \in Nat
    BY <1>1
  <2> QED
    BY <1>1, <1>2, <1>6, <2>1, <2>2, <2>3
<1>8. Cardinality(S) <= (2 + d) * limit_for[k[2]]
  BY <1>5, StretchesBounded
<1>9. IsFiniteSet(S) /\ Cardinality(S) \in Nat
  BY <1>5, GrantsFinite DEF BucketSound
<1> HIDE DEF S
<1>10. Cardinality(GrantedFrom(k, x)) <= Cardinality(S) /\ Cardinality(GrantedFrom(k, x)) \in Nat
  BY <1>7, <1>9, FS_Subset, FS_CardinalityType
<1>11. (2 + d) * limit_for[k[2]] \in Nat
  BY <1>1
<1> QED
  BY <1>2, <1>8, <1>9, <1>10, <1>11

-----------------------------------------------------------------------------
(* Sums over finite sets *)

(* The element that a sum over s takes first.                              *)
First(s) == CHOOSE x \in s : TRUE

SumStep(f, g, s) == IF s = {} THEN 0 ELSE f[First(s)] + g[s \ {First(s)}]

(* g holds the sums of f over the subsets of S, the small ones, or all.    *)
SumsUpTo(g, f, S, n) ==
    /\ g = [s \in SUBSET S |-> g[s]]
    /\ \A s \in SUBSET S : Cardinality(s) <= n => g[s] = SumStep(f, g, s)

Sums(g, f, S) == \A s \in SUBSET S : g[s] = SumStep(f, g, s)

LEMMA FirstTaken ==
    ASSUME NEW s, IsFiniteSet(s), s # {}
    PROVE  /\ First(s) \in s
           /\ IsFiniteSet(s \ {First(s)})
           /\ Cardinality(s) \in Nat \ {0}
           /\ Cardinality(s \ {First(s)}) = Cardinality(s) - 1
<1>1. First(s) \in s
  BY DEF First
<1> QED
  BY <1>1, FS_RemoveElement, FS_EmptySet, FS_CardinalityType

LEMMA SumsExist ==
    ASSUME NEW S, IsFiniteSet(S), NEW f
    PROVE  \E g : g = [s \in SUBSET S |-> SumStep(f, g, s)]
<1> DEFINE T == {n \in Nat : \E g : SumsUpTo(g, f, S, n)}
<1>0. \A s \in SUBSET S : IsFiniteSet(s) /\ Cardinality(s) \in Nat
  BY FS_Subset, FS_CardinalityType
<1>1. 0 \in T
  <2>1. PICK g : g = [s \in SUBSET S |-> 0]
    OBVIOUS
  <2>2. \A s \in SUBSET S : Cardinality(s) <= 0 => s = {}
    BY <1>0, FS_EmptySet
  <2>3. g = [s \in SUBSET S |-> g[s]]
    BY <2>1
  <2>4. SumsUpTo(g, f, S, 0)
    BY <2>1, <2>2, <2>3 DEF SumStep, SumsUpTo
  <2> QED
    BY <2>4
<1>2. ASSUME NEW n \in Nat, n \in T PROVE n + 1 \in T
  <2>0. PICK g : SumsUpTo(g, f, S, n)
    BY <1>2
  <2>1. /\ g = [s \in SUBSET S |-> g[s]]
        /\ \A s \in SUBSET S : Cardinality(s) <= n => g[s] = SumStep(f, g, s)
    BY <2>0 DEF SumsUpTo
  <2>2. PICK h : h = [s \in SUBSET S |-> IF Cardinality(s) <= n THEN g[s] ELSE SumStep(f, g, s)]
    OBVIOUS
  <2>3. h = [s \in SUBSET S |-> h[s]]
    BY <2>2
  <2>4. ASSUME NEW s \in SUBSET S, Cardinality(s) <= n + 1 PROVE h[s] = SumStep(f, h, s)
    <3>1. CASE s = {}
      <4>1. h[s] = SumStep(f, g, s)
        BY <2>1, <2>2
      <4> QED
        BY <3>1, <4>1 DEF SumStep
    <3>2. CASE s # {}
      <4>1. PICK r \in SUBSET S : r = s \ {First(s)}
        OBVIOUS
      <4>2. Cardinality(r) <= n
        BY <1>0, <2>4, <3>2, <4>1, FirstTaken
      <4>3. h[r] = g[r]
        BY <2>2, <4>2
      <4>4. h[s] = SumStep(f, g, s)
        BY <2>1, <2>2
      <4> QED
        BY <3>2, <4>1, <4>3, <4>4 DEF SumStep
    <3> QED
      BY <3>1, <3>2
  <2>5. SumsUpTo(h, f, S, n + 1)
    BY <2>3, <2>4 DEF SumsUpTo
  <2> QED
    BY <2>5
<1>3. Nat \subseteq T
  <2> HIDE DEF T
  <2> QED
    BY <1>1, <1>2, NatInductionSet
<1>4. Cardinality(S) \in T
  BY <1>0, <1>3
<1>5. PICK g : SumsUpTo(g, f, S, Cardinality(S))
  BY <1>4
<1>6. /\ g = [s \in SUBSET S |-> g[s]]
      /\ \A s \in SUBSET S : Cardinality(s) <= Cardinality(S) => g[s] = SumStep(f, g, s)
  BY <1>5 DEF SumsUpTo
<1>7. \A s \in SUBSET S : Cardinality(s) <= Cardinality(S)
  BY FS_Subset
<1>8. \A s \in SUBSET S : g[s] = SumStep(f, g, s)
  BY <1>6, <1>7
<1>9. g = [s \in SUBSET S |-> SumStep(f, g, s)]
  BY <1>6, <1>8
<1> QED
  BY <1>9

LEMMA SumUnfolds ==
    ASSUME NEW S, IsFiniteSet(S), NEW f
    PROVE  \E g : SumFunctionOnSet(f, S) = g[S] /\ Sums(g, f, S)
<1> DEFINE g == CHOOSE g : g = [s \in SUBSET S |-> SumStep(f, g, s)]
<1>1. g = [s \in SUBSET S |-> SumStep(f, g, s)]
  BY SumsExist
<1>2. SumFunctionOnSet(f, S) = g[S]
  BY DEF SumFunctionOnSet, FoldFunctionOnSet, MapThenFoldSet, SumStep, First
<1> HIDE DEF g
<1>3. Sums(g, f, S)
  BY <1>1 DEF Sums
<1> QED
  BY <1>2, <1>3

LEMMA SumParts ==
    ASSUME NEW S, NEW f, NEW g, Sums(g, f, S)
    PROVE  /\ g[{}] = 0
           /\ \A s \in SUBSET S : s # {} => g[s] = f[First(s)] + g[s \ {First(s)}]
<1>1. {} \in SUBSET S
  OBVIOUS
<1> QED
  BY <1>1 DEF Sums, SumStep

(* Induction over the subsets of a finite set, along the order of a sum.   *)
LEMMA SubsetInduction ==
    ASSUME NEW S, IsFiniteSet(S), NEW T, {} \in T,
           \A s \in SUBSET S : s # {} /\ s \ {First(s)} \in T => s \in T
    PROVE  SUBSET S \subseteq T
<1> DEFINE U == {n \in Nat : \A s \in SUBSET S : Cardinality(s) <= n => s \in T}
<1>0. \A s \in SUBSET S : IsFiniteSet(s) /\ Cardinality(s) \in Nat
  BY FS_Subset, FS_CardinalityType
<1>1. 0 \in U
  BY <1>0, FS_EmptySet
<1>2. ASSUME NEW n \in Nat, n \in U PROVE n + 1 \in U
  <2> SUFFICES ASSUME NEW s \in SUBSET S, Cardinality(s) <= n + 1, s # {} PROVE s \in T
    BY <1>2
  <2>1. Cardinality(s \ {First(s)}) <= n
    BY <1>0, FirstTaken
  <2>2. s \ {First(s)} \in T
    BY <1>2, <2>1
  <2> QED
    BY <2>2
<1>3. Nat \subseteq U
  <2> HIDE DEF U
  <2> QED
    BY <1>1, <1>2, NatInductionSet
<1> SUFFICES ASSUME NEW s \in SUBSET S PROVE s \in T
  OBVIOUS
<1> QED
  BY <1>0, <1>3

LEMMA SumTyped ==
    ASSUME NEW S, IsFiniteSet(S), NEW f, \A x \in S : f[x] \in Nat
    PROVE  SumFunctionOnSet(f, S) \in Nat
<1>1. PICK g : SumFunctionOnSet(f, S) = g[S] /\ Sums(g, f, S)
  BY SumUnfolds
<1>2. /\ g[{}] = 0
      /\ \A s \in SUBSET S : s # {} => g[s] = f[First(s)] + g[s \ {First(s)}]
  <2>1. Sums(g, f, S)
    BY <1>1
  <2> QED
    BY ONLY <2>1, SumParts
<1> DEFINE T == {s \in SUBSET S : g[s] \in Nat}
<1>3. {} \in T
  BY <1>2
<1>4. ASSUME NEW s \in SUBSET S, s # {}, s \ {First(s)} \in T PROVE s \in T
  <2>1. First(s) \in S
    BY <1>4 DEF First
  <2>2. g[s] = f[First(s)] + g[s \ {First(s)}]
    BY <1>2, <1>4
  <2> QED
    BY <1>4, <2>1, <2>2
<1>5. SUBSET S \subseteq T
  <2> HIDE DEF T
  <2> QED
    BY <1>3, <1>4, SubsetInduction
<1> QED
  BY <1>1, <1>5

(* Where the terms of two sums differ in at most one, by d, so do the sums.*)
LEMMA SumChanged ==
    ASSUME NEW S, IsFiniteSet(S), NEW f, NEW h, NEW x \in S, NEW d \in Int,
           \A y \in S : f[y] \in Nat, h[x] = f[x] + d, \A y \in S \ {x} : h[y] = f[y]
    PROVE  SumFunctionOnSet(h, S) = SumFunctionOnSet(f, S) + d
<1>1. PICK g : SumFunctionOnSet(f, S) = g[S] /\ Sums(g, f, S)
  BY SumUnfolds
<1>2. PICK k : SumFunctionOnSet(h, S) = k[S] /\ Sums(k, h, S)
  BY SumUnfolds
<1>3. /\ g[{}] = 0 /\ k[{}] = 0
      /\ \A s \in SUBSET S : s # {} => /\ g[s] = f[First(s)] + g[s \ {First(s)}]
                                       /\ k[s] = h[First(s)] + k[s \ {First(s)}]
  BY <1>1, <1>2, SumParts
<1> DEFINE T == {s \in SUBSET S : g[s] \in Int /\ k[s] = g[s] + (IF x \in s THEN d ELSE 0)}
<1>4. {} \in T
  BY <1>3
<1>5. ASSUME NEW s \in SUBSET S, s # {}, s \ {First(s)} \in T PROVE s \in T
  <2>1. PICK y \in s : y = First(s)
    BY <1>5 DEF First
  <2>2. PICK m \in Int : m = g[s \ {y}] /\ k[s \ {y}] = m + (IF x \in s \ {y} THEN d ELSE 0)
    BY <1>5, <2>1
  <2>3. g[s] = f[y] + m /\ k[s] = h[y] + k[s \ {y}]
    BY <1>3, <1>5, <2>1, <2>2
  <2>4. f[y] \in Nat
    OBVIOUS
  <2>5. CASE y = x
    BY <2>1, <2>2, <2>3, <2>4, <2>5
  <2>6. CASE y # x
    <3>1. h[y] = f[y]
      BY <2>1, <2>6
    <3>2. CASE x \in s
      BY <2>1, <2>2, <2>3, <2>4, <2>6, <3>1, <3>2
    <3>3. CASE x \notin s
      BY <2>1, <2>2, <2>3, <2>4, <2>6, <3>1, <3>3
    <3> QED
      BY <3>2, <3>3
  <2> QED
    BY <2>5, <2>6
<1>6. SUBSET S \subseteq T
  <2> HIDE DEF T
  <2> QED
    BY <1>4, <1>5, SubsetInduction
<1>7. S \in T
  BY <1>6
<1> QED
  BY <1>1, <1>2, <1>7

LEMMA SumSame ==
    ASSUME NEW S, IsFiniteSet(S), NEW f, NEW h, \A y \in S : f[y] \in Nat /\ h[y] = f[y]
    PROVE  SumFunctionOnSet(h, S) = SumFunctionOnSet(f, S)
<1>1. CASE S = {}
  <2>1. \A e : SumFunctionOnSet(e, S) = 0
    <3> SUFFICES ASSUME NEW e PROVE SumFunctionOnSet(e, S) = 0
      OBVIOUS
    <3>1. PICK g : SumFunctionOnSet(e, S) = g[S] /\ Sums(g, e, S)
      BY SumUnfolds
    <3> QED
      BY <1>1, <3>1, SumParts
  <2> QED
    BY <2>1
<1>2. CASE S # {}
  <2>1. PICK x \in S : TRUE
    BY <1>2
  <2>2. SumFunctionOnSet(h, S) = SumFunctionOnSet(f, S) + 0
    <3>1. h[x] = f[x] + 0
      OBVIOUS
    <3> QED
      BY <3>1, SumChanged
  <2>3. SumFunctionOnSet(f, S) \in Nat
    BY SumTyped
  <2> QED
    BY <2>2, <2>3
<1> QED
  BY <1>1, <1>2

LEMMA SumZero ==
    ASSUME NEW S, IsFiniteSet(S), NEW f, \A x \in S : f[x] = 0
    PROVE  SumFunctionOnSet(f, S) = 0
<1>1. PICK g : SumFunctionOnSet(f, S) = g[S] /\ Sums(g, f, S)
  BY SumUnfolds
<1>2. /\ g[{}] = 0
      /\ \A s \in SUBSET S : s # {} => g[s] = f[First(s)] + g[s \ {First(s)}]
  <2>1. Sums(g, f, S)
    BY <1>1
  <2> QED
    BY ONLY <2>1, SumParts
<1> DEFINE T == {s \in SUBSET S : g[s] = 0}
<1>3. {} \in T
  BY <1>2
<1>4. ASSUME NEW s \in SUBSET S, s # {}, s \ {First(s)} \in T PROVE s \in T
  <2>1. First(s) \in S
    BY <1>4 DEF First
  <2>2. g[s] = f[First(s)] + g[s \ {First(s)}]
    BY <1>2, <1>4
  <2> QED
    BY <1>4, <2>1, <2>2
<1>5. SUBSET S \subseteq T
  <2> HIDE DEF T
  <2> QED
    BY <1>3, <1>4, SubsetInduction
<1> QED
  BY <1>1, <1>5

-----------------------------------------------------------------------------
(* The validation pipeline *)

LEMMA FitsTheWord == ASSUME NEW x \in Uint PROVE x % Word = x
BY BudgetAssumption DEF Uint

(* What check and subtraction compute: exactly whether the sum, which is   *)
(* never formed, would be above the ceiling.                               *)
LEMMA ExhaustedIsExcess ==
    ASSUME LedgerOK, NEW a \in Accounts, NEW units \in Uint
    PROVE  Exhausted(a, units) <=> ledger_[a] + units > ceiling_for[a[3]]
<1>1. PICK c \in Uint : c = ceiling_for[a[3]]
  BY BudgetAssumption DEF Accounts, Uint
<1>2. PICK l \in Uint : l = ledger_[a] /\ l <= c
  BY <1>1 DEF LedgerOK
<1>3. c \in Nat /\ l \in Nat /\ units \in Nat /\ Word \in Nat /\ c < Word
  BY BudgetAssumption DEF Uint
<1>4. CASE units > c
  BY <1>1, <1>2, <1>3, <1>4 DEF Exhausted
<1>5. CASE ~(units > c)
  <2>1. c - units \in Uint
    BY <1>3, <1>5 DEF Uint
  <2>2. (c - units) % Word = c - units
    BY <2>1, FitsTheWord
  <2> QED
    BY <1>1, <1>2, <1>3, <1>5, <2>2 DEF Exhausted
<1> QED
  BY <1>4, <1>5

LEMMA ConsumeKeeps ==
    ASSUME LedgerOK, NEW a \in Accounts, NEW units \in Uint, consume(a, units)
    PROVE  LedgerOK'
<1>1. CASE Exhausted(a, units)
  BY <1>1 DEF consume, LedgerOK
<1>2. CASE ~Exhausted(a, units)
  <2>1. PICK c \in Uint : c = ceiling_for[a[3]]
    BY BudgetAssumption DEF Accounts, Uint
  <2>2. PICK l \in Uint : l = ledger_[a]
    BY DEF LedgerOK
  <2>3. l + units <= c
    BY <1>2, <2>1, <2>2, ExhaustedIsExcess DEF Uint
  <2>4. l + units \in Uint
    BY <2>3, BudgetAssumption DEF Uint
  <2>5. ledger_' = [ledger_ EXCEPT ![a] = l + units]
    BY <1>2, <2>2, <2>4, FitsTheWord DEF consume
  <2> QED
    BY <2>1, <2>3, <2>4, <2>5 DEF LedgerOK
<1> QED
  BY <1>1, <1>2

LEMMA ForgivenLedger == ASSUME LedgerOK, NEW o, reset_operator(o) PROVE LedgerOK'
<1>1. 0 \in Uint /\ \A a \in Accounts : ceiling_for[a[3]] \in Uint
  BY BudgetAssumption DEF Uint, Accounts
<1> QED
  BY <1>1 DEF LedgerOK, reset_operator, Uint

(* A request that passes stages 1 to 3 is what they demand.                *)
LEMMA PrecheckedIsAllowed ==
    ASSUME NEW r \in Requests, Precheck(r) = "ok"
    PROVE  /\ r.action \in DOMAIN registry \cap r.permitted
           /\ registry[r.action].required_scopes \subseteq r.scopes
           /\ Rank(Class(r)) <= Rank(r.max_class)
           /\ r.estimated <= registry[r.action].limit
<1>1. r.action \in DOMAIN registry
  BY DEF Precheck
<1>2. PICK s : s = registry[r.action]
  OBVIOUS
<1>3. check_permission(r, s) = "ok" /\ enforce_blast_radius(r, s) = "ok"
  BY <1>1, <1>2 DEF Precheck
<1>4. s.class \in BlastRadiusClass /\ s.limit \in Uint
  BY <1>1, <1>2, PipelineAssumption
<1>5. \A c \in BlastRadiusClass : Rank(c) \in 0..2
  BY DEF Rank, BlastRadiusClass
<1>6. /\ r.action \in r.permitted /\ s.required_scopes \subseteq r.scopes
      /\ ~(Rank(s.class) > Rank(r.max_class))
  BY <1>3 DEF check_permission
<1>7. Rank(s.class) <= Rank(r.max_class)
  BY <1>4, <1>5, <1>6, PipelineAssumption
<1>8. r.estimated <= s.limit
  BY <1>3, <1>4, PipelineAssumption DEF enforce_blast_radius, Uint
<1> QED
  BY <1>1, <1>2, <1>6, <1>7, <1>8 DEF Class

LEMMA PrecheckAnswers ==
    ASSUME NEW r
    PROVE  Precheck(r) \in {"ok"} \cup (Answers \ (AfterRate \cup {"rate_limit_exceeded"}))
BY DEF Precheck, check_permission, enforce_blast_radius, Answers, AfterRate, AfterBudget, Accepted

LEMMA BucketsTyped ==
    ASSUME NEW r \in Requests, Precheck(r) = "ok"
    PROVE  Key(r) \in Keys /\ Account(r) \in Accounts /\ r.estimated \in Uint
<1>1. r.action \in DOMAIN registry
  BY DEF Precheck
<1> QED
  BY <1>1, PipelineAssumption DEF Key, Account, Class, Keys, Accounts

(* What an answer a says of the request r that got it.                     *)
Means(r, a) ==
    /\ a \in AfterRate \cup {"rate_limit_exceeded"} => Precheck(r) = "ok"
    /\ a = "validated" => registry[r.action].dry_run # "mandatory"
    /\ a = "validated_after_dry_run" => dry_run_

QuotasOK == \A k \in Keys : buckets[k].count <= limit_for[k[2]]

(* The part that a step which answers nobody, or one thread, can disturb.  *)
AnswersSound ==
    /\ tally \in [Requests -> [Answers -> Nat]]
    /\ \A r \in Requests, a \in Answers : tally[r][a] > 0 => Means(r, a)

LEMMA AnswerKeeps ==
    ASSUME AnswersSound, UNCHANGED dry_run_, NEW t \in Threads, NEW a \in Answers, Answer(t, a),
           req'[t] \in Requests, Means(req'[t], a)
    PROVE  AnswersSound'
<1>1. PICK q \in Requests : q = req'[t]
  OBVIOUS
<1>2. tally' = [tally EXCEPT ![q][a] = @ + 1]
  BY <1>1 DEF Answer
<1>3. tally' \in [Requests -> [Answers -> Nat]]
  BY <1>2 DEF AnswersSound
<1>4. ASSUME NEW r \in Requests, NEW b \in Answers, tally'[r][b] > 0 PROVE Means(r, b)
  <2>1. CASE r = q /\ b = a
    BY <1>1, <2>1
  <2>2. CASE ~(r = q /\ b = a)
    <3>1. tally'[r][b] = tally[r][b]
      BY <1>2, <2>2 DEF AnswersSound
    <3> QED
      BY <1>4, <3>1 DEF AnswersSound
  <2> QED
    BY <2>1, <2>2
<1>5. \A r, b : Means(r, b)' <=> Means(r, b)
  BY DEF Means
<1> QED
  BY <1>3, <1>4, <1>5 DEF AnswersSound

BucketsSound == buckets \in [Keys -> Bucket] /\ QuotasOK

LEMMA RecordKeepsBuckets ==
    ASSUME BucketsSound, NEW k \in Keys, NEW t \in Nat, check_and_record(k, t)
    PROVE  BucketsSound'
<1>1. PICK q \in Nat : q = limit_for[k[2]]
  BY LimiterAssumption DEF Keys
<1>2. PICK b : b = Current(k, t)
  OBVIOUS
<1>3. b \in Bucket /\ b.count <= q
  BY <1>1, <1>2 DEF BucketsSound, QuotasOK, Current, Bucket
<1>4. PICK c : c = [b EXCEPT !.count = @ + 1]
  OBVIOUS
<1>5. c \in Bucket /\ c.count = b.count + 1 /\ b.count \in Nat
  BY <1>3, <1>4 DEF Bucket
<1>6. buckets' = [buckets EXCEPT ![k] = IF b.count < q THEN c ELSE b]
  BY <1>1, <1>2, <1>4 DEF check_and_record, Admits
<1> QED
  BY <1>1, <1>3, <1>5, <1>6 DEF BucketsSound, QuotasOK

LEMMA ResetKeepsBuckets == ASSUME BucketsSound, NEW o, reset(o) PROVE BucketsSound'
<1>1. NewBucket \in Bucket /\ NewBucket.count = 0
  BY DEF NewBucket, Bucket
<1>2. \A k \in Keys : limit_for[k[2]] \in Nat
  BY LimiterAssumption DEF Keys
<1> QED
  BY <1>1, <1>2 DEF BucketsSound, QuotasOK, reset

(* The inductive invariant.                                                *)
PipelineSound ==
    /\ BucketsSound /\ LedgerOK /\ AnswersSound
    /\ dry_run_ \in BOOLEAN /\ now \in Nat
    /\ stage \in [Threads -> {"idle", "rate", "budget", "dry_run"}]
    /\ req \in [Threads -> Requests]
    /\ at \in [Threads -> Nat]
    /\ \A t \in Threads : stage[t] # "idle" => Precheck(req[t]) = "ok"

LEMMA PipelineStarts == PipelineInit => PipelineSound
<1> SUFFICES ASSUME PipelineInit PROVE PipelineSound
  OBVIOUS
<1>1. BucketsSound
  <2>1. NewBucket \in Bucket /\ NewBucket.count = 0
    BY DEF NewBucket, Bucket
  <2>2. \A k \in Keys : limit_for[k[2]] \in Nat
    BY LimiterAssumption DEF Keys
  <2> QED
    BY <2>1, <2>2 DEF PipelineInit, LimiterInit, BucketsSound, QuotasOK
<1>2. LedgerOK
  <2>1. 0 \in Uint /\ \A a \in Accounts : ceiling_for[a[3]] \in Uint
    BY BudgetAssumption DEF Uint, Accounts
  <2> QED
    BY <2>1 DEF PipelineInit, BudgetInit, LedgerOK, Uint
<1>3. AnswersSound
  BY DEF PipelineInit, AnswersSound
<1>4. PICK first \in Requests : first = CHOOSE r \in Requests : TRUE
  BY PipelineAssumption
<1>5. req \in [Threads -> Requests]
  BY <1>4 DEF PipelineInit
<1> QED
  BY <1>1, <1>2, <1>3, <1>5, LimiterAssumption DEF PipelineSound, PipelineInit

(* A step that leaves the answers and the adapter alone.                   *)
LEMMA UnansweredKeeps ==
    ASSUME AnswersSound, UNCHANGED <<dry_run_, tally>> PROVE AnswersSound'
<1>1. \A r, a : Means(r, a)' <=> Means(r, a)
  BY DEF Means
<1> QED
  BY <1>1 DEF AnswersSound

LEMMA SubmitKeeps ==
    ASSUME PipelineSound, NEW t \in Threads, NEW r \in Requests, Submit(t, r)
    PROVE  PipelineSound'
<1>1. /\ UNCHANGED <<buckets, ledger_, dry_run_, now>>
      /\ req' = [req EXCEPT ![t] = r]
  BY DEF Submit
<1>2. req' \in [Threads -> Requests] /\ req'[t] = r
  BY <1>1 DEF PipelineSound
<1>3. BucketsSound' /\ LedgerOK'
  BY <1>1 DEF PipelineSound, BucketsSound, QuotasOK, LedgerOK
<1>4. CASE Precheck(r) = "ok"
  <2>1. /\ stage' = [stage EXCEPT ![t] = "rate"] /\ UNCHANGED tally
        /\ at' = [at EXCEPT ![t] = now]
    BY <1>4 DEF Submit, Continue
  <2>2. AnswersSound'
    BY <1>1, <2>1, UnansweredKeeps DEF PipelineSound
  <2> QED
    BY <1>1, <1>2, <1>3, <1>4, <2>1, <2>2 DEF PipelineSound
<1>5. CASE Precheck(r) # "ok"
  <2>1. Answer(t, Precheck(r)) /\ UNCHANGED at
    BY <1>5 DEF Submit
  <2>2. Precheck(r) \in Answers /\ Precheck(r) \notin AfterRate \cup {"rate_limit_exceeded"}
    BY <1>5, PrecheckAnswers
  <2>3. Means(r, Precheck(r))
    BY <2>2 DEF Means, AfterRate, AfterBudget, Accepted
  <2>4. AnswersSound'
    BY <1>1, <1>2, <2>1, <2>2, <2>3, AnswerKeeps DEF PipelineSound
  <2>5. stage' = [stage EXCEPT ![t] = "idle"]
    BY <2>1 DEF Answer
  <2> QED
    BY <1>1, <1>2, <1>3, <2>1, <2>4, <2>5 DEF PipelineSound
<1> QED
  BY <1>4, <1>5

(* The end of a stage: thread t goes on, or is answered a.                 *)
LEMMA StageKeeps ==
    ASSUME PipelineSound, NEW t \in Threads, stage[t] # "idle",
           UNCHANGED <<dry_run_, now, req>>,
           BucketsSound', LedgerOK', at' \in [Threads -> Nat],
           \/ \E s \in {"budget", "dry_run"} : Continue(t, s)
           \/ \E a \in Answers : Answer(t, a) /\ Means(req[t], a)
    PROVE  PipelineSound'
<1>1. req[t] \in Requests /\ Precheck(req[t]) = "ok"
  BY DEF PipelineSound
<1>2. CASE \E s \in {"budget", "dry_run"} : Continue(t, s)
  <2>1. PICK s \in {"budget", "dry_run"} : stage' = [stage EXCEPT ![t] = s] /\ UNCHANGED tally
    BY <1>2 DEF Continue
  <2>2. AnswersSound'
    BY <2>1, UnansweredKeeps DEF PipelineSound
  <2> QED
    BY <1>1, <2>1, <2>2 DEF PipelineSound
<1>3. CASE \E a \in Answers : Answer(t, a) /\ Means(req[t], a)
  <2>1. PICK a \in Answers : Answer(t, a) /\ Means(req[t], a)
    BY <1>3
  <2>2. req'[t] = req[t]
    OBVIOUS
  <2>3. AnswersSound'
    BY <1>1, <2>1, <2>2, AnswerKeeps DEF PipelineSound
  <2>4. stage' = [stage EXCEPT ![t] = "idle"]
    BY <2>1 DEF Answer
  <2> QED
    BY <1>1, <2>3, <2>4 DEF PipelineSound
<1> QED
  BY <1>2, <1>3

LEMMA RateStageKeeps ==
    ASSUME PipelineSound, NEW t \in Threads, RateStage(t) PROVE PipelineSound'
<1>1. /\ stage[t] # "idle" /\ check_and_record(Key(req[t]), at[t])
      /\ UNCHANGED <<req, ledger_, dry_run_, now>> /\ at' = [at EXCEPT ![t] = 0]
  BY DEF RateStage
<1>2. req[t] \in Requests /\ Precheck(req[t]) = "ok" /\ at[t] \in Nat
  BY <1>1 DEF PipelineSound
<1>3. BucketsSound'
  BY <1>1, <1>2, BucketsTyped, RecordKeepsBuckets DEF PipelineSound
<1>4. LedgerOK' /\ at' \in [Threads -> Nat]
  BY <1>1 DEF PipelineSound, LedgerOK
<1>5. Continue(t, "budget") \/ Answer(t, "rate_limit_exceeded")
  BY DEF RateStage
<1>6. "rate_limit_exceeded" \in Answers /\ Means(req[t], "rate_limit_exceeded")
  BY <1>2 DEF Answers, Means
<1> QED
  BY <1>1, <1>3, <1>4, <1>5, <1>6, StageKeeps

LEMMA BudgetStageKeeps ==
    ASSUME PipelineSound, NEW t \in Threads, BudgetStage(t) PROVE PipelineSound'
<1>1. /\ stage[t] # "idle" /\ consume(Account(req[t]), req[t].estimated)
      /\ UNCHANGED <<req, buckets, dry_run_, now, at>>
  BY DEF BudgetStage
<1>2. req[t] \in Requests /\ Precheck(req[t]) = "ok"
  BY <1>1 DEF PipelineSound
<1>3. LedgerOK'
  BY <1>1, <1>2, BucketsTyped, ConsumeKeeps DEF PipelineSound
<1>4. BucketsSound' /\ at' \in [Threads -> Nat]
  BY <1>1 DEF PipelineSound, BucketsSound, QuotasOK
<1>5. \/ Continue(t, "dry_run") \/ Answer(t, "budget_exhausted")
      \/ registry[req[t].action].dry_run # "mandatory" /\ Answer(t, "validated")
  BY DEF BudgetStage
<1>6. /\ "budget_exhausted" \in Answers /\ "validated" \in Answers
      /\ Means(req[t], "budget_exhausted")
      /\ registry[req[t].action].dry_run # "mandatory" => Means(req[t], "validated")
  BY <1>2 DEF Answers, Means
<1> QED
  BY <1>1, <1>3, <1>4, <1>5, <1>6, StageKeeps

LEMMA DryRunStageKeeps ==
    ASSUME PipelineSound, NEW t \in Threads, DryRunStage(t) PROVE PipelineSound'
<1>1. stage[t] # "idle" /\ UNCHANGED <<req, buckets, ledger_, dry_run_, now, at>>
  BY DEF DryRunStage
<1>2. req[t] \in Requests /\ Precheck(req[t]) = "ok"
  BY <1>1 DEF PipelineSound
<1>3. LedgerOK' /\ BucketsSound' /\ at' \in [Threads -> Nat]
  BY <1>1 DEF PipelineSound, BucketsSound, QuotasOK, LedgerOK
<1>4. PICK a : /\ a \in {"validated_after_dry_run", "dry_run_failed", "dry_run_unavailable"}
               /\ a = "validated_after_dry_run" => dry_run_
               /\ Answer(t, a)
  BY DEF DryRunStage
<1>5. a \in Answers /\ Means(req[t], a)
  BY <1>2, <1>4 DEF Answers, Means
<1> QED
  BY <1>1, <1>3, <1>4, <1>5, StageKeeps

LEMMA PipelineSteps == PipelineSound /\ [PipelineNext]_pipeline_vars => PipelineSound'
<1> SUFFICES ASSUME PipelineSound, [PipelineNext]_pipeline_vars PROVE PipelineSound'
  OBVIOUS
<1>1. ASSUME NEW t \in Threads, NEW r \in Requests, Submit(t, r) PROVE PipelineSound'
  BY <1>1, SubmitKeeps
<1>2. ASSUME NEW t \in Threads, RateStage(t) PROVE PipelineSound'
  BY <1>2, RateStageKeeps
<1>3. ASSUME NEW t \in Threads, BudgetStage(t) PROVE PipelineSound'
  BY <1>3, BudgetStageKeeps
<1>4. ASSUME NEW t \in Threads, DryRunStage(t) PROVE PipelineSound'
  BY <1>4, DryRunStageKeeps
<1>5. ASSUME UNCHANGED <<dry_run_, stage, req, at, tally>>, now' \in Nat, BucketsSound', LedgerOK'
      PROVE  PipelineSound'
  <2>1. AnswersSound'
    BY <1>5, UnansweredKeeps DEF PipelineSound
  <2> QED
    BY <1>5, <2>1 DEF PipelineSound
<1>6. ASSUME NEW o \in Operators, ResetLimiter(o) PROVE PipelineSound'
  <2>1. BucketsSound'
    BY <1>6, ResetKeepsBuckets DEF PipelineSound, ResetLimiter
  <2>2. LedgerOK'
    BY <1>6 DEF PipelineSound, ResetLimiter, LedgerOK
  <2> QED
    BY <1>5, <1>6, <2>1, <2>2 DEF PipelineSound, ResetLimiter
<1>7. ASSUME NEW o \in BudgetOperators, ResetBudget(o) PROVE PipelineSound'
  <2>1. LedgerOK'
    BY <1>7, ForgivenLedger DEF PipelineSound, ResetBudget
  <2>2. BucketsSound'
    BY <1>7 DEF PipelineSound, ResetBudget, BucketsSound, QuotasOK
  <2> QED
    BY <1>5, <1>7, <2>1, <2>2 DEF PipelineSound, ResetBudget
<1>8. CASE TimePasses \/ UNCHANGED pipeline_vars
  <2>1. /\ UNCHANGED <<buckets, ledger_, dry_run_, stage, req, at, tally>>
        /\ now' \in Nat
    BY <1>8 DEF PipelineSound, TimePasses, pipeline_vars
  <2>2. BucketsSound' /\ LedgerOK'
    BY <2>1 DEF PipelineSound, BucketsSound, QuotasOK, LedgerOK
  <2> QED
    BY <1>5, <2>1, <2>2
<1> QED
  BY <1>1, <1>2, <1>3, <1>4, <1>6, <1>7, <1>8 DEF PipelineNext

LEMMA PipelineStaysSound == PipelineSpec => []PipelineSound
BY PipelineStarts, PipelineSteps, PTL DEF PipelineSpec

-----------------------------------------------------------------------------
(* What the pipeline's totals are changed by *)

LEMMA AnswersFinite == IsFiniteSet(AfterBudget) /\ IsFiniteSet(AfterRate)
<1>1. \A S, x : IsFiniteSet(S) => IsFiniteSet(S \cup {x})
  BY FS_AddElement
<1>2. IsFiniteSet({})
  BY FS_EmptySet
<1>3. /\ AfterBudget = ((({} \cup {"validated"}) \cup {"validated_after_dry_run"})
                             \cup {"dry_run_unavailable"}) \cup {"dry_run_failed"}
      /\ AfterRate = AfterBudget \cup {"budget_exhausted"}
  BY DEF AfterBudget, AfterRate, Accepted
<1>4. IsFiniteSet(AfterBudget)
  <2>1. IsFiniteSet({} \cup {"validated"})
    BY <1>1, <1>2
  <2>2. IsFiniteSet(({} \cup {"validated"}) \cup {"validated_after_dry_run"})
    BY <1>1, <2>1
  <2>3. IsFiniteSet((({} \cup {"validated"}) \cup {"validated_after_dry_run"}) \cup {"dry_run_unavailable"})
    BY <1>1, <2>2
  <2> QED
    BY <1>1, <1>3, <2>3
<1> QED
  BY <1>1, <1>3, <1>4

(* The state a total is taken of.                                          *)
Counted ==
    /\ tally \in [Requests -> [Answers -> Nat]]
    /\ stage \in [Threads -> {"idle", "rate", "budget", "dry_run"}]
    /\ req \in [Threads -> Requests]

Passed(W, A) == SumFunctionOnSet([r \in Requests |-> Answered(r, A) * W[r]], Requests)

UnderWay(W, S) ==
    SumFunctionOnSet([t \in Threads |-> IF stage[t] \in S THEN W[req[t]] ELSE 0], Threads)

LEMMA AnsweredTyped ==
    ASSUME Counted, NEW A \in SUBSET Answers, IsFiniteSet(A), NEW r \in Requests
    PROVE  Answered(r, A) \in Nat
<1>1. \A a \in A : tally[r][a] \in Nat
  BY DEF Counted
<1> QED
  BY <1>1, SumTyped DEF Answered

LEMMA TotalTyped ==
    ASSUME Counted, NEW W \in [Requests -> Nat], NEW A \in SUBSET Answers, IsFiniteSet(A), NEW S
    PROVE  Passed(W, A) \in Nat /\ UnderWay(W, S) \in Nat /\ Total(W, A, S) = Passed(W, A) + UnderWay(W, S)
<1>1. \A r \in Requests : [q \in Requests |-> Answered(q, A) * W[q]][r] \in Nat
  <2> SUFFICES ASSUME NEW r \in Requests PROVE Answered(r, A) * W[r] \in Nat
    OBVIOUS
  <2>1. Answered(r, A) \in Nat /\ W[r] \in Nat
    BY AnsweredTyped
  <2> QED
    BY <2>1
<1>2. \A t \in Threads :
          [u \in Threads |-> IF stage[u] \in S THEN W[req[u]] ELSE 0][t] \in Nat
  BY DEF Counted
<1>3. Passed(W, A) \in Nat
  BY <1>1, SumTyped, PipelineAssumption DEF Passed
<1>4. UnderWay(W, S) \in Nat
  BY <1>2, SumTyped, PipelineAssumption DEF UnderWay
<1> QED
  BY <1>3, <1>4 DEF Total, Passed, UnderWay

LEMMA AnsweredGrows ==
    ASSUME Counted, NEW A \in SUBSET Answers, IsFiniteSet(A), NEW q \in Requests, NEW a \in Answers,
           tally' = [tally EXCEPT ![q][a] = @ + 1], NEW r \in Requests
    PROVE  Answered(r, A)' = Answered(r, A) + (IF r = q /\ a \in A THEN 1 ELSE 0)
<1>1. PICK f : f = tally[r]
  OBVIOUS
<1>2. PICK h : h = tally'[r]
  OBVIOUS
<1>3. \A b \in A : f[b] \in Nat /\ h[b] = f[b] + (IF r = q /\ a = b THEN 1 ELSE 0)
  BY <1>1, <1>2 DEF Counted
<1>4. SumFunctionOnSet(f, A) \in Nat
  BY <1>3, SumTyped
<1>5. SumFunctionOnSet(h, A) = SumFunctionOnSet(f, A) + (IF r = q /\ a \in A THEN 1 ELSE 0)
  <2>1. CASE r = q /\ a \in A
    <3>1. h[a] = f[a] + 1 /\ \A b \in A \ {a} : h[b] = f[b]
      BY <1>3, <2>1
    <3>2. SumFunctionOnSet(h, A) = SumFunctionOnSet(f, A) + 1
      BY <1>3, <2>1, <3>1, SumChanged
    <3> QED
      BY <2>1, <3>2
  <2>2. CASE ~(r = q /\ a \in A)
    <3>1. \A b \in A : h[b] = f[b]
      BY <1>3, <2>2
    <3>2. SumFunctionOnSet(h, A) = SumFunctionOnSet(f, A)
      BY <1>3, <3>1, SumSame
    <3> QED
      BY <1>4, <2>2, <3>2
  <2> QED
    BY <2>1, <2>2
<1>6. Answered(r, A) = SumFunctionOnSet(f, A) /\ Answered(r, A)' = SumFunctionOnSet(h, A)
  BY <1>1, <1>2 DEF Answered
<1> QED
  BY <1>5, <1>6

LEMMA PassedGrows ==
    ASSUME Counted, NEW W \in [Requests -> Nat], NEW A \in SUBSET Answers, IsFiniteSet(A),
           NEW q \in Requests, NEW a \in Answers, tally' = [tally EXCEPT ![q][a] = @ + 1]
    PROVE  Passed(W, A)' = Passed(W, A) + (IF a \in A THEN W[q] ELSE 0)
<1>1. PICK f : f = [r \in Requests |-> Answered(r, A) * W[r]]
  OBVIOUS
<1>2. PICK h : h = [r \in Requests |-> Answered(r, A)' * W[r]]
  OBVIOUS
<1>3. PICK d \in Nat : d = IF a \in A THEN W[q] ELSE 0
  OBVIOUS
<1>4. ASSUME NEW r \in Requests
      PROVE  f[r] \in Nat /\ h[r] = f[r] + (IF r = q THEN d ELSE 0)
  <2>1. PICK n \in Nat : n = Answered(r, A)
    BY AnsweredTyped
  <2>2. PICK w \in Nat : w = W[r]
    OBVIOUS
  <2>3. Answered(r, A)' = n + (IF r = q /\ a \in A THEN 1 ELSE 0)
    BY <2>1, AnsweredGrows
  <2>4. f[r] = n * w /\ n * w \in Nat /\ (n + 1) * w = n * w + w /\ (n + 0) * w = n * w
    BY <1>1, <2>1, <2>2
  <2>5. h[r] = (n + (IF r = q /\ a \in A THEN 1 ELSE 0)) * w
    BY <1>2, <2>2, <2>3
  <2> QED
    BY <1>3, <2>2, <2>4, <2>5
<1>5. SumFunctionOnSet(h, Requests) = SumFunctionOnSet(f, Requests) + d
  <2>1. /\ \A r \in Requests : f[r] \in Nat
        /\ h[q] = f[q] + d
        /\ \A r \in Requests \ {q} : h[r] = f[r]
    BY <1>4
  <2> QED
    BY <2>1, SumChanged, PipelineAssumption
<1>6. Passed(W, A) = SumFunctionOnSet(f, Requests) /\ Passed(W, A)' = SumFunctionOnSet(h, Requests)
  BY <1>1, <1>2 DEF Passed
<1> QED
  BY <1>3, <1>5, <1>6

LEMMA PassedSame ==
    ASSUME UNCHANGED tally, NEW W, NEW A PROVE Passed(W, A)' = Passed(W, A)
<1>1. \A r : Answered(r, A)' = Answered(r, A)
  BY DEF Answered
<1> QED
  BY <1>1 DEF Passed

LEMMA UnderWayMoves ==
    ASSUME Counted, NEW W \in [Requests -> Nat], NEW S, NEW t \in Threads, NEW s, NEW q \in Requests,
           stage' = [stage EXCEPT ![t] = s], req' = [req EXCEPT ![t] = q]
    PROVE  UnderWay(W, S)' = UnderWay(W, S) + (IF s \in S THEN W[q] ELSE 0)
                                            - (IF stage[t] \in S THEN W[req[t]] ELSE 0)
<1>1. PICK f : f = [u \in Threads |-> IF stage[u] \in S THEN W[req[u]] ELSE 0]
  OBVIOUS
<1>2. PICK h : h = [u \in Threads |-> IF stage'[u] \in S THEN W[req'[u]] ELSE 0]
  OBVIOUS
<1>3. PICK c \in Nat : c = IF stage[t] \in S THEN W[req[t]] ELSE 0
  BY DEF Counted
<1>4. PICK e \in Nat : e = IF s \in S THEN W[q] ELSE 0
  OBVIOUS
<1>5. /\ \A u \in Threads : f[u] \in Nat
      /\ h[t] = f[t] + (e - c)
      /\ \A u \in Threads \ {t} : h[u] = f[u]
  <2>1. f[t] = c
    BY <1>1, <1>3
  <2>2. h[t] = e
    BY <1>2, <1>4 DEF Counted
  <2>3. \A u \in Threads : f[u] \in Nat
    BY <1>1 DEF Counted
  <2>4. \A u \in Threads \ {t} : h[u] = f[u]
    BY <1>1, <1>2 DEF Counted
  <2> QED
    BY <2>1, <2>2, <2>3, <2>4
<1>6. e - c \in Int
  OBVIOUS
<1>7. SumFunctionOnSet(h, Threads) = SumFunctionOnSet(f, Threads) + (e - c)
  BY <1>5, <1>6, SumChanged, PipelineAssumption
<1>8. SumFunctionOnSet(f, Threads) \in Nat
  BY <1>5, SumTyped, PipelineAssumption
<1>9. UnderWay(W, S) = SumFunctionOnSet(f, Threads) /\ UnderWay(W, S)' = SumFunctionOnSet(h, Threads)
  BY <1>1, <1>2 DEF UnderWay
<1> QED
  BY <1>3, <1>4, <1>7, <1>8, <1>9

LEMMA UnderWaySame ==
    ASSUME UNCHANGED <<stage, req>>, NEW W, NEW S PROVE UnderWay(W, S)' = UnderWay(W, S)
BY DEF UnderWay

(* A thread that goes on, or is answered, moves its request from where it  *)
(* was to where it is now.                                                 *)
LEMMA TotalContinues ==
    ASSUME Counted, NEW W \in [Requests -> Nat], NEW A \in SUBSET Answers, IsFiniteSet(A), NEW S,
           NEW t \in Threads, NEW s, NEW q \in Requests,
           Continue(t, s), req' = [req EXCEPT ![t] = q], Counted'
    PROVE  Total(W, A, S)' = Total(W, A, S) + (IF s \in S THEN W[q] ELSE 0)
                                            - (IF stage[t] \in S THEN W[req[t]] ELSE 0)
<1>1. stage' = [stage EXCEPT ![t] = s] /\ UNCHANGED tally
  BY DEF Continue
<1>2. Passed(W, A)' = Passed(W, A)
  BY <1>1, PassedSame
<1>3. UnderWay(W, S)' = UnderWay(W, S) + (IF s \in S THEN W[q] ELSE 0)
                                       - (IF stage[t] \in S THEN W[req[t]] ELSE 0)
  BY <1>1, UnderWayMoves
<1>4. Total(W, A, S)' = Passed(W, A)' + UnderWay(W, S)'
  BY DEF Total, Passed, UnderWay
<1>5. /\ Passed(W, A) \in Nat /\ UnderWay(W, S) \in Nat
      /\ Total(W, A, S) = Passed(W, A) + UnderWay(W, S)
  BY TotalTyped
<1>6. PICK c \in Nat : c = IF stage[t] \in S THEN W[req[t]] ELSE 0
  BY DEF Counted
<1>7. PICK e \in Nat : e = IF s \in S THEN W[q] ELSE 0
  OBVIOUS
<1> QED
  BY <1>2, <1>3, <1>4, <1>5, <1>6, <1>7

LEMMA TotalAnswers ==
    ASSUME Counted, NEW W \in [Requests -> Nat], NEW A \in SUBSET Answers, IsFiniteSet(A), NEW S,
           "idle" \notin S, NEW t \in Threads, NEW a \in Answers, NEW q \in Requests,
           Answer(t, a), req' = [req EXCEPT ![t] = q]
    PROVE  Total(W, A, S)' = Total(W, A, S) + (IF a \in A THEN W[q] ELSE 0)
                                            - (IF stage[t] \in S THEN W[req[t]] ELSE 0)
<1>1. /\ stage' = [stage EXCEPT ![t] = "idle"]
      /\ tally' = [tally EXCEPT ![q][a] = @ + 1]
  <2>1. req'[t] = q
    BY DEF Counted
  <2> QED
    BY <2>1 DEF Answer
<1>2. Passed(W, A)' = Passed(W, A) + (IF a \in A THEN W[q] ELSE 0)
  BY <1>1, PassedGrows
<1>3. UnderWay(W, S)' = UnderWay(W, S) + (IF "idle" \in S THEN W[q] ELSE 0)
                                       - (IF stage[t] \in S THEN W[req[t]] ELSE 0)
  BY <1>1, UnderWayMoves
<1>4. Total(W, A, S)' = Passed(W, A)' + UnderWay(W, S)'
  BY DEF Total, Passed, UnderWay
<1>5. /\ Passed(W, A) \in Nat /\ UnderWay(W, S) \in Nat
      /\ Total(W, A, S) = Passed(W, A) + UnderWay(W, S)
  BY TotalTyped
<1>6. PICK c \in Nat : c = IF stage[t] \in S THEN W[req[t]] ELSE 0
  BY DEF Counted
<1>7. PICK e \in Nat : e = IF a \in A THEN W[q] ELSE 0
  OBVIOUS
<1> QED
  BY <1>2, <1>3, <1>4, <1>5, <1>6, <1>7

LEMMA TotalSame ==
    ASSUME UNCHANGED <<tally, stage, req>>, NEW W, NEW A, NEW S
    PROVE  Total(W, A, S)' = Total(W, A, S)
<1>1. Passed(W, A)' = Passed(W, A) /\ UnderWay(W, S)' = UnderWay(W, S)
  BY PassedSame, UnderWaySame
<1> QED
  BY <1>1 DEF Total, Passed, UnderWay

LEMMA TotalStarts ==
    ASSUME PipelineInit, NEW W \in [Requests -> Nat], NEW A \in SUBSET Answers, IsFiniteSet(A),
           NEW S, "idle" \notin S
    PROVE  Total(W, A, S) = 0
<1>1. ASSUME NEW r \in Requests PROVE [q \in Requests |-> Answered(q, A) * W[q]][r] = 0
  <2>1. \A a \in A : tally[r][a] = 0
    BY DEF PipelineInit
  <2>2. Answered(r, A) = 0
    BY <2>1, SumZero DEF Answered
  <2> QED
    BY <2>2
<1>2. \A t \in Threads : [u \in Threads |-> IF stage[u] \in S THEN W[req[u]] ELSE 0][t] = 0
  BY DEF PipelineInit
<1>3. Passed(W, A) = 0
  BY <1>1, SumZero, PipelineAssumption DEF Passed
<1>4. UnderWay(W, S) = 0
  BY <1>2, SumZero, PipelineAssumption DEF UnderWay
<1> QED
  BY <1>3, <1>4 DEF Total, Passed, UnderWay

LEMMA WeightsTyped ==
    /\ \A a : Units(a) \in [Requests -> Nat]
    /\ \A k : Tokens(k) \in [Requests -> Nat]
BY PipelineAssumption DEF Units, Tokens, Uint

Charged(a) == Total(Units(a), AfterBudget, {"dry_run"})

Taken(k) == Total(Tokens(k), AfterRate, {"budget", "dry_run"})

LEMMA AnswersTyped ==
    /\ AfterBudget \in SUBSET Answers /\ IsFiniteSet(AfterBudget)
    /\ AfterRate \in SUBSET Answers /\ IsFiniteSet(AfterRate)
BY AnswersFinite DEF AfterBudget, AfterRate, Accepted, Answers

LEMMA ChargedContinues ==
    ASSUME Counted, Counted', NEW a, NEW t \in Threads, NEW s, NEW q \in Requests,
           Continue(t, s), req' = [req EXCEPT ![t] = q]
    PROVE  Charged(a)' = Charged(a) + (IF s = "dry_run" THEN Units(a)[q] ELSE 0)
                                    - (IF stage[t] = "dry_run" THEN Units(a)[req[t]] ELSE 0)
<1>1. PICK W \in [Requests -> Nat] : W = Units(a)
  BY WeightsTyped
<1>2. PICK S : S = {"dry_run"}
  OBVIOUS
<1>3. PICK A \in SUBSET Answers : A = AfterBudget /\ IsFiniteSet(A)
  BY AnswersTyped
<1>4. Total(W, A, S)' = Total(W, A, S) + (IF s \in S THEN W[q] ELSE 0)
                                       - (IF stage[t] \in S THEN W[req[t]] ELSE 0)
  BY <1>3, TotalContinues
<1>5. Charged(a) = Total(W, A, S) /\ Charged(a)' = Total(W, A, S)'
  BY <1>1, <1>2, <1>3 DEF Charged
<1> QED
  BY <1>1, <1>2, <1>3, <1>4, <1>5

LEMMA ChargedAnswers ==
    ASSUME Counted, NEW a, NEW t \in Threads, NEW b \in Answers, NEW q \in Requests,
           Answer(t, b), req' = [req EXCEPT ![t] = q]
    PROVE  Charged(a)' = Charged(a) + (IF b \in AfterBudget THEN Units(a)[q] ELSE 0)
                                    - (IF stage[t] = "dry_run" THEN Units(a)[req[t]] ELSE 0)
<1>1. PICK W \in [Requests -> Nat] : W = Units(a)
  BY WeightsTyped
<1>2. PICK S : S = {"dry_run"}
  OBVIOUS
<1>3. PICK A \in SUBSET Answers : A = AfterBudget /\ IsFiniteSet(A)
  BY AnswersTyped
<1>4. Total(W, A, S)' = Total(W, A, S) + (IF b \in A THEN W[q] ELSE 0)
                                       - (IF stage[t] \in S THEN W[req[t]] ELSE 0)
  <2>1. "idle" \notin S
    BY <1>2
  <2>2. /\ Counted /\ W \in [Requests -> Nat] /\ A \in SUBSET Answers /\ IsFiniteSet(A)
        /\ t \in Threads /\ b \in Answers /\ q \in Requests
        /\ Answer(t, b) /\ req' = [req EXCEPT ![t] = q]
    BY <1>3
  <2> QED
    BY ONLY <2>1, <2>2, TotalAnswers
<1>5. Charged(a) = Total(W, A, S) /\ Charged(a)' = Total(W, A, S)'
  BY <1>1, <1>2, <1>3 DEF Charged
<1> QED
  BY <1>1, <1>2, <1>3, <1>4, <1>5

LEMMA TakenContinues ==
    ASSUME Counted, Counted', NEW k, NEW t \in Threads, NEW s, NEW q \in Requests,
           Continue(t, s), req' = [req EXCEPT ![t] = q]
    PROVE  Taken(k)' = Taken(k) + (IF s \in {"budget", "dry_run"} THEN Tokens(k)[q] ELSE 0)
                                - (IF stage[t] \in {"budget", "dry_run"} THEN Tokens(k)[req[t]] ELSE 0)
<1>1. PICK W \in [Requests -> Nat] : W = Tokens(k)
  BY WeightsTyped
<1>2. PICK S : S = {"budget", "dry_run"}
  OBVIOUS
<1>3. PICK A \in SUBSET Answers : A = AfterRate /\ IsFiniteSet(A)
  BY AnswersTyped
<1>4. Total(W, A, S)' = Total(W, A, S) + (IF s \in S THEN W[q] ELSE 0)
                                       - (IF stage[t] \in S THEN W[req[t]] ELSE 0)
  BY <1>3, TotalContinues
<1>5. Taken(k) = Total(W, A, S) /\ Taken(k)' = Total(W, A, S)'
  BY <1>1, <1>2, <1>3 DEF Taken
<1> QED
  BY <1>1, <1>2, <1>3, <1>4, <1>5

LEMMA TakenAnswers ==
    ASSUME Counted, NEW k, NEW t \in Threads, NEW b \in Answers, NEW q \in Requests,
           Answer(t, b), req' = [req EXCEPT ![t] = q]
    PROVE  Taken(k)' = Taken(k) + (IF b \in AfterRate THEN Tokens(k)[q] ELSE 0)
                                - (IF stage[t] \in {"budget", "dry_run"} THEN Tokens(k)[req[t]] ELSE 0)
<1>1. PICK W \in [Requests -> Nat] : W = Tokens(k)
  BY WeightsTyped
<1>2. PICK S : S = {"budget", "dry_run"}
  OBVIOUS
<1>3. PICK A \in SUBSET Answers : A = AfterRate /\ IsFiniteSet(A)
  BY AnswersTyped
<1>4. Total(W, A, S)' = Total(W, A, S) + (IF b \in A THEN W[q] ELSE 0)
                                       - (IF stage[t] \in S THEN W[req[t]] ELSE 0)
  <2>1. "idle" \notin S
    BY <1>2
  <2>2. /\ Counted /\ W \in [Requests -> Nat] /\ A \in SUBSET Answers /\ IsFiniteSet(A)
        /\ t \in Threads /\ b \in Answers /\ q \in Requests
        /\ Answer(t, b) /\ req' = [req EXCEPT ![t] = q]
    BY <1>3
  <2> QED
    BY ONLY <2>1, <2>2, TotalAnswers
<1>5. Taken(k) = Total(W, A, S) /\ Taken(k)' = Total(W, A, S)'
  BY <1>1, <1>2, <1>3 DEF Taken
<1> QED
  BY <1>1, <1>2, <1>3, <1>4, <1>5

LEMMA TotalsTyped ==
    ASSUME Counted, NEW a PROVE Charged(a) \in Nat /\ Taken(a) \in Nat
<1>1. ASSUME NEW W \in [Requests -> Nat], NEW A \in SUBSET Answers, IsFiniteSet(A), NEW S
      PROVE  Total(W, A, S) \in Nat
  BY <1>1, TotalTyped
<1> QED
  BY <1>1, AnswersTyped, WeightsTyped DEF Charged, Taken

LEMMA TotalsSame ==
    ASSUME UNCHANGED <<tally, stage, req>>, NEW a PROVE Charged(a)' = Charged(a) /\ Taken(a)' = Taken(a)
BY TotalSame DEF Charged, Taken

-----------------------------------------------------------------------------
(* The ledger is exact *)

LEMMA SoundIsCounted == PipelineSound => Counted
BY DEF PipelineSound, AnswersSound, Counted

LedgerSound ==
    /\ waived \in [Accounts -> Nat]
    /\ \A a \in Accounts : ledger_[a] + waived[a] = Charged(a)

LEMMA RequestKept == ASSUME Counted, NEW t \in Threads, UNCHANGED req
                     PROVE  req[t] \in Requests /\ req' = [req EXCEPT ![t] = req[t]]
BY DEF Counted

(* A step that charges nothing: the thread was not yet charged and still   *)
(* is not, or was and still is.                                            *)
LEMMA NothingCharged ==
    ASSUME Counted, Counted', LedgerSound, UNCHANGED <<ledger_, waived>>,
           NEW t \in Threads, NEW q \in Requests, req' = [req EXCEPT ![t] = q],
           \/ /\ stage[t] # "dry_run"
              /\ \/ \E s \in {"rate", "budget"} : Continue(t, s)
                 \/ \E b \in Answers \ AfterBudget : Answer(t, b)
           \/ /\ stage[t] = "dry_run" /\ q = req[t]
              /\ \E b \in AfterBudget : Answer(t, b)
    PROVE  LedgerSound'
<1>1. ASSUME NEW a \in Accounts PROVE Charged(a)' = Charged(a)
  <2>1. PICK c \in Nat, u \in Nat, v \in Nat :
            c = Charged(a) /\ u = Units(a)[q] /\ v = Units(a)[req[t]]
    BY TotalsTyped, WeightsTyped DEF Counted
  <2>2. CASE stage[t] # "dry_run" /\ \E s \in {"rate", "budget"} : Continue(t, s)
    <3>1. PICK s \in {"rate", "budget"} : Continue(t, s)
      BY <2>2
    <3>2. Charged(a)' = Charged(a) + (IF s = "dry_run" THEN Units(a)[q] ELSE 0)
                                   - (IF stage[t] = "dry_run" THEN Units(a)[req[t]] ELSE 0)
      BY <3>1, ChargedContinues
    <3> QED
      BY <2>1, <2>2, <3>1, <3>2
  <2>3. CASE stage[t] # "dry_run" /\ \E b \in Answers \ AfterBudget : Answer(t, b)
    <3>1. PICK b \in Answers : b \notin AfterBudget /\ Answer(t, b)
      BY <2>3
    <3>2. Charged(a)' = Charged(a) + (IF b \in AfterBudget THEN Units(a)[q] ELSE 0)
                                   - (IF stage[t] = "dry_run" THEN Units(a)[req[t]] ELSE 0)
      BY <3>1, ChargedAnswers
    <3> QED
      BY <2>1, <2>3, <3>1, <3>2
  <2>4. CASE stage[t] = "dry_run" /\ q = req[t] /\ \E b \in AfterBudget : Answer(t, b)
    <3>1. PICK b \in Answers : b \in AfterBudget /\ Answer(t, b)
      BY <2>4, AnswersTyped
    <3>2. Charged(a)' = Charged(a) + (IF b \in AfterBudget THEN Units(a)[q] ELSE 0)
                                   - (IF stage[t] = "dry_run" THEN Units(a)[req[t]] ELSE 0)
      BY <3>1, ChargedAnswers
    <3> QED
      BY <2>1, <2>4, <3>1, <3>2
  <2> QED
    BY <2>2, <2>3, <2>4
<1> QED
  BY <1>1 DEF LedgerSound

LEMMA SubmitCharges ==
    ASSUME Counted, Counted', LedgerSound, NEW t \in Threads, NEW r \in Requests, Submit(t, r)
    PROVE  LedgerSound'
<1>1. /\ UNCHANGED <<ledger_, waived>> /\ stage[t] # "dry_run"
      /\ req' = [req EXCEPT ![t] = r]
      /\ Continue(t, "rate") \/ (Precheck(r) # "ok" /\ Answer(t, Precheck(r)))
  BY DEF Submit
<1>2. Precheck(r) # "ok" => Precheck(r) \in Answers \ AfterBudget
  BY PrecheckAnswers DEF AfterRate
<1> QED
  BY <1>1, <1>2, NothingCharged

LEMMA RateStageCharges ==
    ASSUME Counted, Counted', LedgerSound, NEW t \in Threads, RateStage(t)
    PROVE  LedgerSound'
<1>1. /\ UNCHANGED <<ledger_, waived, req>> /\ stage[t] # "dry_run"
      /\ Continue(t, "budget") \/ Answer(t, "rate_limit_exceeded")
  BY DEF RateStage
<1>2. "rate_limit_exceeded" \in Answers \ AfterBudget
  BY DEF Answers, AfterBudget, Accepted
<1>3. req[t] \in Requests /\ req' = [req EXCEPT ![t] = req[t]]
  BY <1>1, RequestKept
<1> QED
  BY <1>1, <1>2, <1>3, NothingCharged

LEMMA DryRunStageCharges ==
    ASSUME Counted, Counted', LedgerSound, NEW t \in Threads, DryRunStage(t)
    PROVE  LedgerSound'
<1>1. /\ UNCHANGED <<ledger_, waived, req>> /\ stage[t] = "dry_run"
      /\ \E b \in AfterBudget : Answer(t, b)
  BY DEF DryRunStage, AfterBudget, Accepted
<1>2. req[t] \in Requests /\ req' = [req EXCEPT ![t] = req[t]]
  BY <1>1, RequestKept
<1> QED
  BY <1>1, <1>2, NothingCharged

(* consume() adds the request's units to its own account, and to no other. *)
LEMMA ConsumeAdds ==
    ASSUME LedgerOK, NEW a \in Accounts, NEW units \in Uint, ~Exhausted(a, units), consume(a, units)
    PROVE  \A b \in Accounts : ledger_'[b] = ledger_[b] + (IF a = b THEN units ELSE 0)
<1>1. PICK c \in Uint : c = ceiling_for[a[3]]
  BY BudgetAssumption DEF Accounts, Uint
<1>2. PICK l \in Uint : l = ledger_[a]
  BY DEF LedgerOK
<1>3. l + units <= c
  BY <1>1, <1>2, ExhaustedIsExcess DEF Uint
<1>4. l + units \in Uint
  BY <1>3, BudgetAssumption DEF Uint
<1>5. ledger_' = [ledger_ EXCEPT ![a] = l + units]
  BY <1>2, <1>4, FitsTheWord DEF consume
<1>6. \A b \in Accounts : ledger_[b] \in Nat
  BY BudgetAssumption DEF LedgerOK, Uint
<1> QED
  BY <1>2, <1>5, <1>6 DEF LedgerOK

LEMMA BudgetStageCharges ==
    ASSUME PipelineSound, Counted, Counted', LedgerSound, NEW t \in Threads, BudgetStage(t)
    PROVE  LedgerSound'
<1>1. PICK q \in Requests : q = req[t] /\ req' = [req EXCEPT ![t] = q]
  BY RequestKept DEF BudgetStage
<1>2. /\ UNCHANGED waived /\ stage[t] = "budget" /\ consume(Account(q), q.estimated)
      /\ Precheck(q) = "ok" /\ Account(q) \in Accounts /\ q.estimated \in Uint
  <2>1. stage[t] = "budget" /\ Precheck(q) = "ok"
    BY <1>1 DEF BudgetStage, PipelineSound
  <2> QED
    BY <1>1, <2>1, BucketsTyped DEF BudgetStage
<1>3. CASE Exhausted(Account(q), q.estimated)
  <2>1. UNCHANGED ledger_ /\ Answer(t, "budget_exhausted")
    BY <1>1, <1>2, <1>3 DEF BudgetStage, consume
  <2>2. "budget_exhausted" \in Answers \ AfterBudget
    BY DEF Answers, AfterBudget, Accepted
  <2> QED
    BY <1>1, <1>2, <2>1, <2>2, NothingCharged
<1>4. CASE ~Exhausted(Account(q), q.estimated)
  <2>1. Continue(t, "dry_run") \/ Answer(t, "validated")
    BY <1>1, <1>4 DEF BudgetStage
  <2>2. LedgerOK
    BY DEF PipelineSound
  <2>3. ASSUME NEW a \in Accounts
        PROVE  ledger_'[a] = ledger_[a] + (IF Account(q) = a THEN q.estimated ELSE 0)
    BY <1>2, <1>4, <2>2, ConsumeAdds
  <2>4. ASSUME NEW a \in Accounts
        PROVE  Charged(a)' = Charged(a) + (IF Account(q) = a THEN q.estimated ELSE 0)
    <3>1. PICK c \in Nat, u \in Nat : c = Charged(a) /\ u = Units(a)[q]
      BY TotalsTyped, WeightsTyped
    <3>2. u = IF Account(q) = a THEN q.estimated ELSE 0
      BY <1>2, <3>1 DEF Units
    <3>3. CASE Continue(t, "dry_run")
      <4>1. Charged(a)' = Charged(a) + (IF "dry_run" = "dry_run" THEN Units(a)[q] ELSE 0)
                                     - (IF stage[t] = "dry_run" THEN Units(a)[req[t]] ELSE 0)
        BY <1>1, <3>3, ChargedContinues
      <4>2. Charged(a)' = c + u
        BY <1>2, <3>1, <4>1
      <4> QED
        BY <3>1, <3>2, <4>2
    <3>4. CASE Answer(t, "validated")
      <4>1. "validated" \in Answers /\ "validated" \in AfterBudget
        BY DEF Answers, AfterBudget, Accepted
      <4>2. PICK b \in Answers : b = "validated" /\ b \in AfterBudget /\ Answer(t, b)
        BY <3>4, <4>1
      <4>3. Charged(a)' = Charged(a) + (IF b \in AfterBudget THEN Units(a)[q] ELSE 0)
                                     - (IF stage[t] = "dry_run" THEN Units(a)[req[t]] ELSE 0)
        BY <1>1, <4>2, ChargedAnswers
      <4>4. Charged(a)' = c + u
        BY <1>2, <3>1, <4>2, <4>3
      <4> QED
        BY <3>1, <3>2, <4>4
    <3> QED
      BY <2>1, <3>3, <3>4
  <2>5. ASSUME NEW a \in Accounts PROVE ledger_'[a] + waived'[a] = Charged(a)'
    <3>1. PICK l \in Nat, w \in Nat, c \in Nat, e \in Nat :
              /\ l = ledger_[a] /\ w = waived[a] /\ c = Charged(a)
              /\ e = IF Account(q) = a THEN q.estimated ELSE 0
      BY <1>2, <2>2, TotalsTyped, BudgetAssumption DEF LedgerOK, LedgerSound, Uint
    <3>2. l + w = c /\ waived'[a] = w
      BY <1>2, <3>1 DEF LedgerSound
    <3> QED
      BY <2>3, <2>4, <3>1, <3>2
  <2> QED
    BY <1>2, <2>5 DEF LedgerSound
<1> QED
  BY <1>3, <1>4

LEMMA ResetBudgetCharges ==
    ASSUME PipelineSound, Counted, LedgerSound, NEW o, ResetBudget(o) PROVE LedgerSound'
<1>1. /\ UNCHANGED <<stage, req, tally>>
      /\ ledger_' = [a \in Accounts |-> IF a[1] = o THEN 0 ELSE ledger_[a]]
      /\ waived' = [a \in Accounts |-> IF a[1] = o THEN waived[a] + ledger_[a] ELSE waived[a]]
  BY DEF ResetBudget, reset_operator
<1>2. ASSUME NEW a \in Accounts
      PROVE  waived'[a] \in Nat /\ ledger_'[a] + waived'[a] = Charged(a)'
  <2>1. PICK l \in Nat, w \in Nat, c \in Nat : l = ledger_[a] /\ w = waived[a] /\ c = Charged(a)
    BY TotalsTyped, BudgetAssumption DEF PipelineSound, LedgerOK, LedgerSound, Uint
  <2>2. l + w = c
    BY <2>1 DEF LedgerSound
  <2>3. Charged(a)' = c
    BY <1>1, <2>1, TotalsSame
  <2> QED
    BY <1>1, <2>1, <2>2, <2>3
<1>3. waived' \in [Accounts -> Nat]
  BY <1>1, <1>2
<1> QED
  BY <1>2, <1>3 DEF LedgerSound

LEMMA LedgerSteps ==
    PipelineSound /\ PipelineSound' /\ LedgerSound /\ [PipelineNext]_pipeline_vars => LedgerSound'
<1> SUFFICES ASSUME PipelineSound, PipelineSound', LedgerSound, [PipelineNext]_pipeline_vars
             PROVE  LedgerSound'
  OBVIOUS
<1>1. Counted /\ Counted'
  BY SoundIsCounted DEF PipelineSound, AnswersSound, Counted
<1>2. ASSUME NEW t \in Threads, NEW r \in Requests, Submit(t, r) PROVE LedgerSound'
  BY <1>1, <1>2, SubmitCharges
<1>3. ASSUME NEW t \in Threads, RateStage(t) PROVE LedgerSound'
  BY <1>1, <1>3, RateStageCharges
<1>4. ASSUME NEW t \in Threads, BudgetStage(t) PROVE LedgerSound'
  BY <1>1, <1>4, BudgetStageCharges
<1>5. ASSUME NEW t \in Threads, DryRunStage(t) PROVE LedgerSound'
  BY <1>1, <1>5, DryRunStageCharges
<1>6. ASSUME NEW o \in BudgetOperators, ResetBudget(o) PROVE LedgerSound'
  BY <1>1, <1>6, ResetBudgetCharges
<1>7. ASSUME UNCHANGED <<ledger_, waived, stage, req, tally>> PROVE LedgerSound'
  <2>1. \A a : Charged(a)' = Charged(a)
    BY <1>7, TotalsSame
  <2> QED
    BY <1>7, <2>1 DEF LedgerSound
<1>8. ASSUME NEW o \in Operators, ResetLimiter(o) PROVE LedgerSound'
  BY <1>7, <1>8 DEF ResetLimiter
<1>9. CASE TimePasses \/ UNCHANGED pipeline_vars
  BY <1>7, <1>9 DEF TimePasses, pipeline_vars
<1> QED
  BY <1>2, <1>3, <1>4, <1>5, <1>6, <1>8, <1>9 DEF PipelineNext

LEMMA ChargesStart == PipelineInit => LedgerSound
<1> SUFFICES ASSUME PipelineInit PROVE LedgerSound
  OBVIOUS
<1>1. ASSUME NEW a \in Accounts PROVE Charged(a) = 0
  <2>1. PICK S : S = {"dry_run"}
    OBVIOUS
  <2>2. PICK A \in SUBSET Answers : A = AfterBudget /\ IsFiniteSet(A)
    BY AnswersTyped
  <2>3. PICK W \in [Requests -> Nat] : W = Units(a)
    BY WeightsTyped
  <2>4. Total(W, A, S) = 0
    <3>1. "idle" \notin S
      BY <2>1
    <3> QED
      BY <2>2, <3>1, TotalStarts
  <2> QED
    BY <2>1, <2>2, <2>3, <2>4 DEF Charged
<1> QED
  BY <1>1 DEF PipelineInit, BudgetInit, LedgerSound

-----------------------------------------------------------------------------
(* The tokens are accounted for *)

LEMMA WholeWindows ==
    ASSUME NEW n \in Nat
    PROVE  /\ n \div Window \in Nat
           /\ \A w \in Nat : w * Window <= n => w <= n \div Window
<1>1. PICK v \in Nat \ {0} : v = Window
  BY LimiterAssumption
<1>2. n \div v \in Nat /\ n < (n \div v + 1) * v
  BY <1>1
<1>3. PICK d \in Nat : d = n \div v
  BY <1>2
<1>4. ASSUME NEW w \in Nat, w * v <= n PROVE w <= d
  <2>1. w * v < (d + 1) * v
    BY <1>1, <1>2, <1>3, <1>4
  <2> QED
    BY <1>1, <2>1
<1> QED
  BY <1>1, <1>2, <1>3, <1>4

LEMMA WindowsGrow == ASSUME NEW n \in Nat PROVE n \div Window <= (n + 1) \div Window
<1>1. PICK v \in Nat \ {0} : v = Window
  BY LimiterAssumption
<1>2. PICK d \in Nat : d = n \div v /\ d * v <= n
  BY <1>1
<1>3. d * Window <= n + 1
  BY <1>1, <1>2
<1> QED
  BY <1>1, <1>2, <1>3, WholeWindows

(* p requests have taken a token of bucket b, whose quota is q.  Those from*)
(* before the last reset fit into r windows; since then there were w, one  *)
(* after the other, and the requests of the last are counted.              *)
Accounted(b, p, q, r) ==
    /\ b.count <= q /\ b.count <= p
    /\ \/ b.window_start = 0 /\ b.count = 0 /\ p <= q * r
       \/ \E w \in Nat \ {0} : w * Window <= b.window_start /\ p <= q * (r + (w - 1)) + b.count

LEMMA AccountedFits ==
    ASSUME NEW b \in Bucket, NEW p \in Nat, NEW q \in Nat, NEW r \in Nat, NEW n \in Nat,
           Accounted(b, p, q, r), b.window_start <= n
    PROVE  p <= q * (r + n \div Window)
<1>1. PICK d \in Nat : d = n \div Window /\ \A w \in Nat : w * Window <= n => w <= d
  BY WholeWindows
<1>2. CASE p <= q * r
  BY <1>1, <1>2
<1>3. CASE \E w \in Nat \ {0} : w * Window <= b.window_start /\ p <= q * (r + (w - 1)) + b.count
  <2>1. PICK w \in Nat \ {0} : w * Window <= b.window_start /\ p <= q * (r + (w - 1)) + b.count
    BY <1>3
  <2>2. b.count \in Nat /\ b.window_start \in Nat /\ b.count <= q /\ Window \in Nat
    BY LimiterAssumption DEF Bucket, Accounted
  <2>3. w <= d
    BY <1>1, <2>1, <2>2
  <2>4. q * (r + (w - 1)) + q = q * (r + w) /\ q * (r + w) <= q * (r + d)
    BY <2>3
  <2> QED
    BY <1>1, <2>1, <2>2, <2>4
<1> QED
  BY <1>2, <1>3 DEF Accounted

LEMMA AccountedMore ==
    ASSUME NEW b, NEW p \in Nat, NEW q \in Nat, NEW r \in Nat, NEW m \in Nat,
           b \in Bucket, Accounted(b, p, q, r), r <= m
    PROVE  Accounted(b, p, q, m)
<1>1. q * r <= q * m /\ b.count \in Nat
  BY DEF Bucket
<1>2. ASSUME NEW w \in Nat \ {0}, p <= q * (r + (w - 1)) + b.count
      PROVE  p <= q * (m + (w - 1)) + b.count
  <2>1. q * (r + (w - 1)) <= q * (m + (w - 1))
    OBVIOUS
  <2> QED
    BY <1>1, <1>2, <2>1
<1>3. b.count <= q /\ b.count <= p
  BY DEF Accounted
<1>4. CASE b.window_start = 0 /\ b.count = 0 /\ p <= q * r
  <2>1. PICK x \in Nat, y \in Nat : x = q * r /\ y = q * m
    OBVIOUS
  <2>2. p <= q * m
    BY <1>1, <1>4, <2>1
  <2> QED
    BY ONLY <1>3, <1>4, <2>2 DEF Accounted
<1>5. CASE \E w \in Nat \ {0} : w * Window <= b.window_start /\ p <= q * (r + (w - 1)) + b.count
  <2>1. PICK w \in Nat \ {0} : w * Window <= b.window_start /\ p <= q * (r + (w - 1)) + b.count
    BY <1>5
  <2>2. p <= q * (m + (w - 1)) + b.count
    BY <1>2, <2>1
  <2> QED
    BY ONLY <1>3, <2>1, <2>2, w \in Nat \ {0} DEF Accounted
<1> QED
  BY ONLY <1>4, <1>5, Accounted(b, p, q, r) DEF Accounted

LEMMA AccountedReset ==
    ASSUME NEW b \in Bucket, NEW p \in Nat, NEW q \in Nat, NEW r \in Nat, NEW n \in Nat,
           Accounted(b, p, q, r), b.window_start <= n
    PROVE  Accounted(NewBucket, p, q, r + n \div Window)
<1>1. PICK m \in Nat : m = r + n \div Window
  BY WholeWindows
<1>2. p <= q * m
  BY <1>1, AccountedFits
<1>3. NewBucket.count = 0 /\ NewBucket.window_start = 0
  BY DEF NewBucket
<1>4. Accounted(NewBucket, p, q, m)
  BY <1>2, <1>3 DEF Accounted
<1> QED
  BY <1>1, <1>4

LEMMA AccountedExpired ==
    ASSUME NEW b \in Bucket, NEW p \in Nat, NEW q \in Nat, NEW r \in Nat, NEW t \in Nat,
           Accounted(b, p, q, r), Window <= t, b.window_start + Window <= t
    PROVE  Accounted([count |-> 0, window_start |-> t], p, q, r)
<1>1. PICK c : c = [count |-> 0, window_start |-> t]
  OBVIOUS
<1>2. PICK v \in Nat : v = Window
  BY LimiterAssumption
<1>3. \E w \in Nat \ {0} : w * Window <= t /\ p <= q * (r + (w - 1)) + 0
  <2>1. CASE p <= q * r
    <3>1. 1 * Window <= t /\ p <= q * (r + (1 - 1)) + 0
      BY <1>2, <2>1
    <3> QED
      BY <3>1
  <2>2. CASE \E w \in Nat \ {0} : w * Window <= b.window_start /\ p <= q * (r + (w - 1)) + b.count
    <3>1. PICK w \in Nat \ {0} : w * Window <= b.window_start /\ p <= q * (r + (w - 1)) + b.count
      BY <2>2
    <3>2. b.count \in Nat /\ b.window_start \in Nat /\ b.count <= q
      BY DEF Bucket, Accounted
    <3>3. (w + 1) * v = w * v + v /\ w * v \in Nat
      BY <1>2
    <3>4. (w + 1) * Window <= t
      BY <1>2, <3>1, <3>2, <3>3
    <3>5. q * (r + (w - 1)) + q = q * (r + ((w + 1) - 1)) /\ q * (r + (w - 1)) \in Nat
      OBVIOUS
    <3>6. p <= q * (r + ((w + 1) - 1)) + 0
      BY <3>1, <3>2, <3>5
    <3> QED
      BY <3>4, <3>6
  <2> QED
    BY <2>1, <2>2 DEF Accounted
<1>4. Accounted(c, p, q, r)
  BY <1>1, <1>3 DEF Accounted
<1> QED
  BY <1>1, <1>4

LEMMA AccountedGranted ==
    ASSUME NEW b \in Bucket, NEW p \in Nat, NEW q \in Nat, NEW r \in Nat,
           Accounted(b, p, q, r), b.window_start # 0, b.count < q
    PROVE  Accounted([b EXCEPT !.count = @ + 1], p + 1, q, r)
<1>1. PICK c : c = [b EXCEPT !.count = @ + 1]
  OBVIOUS
<1>2. b.count \in Nat /\ c.count = b.count + 1 /\ c.window_start = b.window_start
  BY <1>1 DEF Bucket
<1>3. PICK w \in Nat \ {0} : w * Window <= b.window_start /\ p <= q * (r + (w - 1)) + b.count
  BY DEF Accounted
<1>4. p + 1 <= q * (r + (w - 1)) + c.count
  BY <1>2, <1>3
<1>5. Accounted(c, p + 1, q, r)
  BY <1>2, <1>3, <1>4 DEF Accounted
<1> QED
  BY <1>1, <1>5

(* The invariant of the limiter's side.                                    *)
TokensSound ==
    /\ resets \in [limiter : Nat, budget : Nat]
    /\ Window <= now
    /\ \A t \in Threads : stage[t] = "rate" => Window <= at[t] /\ at[t] <= now
    /\ \A k \in Keys :
           /\ buckets[k].window_start <= now
           /\ Accounted(buckets[k], Taken(k), limit_for[k[2]], (now \div Window) * resets.limiter)

LEMMA Resets ==
    ASSUME PipelineSound, TokensSound, NEW k \in Keys
    PROVE  /\ resets.limiter \in Nat /\ (now \div Window) * resets.limiter \in Nat
           /\ now \in Nat /\ now \div Window \in Nat
           /\ buckets[k] \in Bucket /\ limit_for[k[2]] \in Nat /\ Taken(k) \in Nat
<1>1. now \in Nat /\ now \div Window \in Nat
  BY WholeWindows DEF PipelineSound
<1>2. resets.limiter \in Nat
  BY DEF TokensSound
<1>3. (now \div Window) * resets.limiter \in Nat
  BY <1>1, <1>2
<1>4. buckets[k] \in Bucket /\ limit_for[k[2]] \in Nat
  BY LimiterAssumption DEF PipelineSound, BucketsSound, Keys
<1>5. Taken(k) \in Nat
  BY SoundIsCounted, TotalsTyped
<1> QED
  BY <1>1, <1>2, <1>3, <1>4, <1>5

(* A step that takes no token.                                             *)
LEMMA NothingTaken ==
    ASSUME Counted, Counted', NEW k, NEW t \in Threads, NEW q \in Requests,
           req' = [req EXCEPT ![t] = q],
           \/ /\ stage[t] \notin {"budget", "dry_run"}
              /\ \/ Continue(t, "rate")
                 \/ \E b \in Answers \ AfterRate : Answer(t, b)
           \/ /\ stage[t] \in {"budget", "dry_run"} /\ q = req[t]
              /\ \/ Continue(t, "dry_run")
                 \/ \E b \in AfterRate : Answer(t, b)
    PROVE  Taken(k)' = Taken(k)
<1>1. PICK c \in Nat, u \in Nat, v \in Nat :
          c = Taken(k) /\ u = Tokens(k)[q] /\ v = Tokens(k)[req[t]]
  BY TotalsTyped, WeightsTyped DEF Counted
<1>2. ASSUME NEW s, Continue(t, s), \/ s = "rate" /\ stage[t] \notin {"budget", "dry_run"}
                                   \/ /\ s = "dry_run" /\ q = req[t]
                                      /\ stage[t] \in {"budget", "dry_run"}
      PROVE  Taken(k)' = Taken(k)
  <2>1. Taken(k)' = Taken(k) + (IF s \in {"budget", "dry_run"} THEN Tokens(k)[q] ELSE 0)
                             - (IF stage[t] \in {"budget", "dry_run"} THEN Tokens(k)[req[t]] ELSE 0)
    BY <1>2, TakenContinues
  <2> QED
    BY <1>1, <1>2, <2>1
<1>3. ASSUME NEW b \in Answers, Answer(t, b),
             \/ b \notin AfterRate /\ stage[t] \notin {"budget", "dry_run"}
             \/ b \in AfterRate /\ q = req[t] /\ stage[t] \in {"budget", "dry_run"}
      PROVE  Taken(k)' = Taken(k)
  <2>1. Taken(k)' = Taken(k) + (IF b \in AfterRate THEN Tokens(k)[q] ELSE 0)
                             - (IF stage[t] \in {"budget", "dry_run"} THEN Tokens(k)[req[t]] ELSE 0)
    BY <1>3, TakenAnswers
  <2> QED
    BY <1>1, <1>3, <2>1
<1> QED
  BY <1>2, <1>3, AnswersTyped

(* Where buckets, clock and resets are as they were, and no token is taken,*)
(* nothing changes.                                                        *)
LEMMA TokensKept ==
    ASSUME TokensSound, UNCHANGED <<buckets, now, resets>>,
           \A k \in Keys : Taken(k)' = Taken(k),
           \A t \in Threads : stage'[t] = "rate" => Window <= at'[t] /\ at'[t] <= now
    PROVE  TokensSound'
BY DEF TokensSound

LEMMA SubmitTakes ==
    ASSUME PipelineSound, Counted, Counted', TokensSound, NEW t \in Threads, NEW r \in Requests, Submit(t, r)
    PROVE  TokensSound'
<1>1. /\ UNCHANGED <<buckets, now, resets>> /\ stage[t] = "idle"
      /\ req' = [req EXCEPT ![t] = r]
      /\ \/ Continue(t, "rate") /\ at' = [at EXCEPT ![t] = now]
         \/ Precheck(r) # "ok" /\ Answer(t, Precheck(r)) /\ UNCHANGED at
  BY DEF Submit
<1>2. Precheck(r) # "ok" => Precheck(r) \in Answers \ AfterRate
  BY PrecheckAnswers
<1>3. \A k \in Keys : Taken(k)' = Taken(k)
  BY <1>1, <1>2, NothingTaken
<1>4. ASSUME NEW u \in Threads, stage'[u] = "rate" PROVE Window <= at'[u] /\ at'[u] <= now
  <2>1. now \in Nat /\ at \in [Threads -> Nat]
    BY DEF PipelineSound
  <2>2. CASE u = t
    <3>1. at'[t] = now
      BY <1>1, <1>4, <2>1, <2>2 DEF Answer, Counted
    <3> QED
      BY <2>1, <2>2, <3>1 DEF TokensSound
  <2>3. CASE u # t
    <3>1. stage'[u] = stage[u] /\ at'[u] = at[u]
      BY <1>1, <2>1, <2>3 DEF Answer, Continue, Counted
    <3> QED
      BY <1>4, <3>1 DEF TokensSound
  <2> QED
    BY <2>2, <2>3
<1> QED
  BY <1>1, <1>3, <1>4, TokensKept

(* A step of a thread that leaves the limiter alone.                       *)
LEMMA StageTakes ==
    ASSUME Counted, Counted', TokensSound, NEW t \in Threads, UNCHANGED <<buckets, now, resets, req, at>>,
           stage[t] \in {"budget", "dry_run"},
           Continue(t, "dry_run") \/ \E b \in AfterRate : Answer(t, b)
    PROVE  TokensSound'
<1>1. req[t] \in Requests /\ req' = [req EXCEPT ![t] = req[t]]
  BY RequestKept
<1>2. \A k \in Keys : Taken(k)' = Taken(k)
  BY <1>1, NothingTaken
<1>3. \A u \in Threads : stage'[u] = "rate" => stage[u] = "rate"
  BY DEF Continue, Answer, Counted
<1> QED
  BY <1>2, <1>3, TokensKept DEF TokensSound

LEMMA BudgetStageTakes ==
    ASSUME Counted, Counted', TokensSound, NEW t \in Threads, BudgetStage(t) PROVE TokensSound'
<1>1. /\ UNCHANGED <<buckets, now, resets, req, at>> /\ stage[t] = "budget"
      /\ Continue(t, "dry_run") \/ Answer(t, "budget_exhausted") \/ Answer(t, "validated")
  BY DEF BudgetStage
<1>2. "budget_exhausted" \in AfterRate /\ "validated" \in AfterRate
  BY DEF AfterRate, AfterBudget, Accepted
<1> QED
  BY <1>1, <1>2, StageTakes

LEMMA DryRunStageTakes ==
    ASSUME Counted, Counted', TokensSound, NEW t \in Threads, DryRunStage(t) PROVE TokensSound'
<1>1. /\ UNCHANGED <<buckets, now, resets, req, at>> /\ stage[t] = "dry_run"
      /\ \E b \in AfterRate : Answer(t, b)
  BY DEF DryRunStage, AfterRate, AfterBudget, Accepted
<1> QED
  BY <1>1, StageTakes

(* The bucket a request is checked against, after the expiry check.        *)
LEMMA CurrentAccounted ==
    ASSUME PipelineSound, TokensSound, NEW k \in Keys, NEW t \in Nat, Window <= t, t <= now
    PROVE  /\ Current(k, t) \in Bucket /\ Current(k, t).window_start <= now
           /\ Current(k, t).window_start # 0
           /\ Accounted(Current(k, t), Taken(k), limit_for[k[2]], (now \div Window) * resets.limiter)
<1>1. PICK b \in Bucket : b = buckets[k]
  BY Resets
<1>2. PICK p \in Nat, q \in Nat, r \in Nat :
          p = Taken(k) /\ q = limit_for[k[2]] /\ r = (now \div Window) * resets.limiter
  BY Resets
<1>3. Accounted(b, p, q, r) /\ b.window_start <= now /\ b.window_start \in Nat
  BY <1>1, <1>2 DEF TokensSound, Bucket
<1>4. CASE t >= b.window_start + Window
  <2>1. PICK c : c = [count |-> 0, window_start |-> t]
    OBVIOUS
  <2>2. Accounted(c, p, q, r)
    BY <1>3, <1>4, <2>1, LimiterAssumption, AccountedExpired
  <2>3. c = Current(k, t)
    BY <1>1, <1>4, <2>1 DEF Current
  <2>4. c \in Bucket /\ c.window_start = t /\ t # 0
    BY <2>1, LimiterAssumption DEF Bucket
  <2> QED
    BY <1>2, <2>2, <2>3, <2>4
<1>5. CASE ~(t >= b.window_start + Window)
  <2>1. b = Current(k, t)
    BY <1>1, <1>5 DEF Current
  <2>2. b.window_start # 0
    BY <1>5, LimiterAssumption
  <2> QED
    BY <1>1, <1>2, <1>3, <2>1, <2>2
<1> QED
  BY <1>4, <1>5

LEMMA RateStageTakes ==
    ASSUME PipelineSound, Counted, Counted', TokensSound, NEW t \in Threads, RateStage(t)
    PROVE  TokensSound'
<1>1. PICK q \in Requests : q = req[t] /\ req' = [req EXCEPT ![t] = q]
  BY RequestKept DEF RateStage
<1>2. PICK c \in Nat : c = at[t] /\ Window <= c /\ c <= now
  BY DEF RateStage, PipelineSound, TokensSound
<1>3. PICK h \in Keys : h = Key(q) /\ Precheck(q) = "ok"
  <2>1. Precheck(q) = "ok"
    BY <1>1 DEF RateStage, PipelineSound
  <2> QED
    BY <2>1, BucketsTyped
<1>4. PICK b \in Bucket : b = Current(h, c)
  BY <1>2, CurrentAccounted
<1>5. PICK p \in Nat, l \in Nat, r \in Nat :
          p = Taken(h) /\ l = limit_for[h[2]] /\ r = (now \div Window) * resets.limiter
  BY Resets
<1>6. b.window_start <= now /\ b.window_start # 0 /\ Accounted(b, p, l, r)
  BY <1>2, <1>4, <1>5, CurrentAccounted
<1>7. /\ UNCHANGED <<req, now, resets>> /\ stage[t] = "rate"
      /\ at' = [at EXCEPT ![t] = 0]
      /\ IF b.count < l THEN Continue(t, "budget") ELSE Answer(t, "rate_limit_exceeded")
  BY <1>1, <1>2, <1>3, <1>4, <1>5 DEF RateStage, Admits
<1>8. PICK d : d = [b EXCEPT !.count = @ + 1]
  OBVIOUS
<1>9. buckets' = [buckets EXCEPT ![h] = IF b.count < l THEN d ELSE b]
  BY <1>1, <1>2, <1>3, <1>4, <1>5, <1>8 DEF RateStage, check_and_record, Admits
<1>10. \A k \in Keys : Tokens(k)[q] = IF k = h THEN 1 ELSE 0
  BY <1>3 DEF Tokens
<1>11. ASSUME NEW k \in Keys
       PROVE  Taken(k)' = Taken(k) + (IF k = h /\ b.count < l THEN 1 ELSE 0)
  <2>1. PICK v \in Nat : v = Taken(k)
    BY TotalsTyped
  <2>2. CASE b.count < l
    <3>1. PICK s : s = "budget" /\ Continue(t, s)
      BY <1>7, <2>2
    <3>2. Taken(k)' = Taken(k) + (IF s \in {"budget", "dry_run"} THEN Tokens(k)[q] ELSE 0)
                               - (IF stage[t] \in {"budget", "dry_run"} THEN Tokens(k)[req[t]] ELSE 0)
      BY <1>1, <3>1, TakenContinues
    <3>3. Taken(k)' = v + Tokens(k)[q] - 0
      BY <1>7, <2>1, <3>1, <3>2
    <3> QED
      BY <1>10, <2>1, <2>2, <3>3
  <2>3. CASE ~(b.count < l)
    <3>1. "rate_limit_exceeded" \in Answers \ AfterRate
      BY DEF Answers, AfterRate, AfterBudget, Accepted
    <3>2. Taken(k)' = Taken(k)
      BY <1>1, <1>7, <2>3, <3>1, NothingTaken
    <3> QED
      BY <2>1, <2>3, <3>2
  <2> QED
    BY <2>2, <2>3
<1>12. ASSUME NEW k \in Keys
       PROVE  /\ buckets'[k].window_start <= now
              /\ Accounted(buckets'[k], Taken(k)', limit_for[k[2]], r)
  <2>1. buckets \in [Keys -> Bucket]
    BY DEF PipelineSound, BucketsSound
  <2>2. CASE k # h
    <3>1. buckets'[k] = buckets[k] /\ Taken(k)' = Taken(k) + 0 /\ Taken(k) \in Nat
      BY <1>9, <1>11, <2>1, <2>2, TotalsTyped
    <3> QED
      BY <1>5, <3>1 DEF TokensSound
  <2>3. CASE k = h /\ b.count < l
    <3>1. Accounted(d, p + 1, l, r)
      BY <1>6, <1>8, <2>3, AccountedGranted
    <3>2. buckets'[k] = d /\ Taken(k)' = p + 1 /\ d.window_start = b.window_start
      BY <1>5, <1>8, <1>9, <1>11, <2>1, <2>3 DEF Bucket
    <3> QED
      BY <1>5, <1>6, <2>3, <3>1, <3>2
  <2>4. CASE k = h /\ ~(b.count < l)
    <3>1. buckets'[k] = b /\ Taken(k)' = p
      BY <1>5, <1>9, <1>11, <2>1, <2>4
    <3> QED
      BY <1>5, <1>6, <2>4, <3>1
  <2> QED
    BY <2>2, <2>3, <2>4
<1>13. ASSUME NEW u \in Threads, stage'[u] = "rate"
       PROVE  Window <= at'[u] /\ at'[u] <= now
  <2>1. u # t /\ stage'[u] = stage[u]
    BY <1>7, <1>13 DEF Continue, Answer, Counted
  <2>2. at'[u] = at[u]
    BY <1>7, <2>1 DEF PipelineSound
  <2> QED
    BY <1>13, <2>1, <2>2 DEF TokensSound
<1> QED
  BY <1>5, <1>7, <1>12, <1>13 DEF TokensSound

LEMMA ResetLimiterTakes ==
    ASSUME PipelineSound, TokensSound, NEW o, ResetLimiter(o) PROVE TokensSound'
<1>1. PICK n \in Nat, e \in Nat, r \in Nat :
          n = now \div Window /\ e = resets.limiter /\ r = n * e /\ now \in Nat
  BY WholeWindows DEF PipelineSound, TokensSound
<1>2. /\ UNCHANGED <<now, stage, req, at, tally>>
      /\ resets' \in [limiter : Nat, budget : Nat] /\ resets'.limiter = e + 1
      /\ buckets' = [k \in Keys |-> IF k[1] = o THEN NewBucket ELSE buckets[k]]
  BY <1>1 DEF ResetLimiter, TokensSound, reset
<1>3. n * (e + 1) = r + n
  BY <1>1
<1>4. ASSUME NEW k \in Keys
      PROVE  buckets'[k].window_start <= now /\ Accounted(buckets'[k], Taken(k)', limit_for[k[2]], r + n)
  <2>1. PICK p \in Nat, q \in Nat, b \in Bucket : p = Taken(k) /\ q = limit_for[k[2]] /\ b = buckets[k]
    BY Resets
  <2>2. Taken(k)' = p
    BY <1>2, <2>1, TotalsSame
  <2>3. Accounted(b, p, q, r) /\ b.window_start <= now
    BY <1>1, <2>1 DEF TokensSound
  <2>4. CASE k[1] = o
    <3>1. Accounted(NewBucket, p, q, r + n)
      BY <1>1, <2>3, AccountedReset
    <3>2. buckets'[k] = NewBucket /\ NewBucket.window_start = 0
      BY <1>2, <2>4 DEF NewBucket
    <3> QED
      BY <1>1, <2>1, <2>2, <3>1, <3>2
  <2>5. CASE k[1] # o
    <3>1. Accounted(b, p, q, r + n)
      <4>1. r + n \in Nat /\ r <= r + n
        OBVIOUS
      <4> QED
        BY <2>3, <4>1, AccountedMore
    <3>2. buckets'[k] = b
      BY <1>2, <2>1, <2>5
    <3> QED
      BY <2>1, <2>2, <2>3, <3>1, <3>2
  <2> QED
    BY <2>4, <2>5
<1> QED
  BY <1>1, <1>2, <1>3, <1>4 DEF TokensSound

LEMMA TimePassesTakes ==
    ASSUME PipelineSound, TokensSound, TimePasses PROVE TokensSound'
<1>1. PICK m \in Nat, n \in Nat, d \in Nat, e \in Nat :
          /\ m = now /\ n = m \div Window /\ d = (m + 1) \div Window /\ e = resets.limiter
          /\ n <= d
  <2>1. now \in Nat /\ now + 1 \in Nat
    BY DEF PipelineSound
  <2>2. now \div Window \in Nat /\ (now + 1) \div Window \in Nat /\ now \div Window <= (now + 1) \div Window
    BY <2>1, WholeWindows, WindowsGrow
  <2> QED
    BY <2>1, <2>2 DEF TokensSound
<1>2. /\ UNCHANGED <<buckets, stage, req, at, tally, resets>> /\ now' = m + 1
  BY <1>1 DEF TimePasses
<1>3. n * e \in Nat /\ d * e \in Nat /\ n * e <= d * e
  BY <1>1
<1>4. ASSUME NEW k \in Keys
      PROVE  buckets[k].window_start <= m + 1 /\ Accounted(buckets[k], Taken(k)', limit_for[k[2]], d * e)
  <2>1. PICK p \in Nat, q \in Nat, b \in Bucket : p = Taken(k) /\ q = limit_for[k[2]] /\ b = buckets[k]
    BY Resets
  <2>2. Taken(k)' = p
    BY <1>2, <2>1, TotalsSame
  <2>3. Accounted(b, p, q, n * e) /\ b.window_start <= m
    BY <1>1, <2>1 DEF TokensSound
  <2>4. Accounted(b, p, q, d * e)
    BY <1>3, <2>3, AccountedMore
  <2>5. b.window_start \in Nat
    BY DEF Bucket
  <2> QED
    BY <2>1, <2>2, <2>3, <2>4, <2>5
<1>5. ASSUME NEW t \in Threads, stage[t] = "rate" PROVE Window <= at[t] /\ at[t] <= m + 1
  <2>1. at[t] \in Nat /\ Window <= at[t] /\ at[t] <= m
    BY <1>1, <1>5 DEF PipelineSound, TokensSound
  <2> QED
    BY <2>1
<1>6. Window <= m + 1
  BY <1>1, LimiterAssumption DEF TokensSound
<1> QED
  BY <1>1, <1>2, <1>4, <1>5, <1>6 DEF TokensSound

LEMMA TokensSteps ==
    PipelineSound /\ PipelineSound' /\ TokensSound /\ [PipelineNext]_pipeline_vars => TokensSound'
<1> SUFFICES ASSUME PipelineSound, PipelineSound', TokensSound, [PipelineNext]_pipeline_vars
             PROVE  TokensSound'
  OBVIOUS
<1>1. Counted /\ Counted'
  BY SoundIsCounted DEF PipelineSound, AnswersSound, Counted
<1>2. ASSUME NEW t \in Threads, NEW r \in Requests, Submit(t, r) PROVE TokensSound'
  BY <1>1, <1>2, SubmitTakes
<1>3. ASSUME NEW t \in Threads, RateStage(t) PROVE TokensSound'
  BY <1>1, <1>3, RateStageTakes
<1>4. ASSUME NEW t \in Threads, BudgetStage(t) PROVE TokensSound'
  BY <1>1, <1>4, BudgetStageTakes
<1>5. ASSUME NEW t \in Threads, DryRunStage(t) PROVE TokensSound'
  BY <1>1, <1>5, DryRunStageTakes
<1>6. ASSUME NEW o \in Operators, ResetLimiter(o) PROVE TokensSound'
  BY <1>6, ResetLimiterTakes
<1>7. ASSUME NEW o \in BudgetOperators, ResetBudget(o) PROVE TokensSound'
  <2>1. /\ UNCHANGED <<buckets, now, stage, req, at, tally>>
        /\ resets' = [resets EXCEPT !.budget = @ + 1]
    BY <1>7 DEF ResetBudget
  <2>2. resets' \in [limiter : Nat, budget : Nat] /\ resets'.limiter = resets.limiter
    BY <2>1 DEF TokensSound
  <2>3. \A k : Taken(k)' = Taken(k)
    BY <2>1, TotalsSame
  <2> QED
    BY <2>1, <2>2, <2>3 DEF TokensSound
<1>8. CASE TimePasses
  BY <1>8, TimePassesTakes
<1>9. CASE UNCHANGED pipeline_vars
  <2>1. UNCHANGED <<buckets, now, stage, req, at, tally, resets>>
    BY <1>9 DEF pipeline_vars
  <2>2. \A k : Taken(k)' = Taken(k)
    BY <2>1, TotalsSame
  <2> QED
    BY <2>1, <2>2 DEF TokensSound
<1> QED
  BY <1>2, <1>3, <1>4, <1>5, <1>6, <1>7, <1>8, <1>9 DEF PipelineNext

LEMMA TokensStart == PipelineInit => TokensSound
<1> SUFFICES ASSUME PipelineInit PROVE TokensSound
  OBVIOUS
<1>1. ASSUME NEW k PROVE Taken(k) = 0
  <2>1. PICK S : S = {"budget", "dry_run"}
    OBVIOUS
  <2>2. PICK A \in SUBSET Answers : A = AfterRate /\ IsFiniteSet(A)
    BY AnswersTyped
  <2>3. PICK W \in [Requests -> Nat] : W = Tokens(k)
    BY WeightsTyped
  <2>4. Total(W, A, S) = 0
    <3>1. "idle" \notin S
      BY <2>1
    <3> QED
      BY <2>2, <3>1, TotalStarts
  <2> QED
    BY <2>1, <2>2, <2>3, <2>4 DEF Taken
<1>2. now = Window /\ Window \in Nat /\ resets = [limiter |-> 0, budget |-> 0]
  BY LimiterAssumption DEF PipelineInit
<1>3. now \div Window \in Nat
  BY <1>2, WholeWindows
<1>4. (now \div Window) * resets.limiter = 0
  BY <1>2, <1>3
<1>5. ASSUME NEW k \in Keys
      PROVE  buckets[k].window_start <= now /\ Accounted(buckets[k], Taken(k), limit_for[k[2]], 0)
  <2>1. buckets[k] = NewBucket /\ NewBucket.count = 0 /\ NewBucket.window_start = 0
    BY DEF PipelineInit, LimiterInit, NewBucket
  <2>2. limit_for[k[2]] \in Nat
    BY LimiterAssumption DEF Keys
  <2> QED
    BY <1>1, <1>2, <2>1, <2>2 DEF Accounted
<1> QED
  BY <1>2, <1>4, <1>5 DEF TokensSound, PipelineInit

LEMMA CountersStaySound == PipelineSpec => [](PipelineSound /\ LedgerSound /\ TokensSound)
<1>1. PipelineInit => PipelineSound /\ LedgerSound /\ TokensSound
  BY PipelineStarts, ChargesStart, TokensStart
<1>2. /\ PipelineSound /\ LedgerSound /\ TokensSound
      /\ [PipelineNext]_pipeline_vars
      => (PipelineSound /\ LedgerSound /\ TokensSound)'
  BY PipelineSteps, LedgerSteps, TokensSteps
<1> QED
  BY <1>1, <1>2, PTL DEF PipelineSpec

-----------------------------------------------------------------------------
(* The theorems *)

(* RateLimiterThreads.LimiterInv: the count of a bucket is exactly what    *)
(* was granted in its open window, and never above the limit.              *)
THEOREM CountsStayExact == Spec => []LimiterInv
<1>1. LimiterSound => LimiterInv
  <2> SUFFICES ASSUME LimiterSound PROVE LimiterInv
    OBVIOUS
  <2>1. ASSUME NEW k \in Keys
        PROVE  /\ buckets[k].count = Cardinality(InOpenWindow(k))
               /\ buckets[k].count <= limit_for[k[2]]
               /\ buckets[k].window_start <= now
    <3>1. BucketSound(buckets[k], grants[k], epoch[k[1]], now, limit_for[k[2]])
      BY DEF LimiterSound
    <3>2. /\ buckets[k].count = Cardinality(GrantedIn(grants[k], epoch[k[1]], buckets[k].window_start))
          /\ buckets[k].window_start \in Nat
      BY <3>1 DEF BucketSound, Bucket
    <3> QED
      BY <3>1, <3>2, OpenWindowGrants DEF BucketSound
  <2>2. TypeOK
    BY <2>1 DEF TypeOK, LimiterSound
  <2> QED
    BY <2>1, <2>2 DEF LimiterInv, CountIsExact
<1> QED
  BY <1>1, LimiterStaysSound, PTL

(* RateLimiterThreads.BurstBounded: whatever stretch of one window         *)
(* duration is looked at, the grants in it stay below a fixed number of    *)
(* quotas.                                                                 *)
THEOREM BurstsStayBounded == Spec => []BurstBounded
BY LimiterStaysSound, BurstsBounded, PTL

(* RateLimiterThreads.WindowsDisjoint: no clock reading, however old,      *)
(* opens a window before the last one is over.                             *)
THEOREM WindowsStayDisjoint == Spec => WindowsDisjoint
<1>1. LimiterSound /\ [Next]_vars =>
          [\A k \in Keys : \/ buckets'[k].window_start = buckets[k].window_start
                           \/ buckets'[k].window_start >= buckets[k].window_start + Window
                           \/ epoch'[k[1]] # epoch[k[1]]]_vars
  <2> SUFFICES ASSUME LimiterSound, Next, NEW k \in Keys
               PROVE  \/ buckets'[k].window_start = buckets[k].window_start
                      \/ buckets'[k].window_start >= buckets[k].window_start + Window
                      \/ epoch'[k[1]] # epoch[k[1]]
    OBVIOUS
  <2>1. buckets \in [Keys -> Bucket] /\ epoch \in [Operators -> Nat] /\ k[1] \in Operators
    BY DEF LimiterSound, Keys
  <2>2. CASE UNCHANGED buckets
    BY <2>2
  <2>3. ASSUME NEW t \in Threads, CheckAndRecord(t)
        PROVE  \/ buckets'[k].window_start = buckets[k].window_start
               \/ buckets'[k].window_start >= buckets[k].window_start + Window
    <3>1. PICK h \in Keys, r \in Nat : h = reading[t].key /\ r = reading[t].at
      BY <2>3 DEF CheckAndRecord, LimiterSound
    <3>2. PICK b : b = Current(h, r)
      OBVIOUS
    <3>3. b \in Bucket /\ (b = buckets[h] \/ b.window_start >= buckets[h].window_start + Window)
      BY <2>1, <3>1, <3>2 DEF Current, Bucket
    <3>4. PICK c : c = [b EXCEPT !.count = @ + 1]
      OBVIOUS
    <3>5. c.window_start = b.window_start
      BY <3>3, <3>4 DEF Bucket
    <3>6. \/ buckets' = [buckets EXCEPT ![h] = c]
          \/ buckets' = [buckets EXCEPT ![h] = b]
      BY <2>3, <3>1, <3>2, <3>4 DEF CheckAndRecord, check_and_record
    <3> QED
      BY <2>1, <3>1, <3>3, <3>5, <3>6
  <2>4. ASSUME NEW o \in Operators, Reset(o)
        PROVE  buckets'[k] = buckets[k] \/ epoch'[k[1]] # epoch[k[1]]
    BY <2>1, <2>4 DEF Reset, reset
  <2> QED
    BY <2>2, <2>3, <2>4 DEF Next, ReadClock, Tick
<1> QED
  BY <1>1, LimiterStaysSound, PTL DEF Spec, WindowsDisjoint

(* RateLimiterThreads.RejectionJustified: who is rejected finds a full     *)
(* quota granted within the window duration before its clock reading.      *)
THEOREM RejectionsAreJustified == Spec => RejectionJustified
<1> DEFINE Full(t) ==
        LET k == reading[t].key
        IN  Cardinality(GrantsIn(k, LAMBDA g : g.when + Window > reading[t].at)) >= limit_for[k[2]]
<1>1. ASSUME LimiterSound, NEW t \in Threads, reading[t] # None, reading'[t] = None, grants' = grants,
             Next
      PROVE  Full(t)
  <2>1. CheckAndRecord(t)
    BY <1>1 DEF Next, ReadClock, CheckAndRecord, Reset, Tick, LimiterSound, None
  <2>2. PICK k \in Keys, r \in Nat : k = reading[t].key /\ r = reading[t].at
    BY <1>1 DEF LimiterSound
  <2>3. PICK gs : gs = grants[k]
    OBVIOUS
  <2>4. PICK e : e = epoch[k[1]]
    OBVIOUS
  <2>5. BucketSound(buckets[k], gs, e, now, limit_for[k[2]])
    BY <1>1, <2>3, <2>4 DEF LimiterSound
  <2>6. PICK S : S = {i \in DOMAIN gs : gs[i].when + Window > r}
    OBVIOUS
  <2>7. IsFiniteSet(S) /\ Cardinality(S) \in Nat
    BY <2>5, <2>6, GrantsFinite DEF BucketSound
  <2>8. ~Admits(k, r)
    <3> SUFFICES ASSUME Admits(k, r) PROVE FALSE
      OBVIOUS
    <3>1. PICK g : grants' = [grants EXCEPT ![k] = Append(@, g)]
      BY <2>1, <2>2 DEF CheckAndRecord
    <3> QED
      BY <1>1, <2>2, <2>3, <2>5, <3>1 DEF LimiterSound, BucketSound
  <2>9. Cardinality(S) >= limit_for[k[2]]
    <3>1. CASE r >= buckets[k].window_start + Window
      <4>1. Current(k, r).count = 0
        BY <3>1 DEF Current
      <4> QED
        BY <2>5, <2>7, <2>8, <4>1 DEF Admits, BucketSound
    <3>2. CASE ~(r >= buckets[k].window_start + Window)
      <4>1. buckets[k].count >= limit_for[k[2]] /\ buckets[k].window_start \in Nat
        BY <2>5, <2>8, <3>2 DEF Admits, Current, BucketSound, Bucket
      <4>2. GrantedIn(gs, e, buckets[k].window_start) \subseteq S
        <5> SUFFICES ASSUME NEW i \in DOMAIN gs, gs[i].window = buckets[k].window_start
                     PROVE  gs[i].when + Window > r
          BY <2>6 DEF GrantedIn
        <5>1. gs[i].when \in Nat /\ gs[i].window <= gs[i].when
          BY <2>5, GrantTyped DEF BucketSound
        <5> QED
          BY <3>2, <4>1, <5>1, LimiterAssumption
      <4>3. Cardinality(GrantedIn(gs, e, buckets[k].window_start)) <= Cardinality(S)
        BY <2>7, <4>2, FS_Subset
      <4>4. buckets[k].count = Cardinality(GrantedIn(gs, e, buckets[k].window_start))
        BY <2>5 DEF BucketSound
      <4>5. buckets[k].count \in Nat /\ limit_for[k[2]] \in Nat
        BY <2>5 DEF BucketSound, Bucket
      <4> QED
        BY <2>7, <4>1, <4>3, <4>4, <4>5
    <3> QED
      BY <3>1, <3>2
  <2> QED
    BY <2>2, <2>3, <2>6, <2>9 DEF GrantsIn
<1>2. LimiterSound /\ [Next]_vars =>
          [\A t \in Threads :
               reading[t] # None /\ reading'[t] = None /\ grants' = grants => Full(t)]_vars
  BY <1>1
<1> QED
  BY <1>2, LimiterStaysSound, PTL DEF Spec, RejectionJustified

(* BudgetController.RefusesExactlyExcess: under any interleaving, the      *)
(* check refuses exactly what would take the ledger above the ceiling, for *)
(* every ceiling and every size of the unsigned integer, and the ledger    *)
(* never is above it.                                                      *)
THEOREM OnlyExcessIsRefused == PipelineSpec => [](LedgerOK /\ RefusesExactlyExcess)
<1>1. PipelineSound => LedgerOK
  BY DEF PipelineSound
<1>2. LedgerOK => RefusesExactlyExcess
  BY ExhaustedIsExcess DEF RefusesExactlyExcess
<1> QED
  BY <1>1, <1>2, PipelineStaysSound, PTL

(* The limiter run by the pipeline: no bucket counts more requests than    *)
(* its class may make in a window.                                         *)
THEOREM QuotasHold == PipelineSpec => []QuotasOK
<1>1. PipelineSound => QuotasOK
  BY DEF PipelineSound, BucketsSound
<1> QED
  BY <1>1, PipelineStaysSound, PTL

(* ValidationPipeline.ValidatedMeansChecked: the defences compose, for any *)
(* registry, requests, number of threads, and resets at any moment.        *)
THEOREM ValidatedIsChecked == PipelineSpec => []ValidatedMeansChecked
<1>1. ASSUME PipelineSound, NEW r \in Requests
      PROVE  /\ Got(r, Accepted) => Precheck(r) = "ok"
             /\ Got(r, {"validated"}) => registry[r.action].dry_run # "mandatory"
             /\ Got(r, {"validated_after_dry_run"}) => dry_run_
  <2>1. \A a \in Answers : tally[r][a] > 0 => Means(r, a)
    BY <1>1 DEF PipelineSound, AnswersSound
  <2>2. /\ "validated" \in Answers /\ "validated_after_dry_run" \in Answers
        /\ Accepted \subseteq Answers /\ Accepted \subseteq AfterRate
    BY DEF Answers, Accepted, AfterRate, AfterBudget
  <2> QED
    BY <2>1, <2>2 DEF Got, Means
<1>2. PipelineSound => ValidatedMeansChecked
  <2> SUFFICES ASSUME PipelineSound, NEW r \in Requests, Got(r, Accepted)
               PROVE  /\ r.action \in DOMAIN registry \cap r.permitted
                      /\ registry[r.action].required_scopes \subseteq r.scopes
                      /\ Rank(Class(r)) <= Rank(r.max_class)
                      /\ r.estimated <= registry[r.action].limit
    BY <1>1 DEF ValidatedMeansChecked
  <2>1. Precheck(r) = "ok"
    BY <1>1
  <2> QED
    BY <2>1, PrecheckedIsAllowed
<1> QED
  BY <1>2, PipelineStaysSound, PTL

(* ValidationPipeline.LedgerInv: the counters are worth what they say, for *)
(* any number of threads, requests and resets.  The ledger holds exactly   *)
(* the units of the requests that passed the budget stage, no more tokens  *)
(* are taken than the windows between the resets have, and a request that  *)
(* was refused before a stage has cost nothing there.                      *)
THEOREM CountersAreExact == PipelineSpec => []LedgerInv
<1> SUFFICES ASSUME PipelineSound, LedgerSound, TokensSound PROVE LedgerInv
  BY CountersStaySound, PTL
<1>1. PipelineTypeOK
  BY DEF PipelineSound, BucketsSound, AnswersSound, PipelineTypeOK
<1>2. LedgerIsExact
  BY DEF LedgerSound, LedgerIsExact, Charged
<1>3. ASSUME NEW k \in Keys
      PROVE  /\ buckets[k].count <= Taken(k)
             /\ Taken(k) <= limit_for[k[2]] * ((now \div Window) * (resets.limiter + 1))
  <2>1. PICK b \in Bucket, p \in Nat, q \in Nat, m \in Nat, n \in Nat, e \in Nat :
            /\ b = buckets[k] /\ p = Taken(k) /\ q = limit_for[k[2]]
            /\ m = now /\ n = m \div Window /\ e = resets.limiter /\ n * e \in Nat
    BY Resets
  <2>2. Accounted(b, p, q, n * e) /\ b.window_start <= m
    BY <2>1 DEF TokensSound
  <2>3. p <= q * (n * e + n)
    BY <2>1, <2>2, AccountedFits
  <2>4. n * e + n = n * (e + 1)
    OBVIOUS
  <2>5. b.count <= p
    BY <2>2 DEF Accounted
  <2> QED
    BY <2>1, <2>3, <2>4, <2>5
<1>4. TokensAccounted
  BY <1>3 DEF TokensAccounted, Taken
<1> QED
  BY <1>1, <1>2, <1>4 DEF LedgerInv
=============================================================================
