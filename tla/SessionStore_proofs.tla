------------------------- MODULE SessionStore_proofs -------------------------
(***************************************************************************)
(* What the repository keeps promising for any number of handlers, ids,    *)
(* owners and calls, however the copies of one session overtake each       *)
(* other.  The argument is about copies: a session is in the store, in the *)
(* hands of handlers and with the sweeper at once, and every step leaves   *)
(* the copies it found, adds one that an operation of the aggregate made   *)
(* of one of them, or adds the first one of a new session.                 *)
(***************************************************************************)
EXTENDS SessionStore, SessionAggregate_proofs

(* All copies of the sessions that have id i.                              *)
Copies(i) ==
    {s \in {store[i]} : s # Nil}
    \cup {held[c].session : c \in {b \in Callers : held[b] # Nil /\ held[b].id = i}}
    \cup {w.session : w \in {v \in {swept} : v # Nil /\ v.id = i}}

NotEarly(s) == s.reason = "expired" => is_expired(s, s.updated_at)

(* Copies of one owner's session agree on when it began and how long it    *)
(* lives, whichever is older.                                              *)
CopiesAgree ==
    \A i \in Ids : \A s, t \in Copies(i) :
        s.owner = t.owner => s.created_at = t.created_at /\ s.ttl = t.ttl

(* Of everybody's copies: they are sound, none was expired early, and      *)
(* their owner's generator has issued their id.                            *)
CopiesSound ==
    \A i \in Ids : \A s \in Copies(i) :
        SoundSession(s) /\ NotEarly(s) /\ <<s.owner, i>> \in issued

(* Whatever the sweeper still has on its list is there and over: only the  *)
(* sweeper removes sessions, when it has taken them off its list, and      *)
(* nobody makes one live longer.                                           *)
DueIsOver ==
    /\ \A i \in due : store[i] # Nil /\ is_expired(store[i], now)
    /\ swept # Nil => swept.id \notin due

(* The inductive invariant.                                                *)
CopiesInv == TypeOK /\ CopiesSound /\ CopiesAgree /\ DueIsOver

-----------------------------------------------------------------------------
(* Operations *)

(* A call changes an open session only, and never into an expired one.     *)
LEMMA OutcomesTouch ==
    ASSUME NEW s \in IntentSession, SoundSession(s), now \in Nat, NEW t \in Outcomes(s)
    PROVE  Touched(s, t, now) /\ NotEarly(t) /\ s.state # "archive"
<1> DEFINE Open == /\ Touched(s, t, now) /\ s.state # "archive"
                   /\ t.reason \in {s.reason, "completed", "cancelled"}
<1>1. ASSUME \E q \in Texts : t \in request_clarification(s, q, now) PROVE Open
  <2>1. PICK q \in Texts : t \in request_clarification(s, q, now)
    BY <1>1
  <2>2. Touched(s, t, now)
    BY <2>1, RequestClarificationSound
  <2>3. s.state # "archive" /\ t.reason \in {s.reason, "completed", "cancelled"}
    BY <2>1 DEF request_clarification, Accepted, transition_to, IntentSession
  <2> QED
    BY <2>2, <2>3
<1>2. ASSUME \E a \in Texts \cup {Nil} : t \in accept_clarification(s, a, now) PROVE Open
  <2>1. PICK a \in Texts \cup {Nil} : t \in accept_clarification(s, a, now)
    BY <1>2
  <2>2. Touched(s, t, now)
    BY <2>1, AcceptClarificationSound
  <2>3. s.state # "archive" /\ t.reason \in {s.reason, "completed", "cancelled"}
    BY <2>1 DEF accept_clarification, Accepted, transition_to, IntentSession
  <2> QED
    BY <2>2, <2>3
<1>3. ASSUME \E n \in SlotNames, v \in Values : t \in fill_slot(s, n, v, now) PROVE Open
  <2>1. PICK n \in SlotNames, v \in Values : t \in fill_slot(s, n, v, now)
    BY <1>3
  <2>2. Touched(s, t, now)
    BY <2>1, FillSlotSound
  <2>3. s.state # "archive" /\ t.reason \in {s.reason, "completed", "cancelled"}
    BY <2>1 DEF fill_slot, IntentSession
  <2> QED
    BY <2>2, <2>3
<1>4. ASSUME t \in preview(s, Params(s.slots), now) PROVE Open
  <2>1. Touched(s, t, now)
    BY <1>4, PreviewSound
  <2>2. s.state # "archive" /\ t.reason \in {s.reason, "completed", "cancelled"}
    BY <1>4 DEF preview, Accepted, transition_to, IntentSession
  <2> QED
    BY <2>1, <2>2
<1>5. ASSUME t \in reject_preview(s, now) PROVE Open
  <2>1. Touched(s, t, now)
    BY <1>5, RejectPreviewSound
  <2>2. s.state # "archive" /\ t.reason \in {s.reason, "completed", "cancelled"}
    BY <1>5 DEF reject_preview, Accepted, transition_to, IntentSession
  <2> QED
    BY <2>1, <2>2
<1>6. ASSUME t \in confirm(s, now) PROVE Open
  <2>1. Touched(s, t, now)
    BY <1>6, ConfirmSound
  <2>2. s.state # "archive" /\ t.reason \in {s.reason, "completed", "cancelled"}
    BY <1>6 DEF confirm, Accepted, transition_to, IntentSession
  <2> QED
    BY <2>1, <2>2
<1>7. ASSUME \E r \in Texts : t \in complete(s, r, now) PROVE Open
  <2>1. PICK r \in Texts : t \in complete(s, r, now)
    BY <1>7
  <2>2. Touched(s, t, now)
    BY <2>1, CompleteSound
  <2>3. s.state # "archive" /\ t.reason \in {s.reason, "completed", "cancelled"}
    BY <2>1 DEF complete, Accepted, transition_to, IntentSession
  <2> QED
    BY <2>2, <2>3
<1>8. ASSUME \E n \in Texts : t \in cancel(s, n, now) PROVE Open
  <2>1. PICK n \in Texts : t \in cancel(s, n, now)
    BY <1>8
  <2>2. Touched(s, t, now)
    BY <2>1, CancelSound
  <2>3. s.state # "archive" /\ t.reason \in {s.reason, "completed", "cancelled"}
    BY <2>1 DEF cancel, Accepted, transition_to, is_terminal, IntentSession
  <2> QED
    BY <2>2, <2>3
<1> HIDE DEF Open
<1>9. Open
  BY <1>1, <1>2, <1>3, <1>4, <1>5, <1>6, <1>7, <1>8 DEF Outcomes
<1>10. s.reason = Nil /\ Nil # "expired"
  BY <1>9, NilAssumption DEF Open, SoundSession, ReasonMatchesState, IntentSession, ArchiveReason
<1> QED
  BY <1>9, <1>10 DEF Open, NotEarly

(* The sweeper expires an open session only when it is over.               *)
LEMMA ExpireTouches ==
    ASSUME NEW s \in IntentSession, SoundSession(s), now \in Nat, is_expired(s, now),
           NEW t \in expire(s, now)
    PROVE  Touched(s, t, now) /\ NotEarly(t) /\ s.state # "archive"
<1>1. Touched(s, t, now)
  BY ExpireSound
<1>2. s.state # "archive"
  BY DEF expire, Accepted, is_terminal
<1> QED
  BY <1>1, <1>2 DEF Touched, NotEarly, is_expired

-----------------------------------------------------------------------------
(* Copies *)

(* What a step can make of the copies that have id i.                      *)
Grown(i, t) ==
    \/ t \in Copies(i)
    \/ \E s \in Copies(i) : Touched(s, t, now) /\ NotEarly(t)

LEMMA CopiesTyped ==
    ASSUME TypeOK, NEW i \in Ids, NEW s \in Copies(i)
    PROVE  s \in IntentSession
BY DEF TypeOK, Copies, Copy

LEMMA HeldCopy ==
    ASSUME TypeOK, NEW c \in Callers, held[c] # Nil
    PROVE  /\ held[c] \in Copy /\ held[c].id \in Ids
           /\ held[c].session \in IntentSession /\ held[c].session \in Copies(held[c].id)
BY DEF TypeOK, Copies, Copy

LEMMA SweptCopy ==
    ASSUME TypeOK, swept # Nil
    PROVE  /\ swept.id \in Ids /\ swept.session \in IntentSession
           /\ swept.session \in Copies(swept.id)
BY DEF TypeOK, Copies

LEMMA StoredCopy ==
    ASSUME TypeOK, NEW i \in Ids, store[i] # Nil
    PROVE  store[i] \in IntentSession /\ store[i] \in Copies(i)
BY DEF TypeOK, Copies

-----------------------------------------------------------------------------
(* Steps *)

(* Copies that come from copies keep the invariant.                        *)
LEMMA GrownKeeps ==
    ASSUME CopiesInv, TypeOK', DueIsOver', UNCHANGED issued,
           \A i \in Ids : \A t \in Copies(i)' : Grown(i, t)
    PROVE  CopiesInv'
<1>1. ASSUME NEW i \in Ids, NEW t \in Copies(i)'
      PROVE  /\ SoundSession(t) /\ NotEarly(t)
             /\ \E s \in Copies(i) : s.owner = t.owner /\ s.created_at = t.created_at /\ s.ttl = t.ttl
  <2>1. CASE t \in Copies(i)
    BY <2>1 DEF CopiesInv, CopiesSound
  <2>2. CASE \E s \in Copies(i) : Touched(s, t, now) /\ NotEarly(t)
    BY <2>2 DEF Touched
  <2> QED
    BY <1>1, <2>1, <2>2 DEF Grown
<1>2. CopiesSound'
  <2> SUFFICES ASSUME NEW i \in Ids, NEW t \in Copies(i)'
               PROVE  SoundSession(t) /\ NotEarly(t) /\ <<t.owner, i>> \in issued'
    BY DEF CopiesSound
  <2> QED
    BY <1>1 DEF CopiesInv, CopiesSound
<1>3. CopiesAgree'
  <2> SUFFICES ASSUME NEW i \in Ids, NEW s \in Copies(i)', NEW t \in Copies(i)', s.owner = t.owner
               PROVE  s.created_at = t.created_at /\ s.ttl = t.ttl
    BY DEF CopiesAgree
  <2>1. PICK a \in Copies(i) : s.owner = a.owner /\ s.created_at = a.created_at /\ s.ttl = a.ttl
    BY <1>1
  <2>2. PICK b \in Copies(i) : t.owner = b.owner /\ t.created_at = b.created_at /\ t.ttl = b.ttl
    BY <1>1
  <2> QED
    BY <2>1, <2>2 DEF CopiesInv, CopiesAgree
<1> QED
  BY <1>2, <1>3 DEF CopiesInv

LEMMA BeginKeeps ==
    ASSUME CopiesInv, NEW c \in Callers, NEW i \in Ids, Begin(c, i)
    PROVE  CopiesInv'
<1> USE DEF CopiesInv
<1>0. PICK slots \in SlotLists : \E s \in create(OwnerOf[c], slots, now, Ttl) :
          held' = [held EXCEPT ![c] = [id |-> i, session |-> s, calls |-> 0]]
  BY DEF Begin
<1>1. PICK s \in create(OwnerOf[c], slots, now, Ttl) :
          held' = [held EXCEPT ![c] = [id |-> i, session |-> s, calls |-> 0]]
  BY <1>0
<1>2. /\ slots \in Seq(SlotDraft) /\ OwnerOf[c] \in Owners /\ Ttl \in Nat /\ now \in Nat
      /\ now \in 0..MaxTime /\ 0 \in 0..MaxCalls
  BY StoreAssumption DEF TypeOK
<1>3. /\ s \in IntentSession /\ SoundSession(s) /\ s.owner = OwnerOf[c]
      /\ s.ttl = Ttl /\ s.created_at = now
  BY <1>1, <1>2, CreateSound
<1>4. s.reason = Nil /\ NotEarly(s)
  BY <1>1, NilAssumption DEF create, Accepted, NotEarly, ArchiveReason
<1>5. /\ <<OwnerOf[c], i>> \notin issued /\ issued' = issued \cup {<<OwnerOf[c], i>>}
      /\ UNCHANGED <<store, due, swept, now>>
  BY DEF Begin
<1>6. [id |-> i, session |-> s, calls |-> 0] \in Copy
  BY <1>2, <1>3 DEF Copy
<1>7. TypeOK'
  BY <1>1, <1>2, <1>5, <1>6 DEF TypeOK
<1>8. \A j \in Ids : \A t \in Copies(j)' : t \in Copies(j) \/ (j = i /\ t = s)
  BY <1>1, <1>5 DEF Copies, TypeOK
<1>9. CopiesSound'
  BY <1>3, <1>4, <1>5, <1>8 DEF CopiesSound
<1>10. CopiesAgree'
  <2>1. \A a \in Copies(i) : a.owner # s.owner
    BY <1>3, <1>5 DEF CopiesSound
  <2> QED
    BY <1>8, <2>1 DEF CopiesAgree
<1>11. DueIsOver'
  BY <1>5 DEF DueIsOver
<1> QED
  BY <1>7, <1>9, <1>10, <1>11

LEMMA LoadKeeps ==
    ASSUME CopiesInv, NEW c \in Callers, NEW i \in Ids, Load(c, i)
    PROVE  CopiesInv'
<1> USE DEF CopiesInv
<1> DEFINE copy == [id |-> i, session |-> store[i], calls |-> 0]
<1>1. /\ held' = [held EXCEPT ![c] = copy] /\ store[i] # Nil
      /\ UNCHANGED <<store, issued, due, swept, now>>
  BY DEF Load
<1>2. store[i] \in IntentSession /\ store[i] \in Copies(i)
  BY <1>1, StoredCopy
<1>3. copy \in Copy
  BY <1>2, StoreAssumption DEF Copy
<1>4. TypeOK'
  BY <1>1, <1>3 DEF TypeOK
<1>5. \A j \in Ids : \A t \in Copies(j)' : Grown(j, t)
  BY <1>1, <1>2 DEF Copies, TypeOK, Grown
<1>6. DueIsOver'
  BY <1>1 DEF DueIsOver
<1> QED
  BY <1>1, <1>4, <1>5, <1>6, GrownKeeps

LEMMA CallKeeps ==
    ASSUME CopiesInv, NEW c \in Callers, Call(c)
    PROVE  CopiesInv'
<1> USE DEF CopiesInv
<1>1. PICK s \in Outcomes(held[c].session) :
          held' = [held EXCEPT ![c].session = s, ![c].calls = @ + 1]
  BY DEF Call
<1>2. /\ held[c] # Nil /\ held[c].calls < MaxCalls
      /\ UNCHANGED <<store, issued, due, swept, now>>
  BY DEF Call
<1>3. /\ held[c] \in Copy /\ held[c].id \in Ids
      /\ held[c].session \in IntentSession /\ held[c].session \in Copies(held[c].id)
  BY <1>2, HeldCopy
<1>4. SoundSession(held[c].session) /\ now \in Nat
  <2>1. SoundSession(held[c].session)
    BY <1>3 DEF CopiesSound
  <2>2. now \in Nat
    BY StoreAssumption DEF TypeOK
  <2> QED
    BY <2>1, <2>2
<1>5. Touched(held[c].session, s, now) /\ NotEarly(s)
  BY <1>1, <1>3, <1>4, OutcomesTouch
<1> DEFINE copy == [id |-> held[c].id, session |-> s, calls |-> held[c].calls + 1]
<1>6. held' = [held EXCEPT ![c] = copy]
  BY <1>1, <1>3 DEF TypeOK, Copy
<1>7. copy \in Copy
  BY <1>2, <1>3, <1>5, StoreAssumption DEF Copy, Touched
<1>8. TypeOK'
  BY <1>2, <1>6, <1>7 DEF TypeOK
<1>9. \A j \in Ids : \A t \in Copies(j)' : t \in Copies(j) \/ (j = held[c].id /\ t = s)
  BY <1>2, <1>6 DEF Copies, TypeOK
<1>10. \A j \in Ids : \A t \in Copies(j)' : Grown(j, t)
  BY <1>3, <1>5, <1>9 DEF Grown
<1>11. DueIsOver'
  BY <1>2 DEF DueIsOver
<1> QED
  BY <1>2, <1>8, <1>10, <1>11, GrownKeeps

(* What save() leaves in the store for id j.                               *)
LEMMA SaveStores ==
    ASSUME TypeOK, NEW i \in Ids, NEW s \in IntentSession, save(i, s)
    PROVE  /\ store' \in [Ids -> IntentSession \cup {Nil}]
           /\ \A j \in Ids : store'[j] = store[j] \/ (j = i /\ store'[j] = s /\ ~id_conflict(i, s))
BY DEF TypeOK, save

(* A copy that is saved over a session that is over is over as well: it is *)
(* of the same session.                                                    *)
LEMMA SaveKeepsDue ==
    ASSUME CopiesInv, NEW i \in Ids, NEW s \in Copies(i), save(i, s), NEW j \in due
    PROVE  store'[j] # Nil /\ is_expired(store'[j], now)
<1> USE DEF CopiesInv
<1>1. s \in IntentSession /\ j \in Ids /\ store[j] # Nil /\ is_expired(store[j], now)
  BY CopiesTyped DEF TypeOK, DueIsOver
<1>2. store'[j] = store[j] \/ (j = i /\ store'[j] = s /\ ~id_conflict(i, s))
  BY <1>1, SaveStores
<1>3. CASE j = i /\ store'[j] = s /\ ~id_conflict(i, s)
  <2>1. store[i] \in Copies(i) /\ s.owner = store[i].owner
    BY <1>1, <1>3, StoredCopy DEF id_conflict
  <2>2. s.created_at = store[i].created_at /\ s.ttl = store[i].ttl
    BY <2>1 DEF CopiesAgree
  <2> QED
    BY <1>1, <1>3, <2>2, StoreAssumption DEF is_expired
<1>4. CASE store'[j] = store[j]
  BY <1>1, <1>4
<1> QED
  BY <1>2, <1>3, <1>4

LEMMA SaveKeeps ==
    ASSUME CopiesInv, NEW c \in Callers, Save(c)
    PROVE  CopiesInv'
<1> USE DEF CopiesInv
<1>1. /\ held[c] # Nil /\ save(held[c].id, held[c].session)
      /\ held' = [held EXCEPT ![c] = Nil] /\ UNCHANGED <<issued, due, swept, now>>
  BY DEF Save
<1>2. /\ held[c].id \in Ids /\ held[c].session \in IntentSession
      /\ held[c].session \in Copies(held[c].id)
  BY <1>1, HeldCopy
<1>3. /\ store' \in [Ids -> IntentSession \cup {Nil}]
      /\ \A j \in Ids : store'[j] = store[j] \/ (j = held[c].id /\ store'[j] = held[c].session)
  BY <1>1, <1>2, SaveStores
<1>4. TypeOK'
  BY <1>1, <1>3 DEF TypeOK
<1>5. \A j \in Ids : \A t \in Copies(j)' : Grown(j, t)
  BY <1>1, <1>2, <1>3 DEF Copies, TypeOK, Grown
<1>6. DueIsOver'
  BY <1>1, <1>2, SaveKeepsDue DEF DueIsOver
<1> QED
  BY <1>1, <1>4, <1>5, <1>6, GrownKeeps

LEMMA SweepListKeeps ==
    ASSUME CopiesInv, SweepList
    PROVE  CopiesInv'
<1> USE DEF CopiesInv
<1>1. /\ swept = Nil /\ due' = list_expired(now)
      /\ UNCHANGED <<store, issued, held, swept, now>>
  BY DEF SweepList
<1>2. TypeOK' /\ DueIsOver'
  BY <1>1 DEF TypeOK, DueIsOver, list_expired
<1>3. \A j \in Ids : \A t \in Copies(j)' : Grown(j, t)
  BY <1>1 DEF Copies, Grown
<1> QED
  BY <1>1, <1>2, <1>3, GrownKeeps

LEMMA SweepVisitKeeps ==
    ASSUME CopiesInv, NEW i \in Ids, SweepVisit(i)
    PROVE  CopiesInv'
<1> USE DEF CopiesInv
<1>1. /\ i \in due /\ swept = Nil /\ due' = due \ {i}
      /\ UNCHANGED <<store, issued, held, now>>
  BY DEF SweepVisit
<1>2. /\ store[i] # Nil /\ is_expired(store[i], now) /\ store[i] \in IntentSession
      /\ store[i] \in Copies(i) /\ SoundSession(store[i]) /\ now \in Nat
  <2>1. store[i] # Nil /\ is_expired(store[i], now)
    BY <1>1 DEF DueIsOver
  <2>2. store[i] \in IntentSession /\ store[i] \in Copies(i)
    BY <2>1, StoredCopy
  <2>3. SoundSession(store[i])
    BY <2>2 DEF CopiesSound
  <2>4. now \in Nat
    BY StoreAssumption DEF TypeOK
  <2> QED
    BY <2>1, <2>2, <2>3, <2>4
<1>3. CASE swept' = Nil
  <2>1. TypeOK' /\ DueIsOver'
    BY <1>1, <1>3 DEF TypeOK, DueIsOver
  <2>2. \A j \in Ids : \A t \in Copies(j)' : Grown(j, t)
    BY <1>1, <1>3 DEF Copies, Grown
  <2> QED
    BY <1>1, <2>1, <2>2, GrownKeeps
<1>4. CASE \E s \in expire(store[i], now) : swept' = [id |-> i, session |-> s]
  <2>1. PICK s \in expire(store[i], now) : swept' = [id |-> i, session |-> s]
    BY <1>4
  <2>2. Touched(store[i], s, now) /\ NotEarly(s)
    BY <1>2, <2>1, ExpireTouches
  <2>3. swept' \in [id : Ids, session : IntentSession]
    BY <2>1, <2>2 DEF Touched
  <2>4. TypeOK' /\ DueIsOver'
    BY <1>1, <2>1, <2>3 DEF TypeOK, DueIsOver
  <2>5. \A j \in Ids : \A t \in Copies(j)' : t \in Copies(j) \/ (j = i /\ t = s)
    BY <1>1, <2>1 DEF Copies
  <2>6. \A j \in Ids : \A t \in Copies(j)' : Grown(j, t)
    BY <1>2, <2>2, <2>5 DEF Grown
  <2> QED
    BY <1>1, <2>4, <2>6, GrownKeeps
<1> QED
  BY <1>2, <1>3, <1>4 DEF SweepVisit

LEMMA SweepSaveKeeps ==
    ASSUME CopiesInv, SweepSave
    PROVE  CopiesInv'
<1> USE DEF CopiesInv
<1>1. /\ swept # Nil /\ save(swept.id, swept.session) /\ swept' = Nil
      /\ UNCHANGED <<issued, held, due, now>>
  BY DEF SweepSave
<1>2. swept.id \in Ids /\ swept.session \in IntentSession /\ swept.session \in Copies(swept.id)
  BY <1>1, SweptCopy
<1>3. /\ store' \in [Ids -> IntentSession \cup {Nil}]
      /\ \A j \in Ids : store'[j] = store[j] \/ (j = swept.id /\ store'[j] = swept.session)
  BY <1>1, <1>2, SaveStores
<1>4. TypeOK'
  BY <1>1, <1>3 DEF TypeOK
<1>5. \A j \in Ids : \A t \in Copies(j)' : Grown(j, t)
  BY <1>1, <1>2, <1>3 DEF Copies, Grown
<1>6. DueIsOver'
  BY <1>1, <1>2, SaveKeepsDue DEF DueIsOver
<1> QED
  BY <1>1, <1>4, <1>5, <1>6, GrownKeeps

LEMMA SweepRemoveKeeps ==
    ASSUME CopiesInv, SweepRemove
    PROVE  CopiesInv'
<1> USE DEF CopiesInv
<1>1. /\ swept # Nil /\ store' = [store EXCEPT ![swept.id] = Nil] /\ swept' = Nil
      /\ UNCHANGED <<issued, held, due, now>>
  BY DEF SweepRemove, remove
<1>2. TypeOK'
  BY <1>1 DEF TypeOK
<1>3. \A j \in Ids : store'[j] \in {store[j], Nil}
  BY <1>1 DEF TypeOK
<1>4. \A j \in Ids : \A t \in Copies(j)' : Grown(j, t)
  BY <1>1, <1>3 DEF Copies, Grown
<1>5. DueIsOver'
  BY <1>1 DEF DueIsOver, TypeOK
<1> QED
  BY <1>1, <1>2, <1>4, <1>5, GrownKeeps

LEMMA TickKeeps ==
    ASSUME CopiesInv, Tick
    PROVE  CopiesInv'
<1> USE DEF CopiesInv
<1>1. now' = now + 1 /\ now < MaxTime /\ UNCHANGED <<store, issued, held, due, swept>>
  BY DEF Tick
<1>2. TypeOK'
  BY <1>1, StoreAssumption DEF TypeOK
<1>3. \A j \in Ids : \A t \in Copies(j)' : Grown(j, t)
  BY <1>1 DEF Copies, Grown
<1>4. DueIsOver'
  <2> SUFFICES ASSUME NEW i \in due PROVE is_expired(store[i], now + 1)
    BY <1>1 DEF DueIsOver
  <2>1. store[i] \in IntentSession /\ is_expired(store[i], now) /\ now \in Nat
    BY DEF DueIsOver, TypeOK
  <2> QED
    BY <2>1 DEF is_expired, IntentSession
<1> QED
  BY <1>1, <1>2, <1>3, <1>4, GrownKeeps

LEMMA CopiesInvHolds == Spec => []CopiesInv
<1>1. Init => CopiesInv
  <2> SUFFICES ASSUME Init PROVE CopiesInv
    OBVIOUS
  <2>1. TypeOK
    BY StoreAssumption DEF Init, TypeOK
  <2>2. \A i \in Ids : Copies(i) = {}
    BY DEF Init, Copies
  <2> QED
    BY <2>1, <2>2 DEF Init, CopiesInv, CopiesSound, CopiesAgree, DueIsOver
<1>2. CopiesInv /\ [Next]_vars => CopiesInv'
  <2> SUFFICES ASSUME CopiesInv, [Next]_vars PROVE CopiesInv'
    OBVIOUS
  <2>1. CASE UNCHANGED vars
    BY <2>1 DEF vars, CopiesInv, TypeOK, CopiesSound, CopiesAgree, DueIsOver, Copies
  <2>2. CASE \E c \in Callers : \/ \E i \in Ids : Begin(c, i) \/ Load(c, i)
                                \/ Call(c) \/ Save(c)
    BY <2>2, BeginKeeps, LoadKeeps, CallKeeps, SaveKeeps
  <2>3. CASE SweepList \/ (\E i \in Ids : SweepVisit(i)) \/ SweepSave \/ SweepRemove
    BY <2>3, SweepListKeeps, SweepVisitKeeps, SweepSaveKeeps, SweepRemoveKeeps
  <2>4. CASE Tick
    BY <2>4, TickKeeps
  <2> QED
    BY <2>1, <2>2, <2>3, <2>4 DEF Next
<1> QED
  BY <1>1, <1>2, PTL DEF Spec

-----------------------------------------------------------------------------
(* Theorems *)

(* The store and every copy a handler works on are of their types, and     *)
(* every session in them is one the aggregate could be in, though any      *)
(* number of handlers overwrite each other's changes.                      *)
THEOREM StoreStaysSound == Spec => []StoreInv
<1>1. CopiesInv => StoreInv
  <2> SUFFICES ASSUME CopiesInv PROVE StoreInv
    OBVIOUS
  <2>1. TypeOK /\ CopiesSound
    BY DEF CopiesInv
  <2>2. \A i \in Ids : store[i] # Nil => SoundSession(store[i])
    BY <2>1, StoredCopy DEF CopiesSound
  <2>3. \A c \in Callers : held[c] # Nil => SoundSession(held[c].session)
    BY <2>1, HeldCopy DEF CopiesSound
  <2> QED
    BY <2>1, <2>2, <2>3 DEF StoreInv, StoredSessionsSound
<1> QED
  BY <1>1, CopiesInvHolds, PTL

(* The sweep never archives a session as expired before its lifetime is    *)
(* over, for any number of handlers that save copies while the sweeper     *)
(* works through a list it took earlier.                                   *)
THEOREM NothingExpiresEarly == Spec => []NeverExpiredEarly
<1>1. CopiesInv => NeverExpiredEarly
  BY StoredCopy DEF CopiesInv, CopiesSound, NeverExpiredEarly, NotEarly
<1> QED
  BY <1>1, CopiesInvHolds, PTL

(* A stored session is never replaced by one of another owner, whichever   *)
(* ids the owners' generators produce.                                     *)
THEOREM StoredOwnerIsStable == Spec => OwnerIsStable
<1> DEFINE Stable == \A i \in Ids : store[i] # Nil /\ store'[i] # Nil
                                       => store'[i].owner = store[i].owner
<1>1. TypeOK /\ Next => Stable
  <2> SUFFICES ASSUME TypeOK, Next, NEW i \in Ids, store[i] # Nil, store'[i] # Nil
               PROVE  store'[i].owner = store[i].owner
    OBVIOUS
  <2>1. ASSUME NEW j \in Ids, NEW s \in IntentSession, save(j, s)
        PROVE  store'[i].owner = store[i].owner
    BY <2>1, SaveStores DEF id_conflict
  <2>2. ASSUME NEW c \in Callers, Save(c) PROVE store'[i].owner = store[i].owner
    BY <2>1, <2>2, HeldCopy DEF Save
  <2>3. CASE SweepSave
    BY <2>1, <2>3, SweptCopy DEF SweepSave
  <2>4. CASE SweepRemove
    BY <2>4 DEF SweepRemove, remove, TypeOK
  <2>5. CASE UNCHANGED store
    BY <2>5
  <2> QED
    BY <2>2, <2>3, <2>4, <2>5 DEF Next, Begin, Load, Call, SweepList, SweepVisit, Tick
<1>2. TypeOK /\ [Next]_vars => [Stable]_vars
  BY <1>1
<1>3. CopiesInv => TypeOK
  BY DEF CopiesInv
<1> QED
  BY <1>2, <1>3, CopiesInvHolds, PTL DEF Spec, OwnerIsStable

-----------------------------------------------------------------------------
(* Handlers that take ids from list_active_for() *)

LEMMA OwnCopiesKept ==
    ASSUME ByListing, CopiesInv, LoadsOwnSessions, [Next]_vars
    PROVE  LoadsOwnSessions'
<1> SUFFICES ASSUME NEW c \in Callers, held'[c] # Nil
             PROVE  held'[c].session.owner = OwnerOf[c]
  BY DEF LoadsOwnSessions
<1> USE DEF CopiesInv
<1>0. CASE UNCHANGED held
  BY <1>0 DEF LoadsOwnSessions
<1>1. ASSUME NEW d \in Callers, NEW i \in Ids, Begin(d, i)
      PROVE  held'[c].session.owner = OwnerOf[c]
  <2>1. PICK slots \in SlotLists : \E s \in create(OwnerOf[d], slots, now, Ttl) :
            held' = [held EXCEPT ![d] = [id |-> i, session |-> s, calls |-> 0]]
    BY <1>1 DEF Begin
  <2>2. PICK s \in create(OwnerOf[d], slots, now, Ttl) :
            held' = [held EXCEPT ![d] = [id |-> i, session |-> s, calls |-> 0]]
    BY <2>1
  <2>3. s.owner = OwnerOf[d]
    BY <2>2 DEF create, Accepted
  <2> QED
    BY <2>2, <2>3 DEF LoadsOwnSessions, TypeOK
<1>2. ASSUME NEW d \in Callers, NEW i \in Ids, Load(d, i)
      PROVE  held'[c].session.owner = OwnerOf[c]
  BY <1>2 DEF Load, list_active_for, LoadsOwnSessions, TypeOK
<1>3. ASSUME NEW d \in Callers, Call(d)
      PROVE  held'[c].session.owner = OwnerOf[c]
  <2>1. PICK s \in Outcomes(held[d].session) :
            held' = [held EXCEPT ![d].session = s, ![d].calls = @ + 1]
    BY <1>3 DEF Call
  <2>2. held[d] # Nil /\ held[d] \in Copy /\ held[d].session \in IntentSession
    BY <1>3, HeldCopy DEF Call
  <2>3. SoundSession(held[d].session)
    BY <2>2, HeldCopy DEF CopiesSound
  <2>4. now \in Nat
    BY StoreAssumption DEF TypeOK
  <2>5. s.owner = held[d].session.owner
    BY <2>1, <2>2, <2>3, <2>4, OutcomesTouch DEF Touched
  <2> QED
    BY <2>1, <2>2, <2>5 DEF LoadsOwnSessions, TypeOK, Copy
<1>4. ASSUME NEW d \in Callers, Save(d)
      PROVE  held'[c].session.owner = OwnerOf[c]
  BY <1>4 DEF Save, LoadsOwnSessions, TypeOK
<1> QED
  BY <1>0, <1>1, <1>2, <1>3, <1>4
  DEF Next, vars, SweepList, SweepVisit, SweepSave, SweepRemove, Tick

(* Handlers that take the id from list_active_for() never work on another  *)
(* operator's session, though load() itself looks at nothing but the id.   *)
THEOREM HandlersLoadOwnSessions ==
    ASSUME ByListing
    PROVE  Spec => []LoadsOwnSessions
<1>1. Init => LoadsOwnSessions
  BY DEF Init, LoadsOwnSessions
<1>2. CopiesInv /\ LoadsOwnSessions /\ [Next]_vars => LoadsOwnSessions'
  BY OwnCopiesKept
<1> QED
  BY <1>1, <1>2, CopiesInvHolds, PTL DEF Spec

-----------------------------------------------------------------------------
(* Handlers and sweeps that take turns *)

(* One copy is out at a time.                                              *)
TurnsTaken ==
    /\ \A c, d \in Callers : held[c] # Nil /\ held[d] # Nil => c = d
    /\ swept # Nil => \A c \in Callers : held[c] = Nil

(* A copy s of id i that may be saved is no change of an archived session. *)
Harmless(i, s) ==
    store[i] # Nil /\ store[i].owner = s.owner /\ store[i].state = "archive" => s = store[i]

CopiesHarmless ==
    /\ \A c \in Callers : held[c] # Nil => Harmless(held[c].id, held[c].session)
    /\ swept # Nil => Harmless(swept.id, swept.session)

TurnsInv == TurnsTaken /\ CopiesHarmless

LEMMA TurnsKept ==
    ASSUME Serialised, CopiesInv, TurnsInv, [Next]_vars
    PROVE  TurnsInv'
<1> USE DEF CopiesInv, TurnsInv
<1>0. CASE UNCHANGED <<store, held, swept>>
  BY <1>0 DEF TurnsTaken, CopiesHarmless, Harmless
<1>1. ASSUME NEW c \in Callers, NEW i \in Ids, Begin(c, i)
      PROVE  TurnsInv'
  <2>1. PICK slots \in SlotLists : \E s \in create(OwnerOf[c], slots, now, Ttl) :
            held' = [held EXCEPT ![c] = [id |-> i, session |-> s, calls |-> 0]]
    BY <1>1 DEF Begin
  <2>2. PICK s \in create(OwnerOf[c], slots, now, Ttl) :
            held' = [held EXCEPT ![c] = [id |-> i, session |-> s, calls |-> 0]]
    BY <2>1
  <2>3. /\ \A d \in Callers : held[d] = Nil
        /\ swept = Nil /\ UNCHANGED <<store, swept>> /\ <<OwnerOf[c], i>> \notin issued
    BY <1>1 DEF Begin, MayStart, NobodyHolds
  <2>4. s.owner = OwnerOf[c]
    BY <2>2 DEF create, Accepted
  <2>5. Harmless(i, s)
    BY <2>3, <2>4, StoredCopy DEF Harmless, CopiesSound
  <2>6. TurnsTaken'
    BY <2>2, <2>3 DEF TurnsTaken, TypeOK
  <2>7. CopiesHarmless'
    BY <2>2, <2>3, <2>5 DEF CopiesHarmless, Harmless, TypeOK
  <2> QED
    BY <2>6, <2>7
<1>2. ASSUME NEW c \in Callers, NEW i \in Ids, Load(c, i)
      PROVE  TurnsInv'
  <2>1. /\ \A d \in Callers : held[d] = Nil
        /\ swept = Nil /\ UNCHANGED <<store, swept>>
        /\ held' = [held EXCEPT ![c] = [id |-> i, session |-> store[i], calls |-> 0]]
    BY <1>2 DEF Load, MayStart, NobodyHolds
  <2>2. TurnsTaken'
    BY <2>1 DEF TurnsTaken, TypeOK
  <2>3. CopiesHarmless'
    BY <2>1 DEF CopiesHarmless, Harmless, TypeOK
  <2> QED
    BY <2>2, <2>3
<1>3. ASSUME NEW c \in Callers, Call(c)
      PROVE  TurnsInv'
  <2>1. PICK s \in Outcomes(held[c].session) :
            held' = [held EXCEPT ![c].session = s, ![c].calls = @ + 1]
    BY <1>3 DEF Call
  <2>2. /\ held[c] # Nil /\ held[c] \in Copy /\ held[c].session \in IntentSession
        /\ UNCHANGED <<store, swept>>
    BY <1>3, HeldCopy DEF Call
  <2>3. SoundSession(held[c].session)
    BY <2>2, HeldCopy DEF CopiesSound
  <2>4. now \in Nat
    BY StoreAssumption DEF TypeOK
  <2>5. held[c].session.state # "archive" /\ s.owner = held[c].session.owner
    BY <2>1, <2>2, <2>3, <2>4, OutcomesTouch DEF Touched
  <2>6. Harmless(held[c].id, s)
    BY <2>2, <2>5 DEF CopiesHarmless, Harmless
  <2>7. swept = Nil /\ \A d \in Callers \ {c} : held[d] = Nil
    BY <2>2 DEF TurnsTaken
  <2>8. /\ held'[c].id = held[c].id /\ held'[c].session = s
        /\ \A d \in Callers \ {c} : held'[d] = Nil
    BY <2>1, <2>2, <2>7 DEF TypeOK, Copy
  <2>9. TurnsTaken'
    BY <2>2, <2>7, <2>8 DEF TurnsTaken
  <2>10. CopiesHarmless'
    BY <2>2, <2>6, <2>7, <2>8 DEF CopiesHarmless, Harmless
  <2> QED
    BY <2>9, <2>10
<1>4. ASSUME NEW c \in Callers, Save(c)
      PROVE  TurnsInv'
  <2>1. swept' = Nil /\ \A d \in Callers : held'[d] = Nil
    BY <1>4 DEF Save, TurnsTaken, TypeOK
  <2> QED
    BY <2>1 DEF TurnsTaken, CopiesHarmless
<1>5. ASSUME NEW i \in Ids, SweepVisit(i)
      PROVE  TurnsInv'
  <2>1. \A d \in Callers : held[d] = Nil /\ held'[d] = Nil
    BY <1>5 DEF SweepVisit, MayStart, NobodyHolds
  <2>2. TurnsTaken'
    BY <2>1 DEF TurnsTaken
  <2>3. swept' # Nil => Harmless(swept'.id, swept'.session)
    BY <1>5 DEF SweepVisit, Harmless, expire, Accepted, is_terminal
  <2>4. CopiesHarmless'
    BY <1>5, <2>1, <2>3 DEF SweepVisit, CopiesHarmless, Harmless
  <2> QED
    BY <2>2, <2>4
<1>6. CASE SweepSave \/ SweepRemove
  <2>1. swept' = Nil /\ \A d \in Callers : held'[d] = Nil
    BY <1>6 DEF SweepSave, SweepRemove, TurnsTaken
  <2> QED
    BY <2>1 DEF TurnsTaken, CopiesHarmless
<1> QED
  BY <1>0, <1>1, <1>2, <1>3, <1>4, <1>5, <1>6 DEF Next, vars, SweepList, Tick

LEMMA ArchivedKept ==
    ASSUME CopiesInv, TurnsInv, Next, NEW i \in Ids, store[i] # Nil, is_terminal(store[i].state)
    PROVE  store'[i] \in {store[i], Nil}
<1> USE DEF CopiesInv, TurnsInv
<1>1. ASSUME NEW j \in Ids, NEW s \in IntentSession, save(j, s), Harmless(j, s)
      PROVE  store'[i] \in {store[i], Nil}
  BY <1>1, SaveStores DEF id_conflict, Harmless, is_terminal
<1>2. ASSUME NEW c \in Callers, Save(c) PROVE store'[i] \in {store[i], Nil}
  BY <1>1, <1>2, HeldCopy DEF Save, CopiesHarmless
<1>3. CASE SweepSave
  BY <1>1, <1>3, SweptCopy DEF SweepSave, CopiesHarmless
<1>4. CASE SweepRemove
  BY <1>4 DEF SweepRemove, remove, TypeOK
<1>5. CASE UNCHANGED store
  BY <1>5
<1> QED
  BY <1>2, <1>3, <1>4, <1>5 DEF Next, Begin, Load, Call, SweepList, SweepVisit, Tick

(* Where requests and sweep entries take turns, an archived session stays  *)
(* exactly as it is until it is removed.  (Without turns it does not: a    *)
(* copy loaded while it was open can be saved over it afterwards.)         *)
THEOREM ArchiveIsFinalInTurns ==
    ASSUME Serialised
    PROVE  Spec => ArchivedStaysArchived
<1> DEFINE Kept == \A i \in Ids : store[i] # Nil /\ is_terminal(store[i].state)
                                     => store'[i] \in {store[i], Nil}
<1>1. Init => TurnsInv
  BY DEF Init, TurnsInv, TurnsTaken, CopiesHarmless
<1>2. CopiesInv /\ TurnsInv /\ [Next]_vars => TurnsInv'
  BY TurnsKept
<1>3. CopiesInv /\ TurnsInv /\ [Next]_vars => [Kept]_vars
  BY ArchivedKept
<1> QED
  BY <1>1, <1>2, <1>3, CopiesInvHolds, PTL DEF Spec, ArchivedStaysArchived
=============================================================================
