----------------------- MODULE SessionAggregate_proofs -----------------------
(***************************************************************************)
(* Every operation of the aggregate maps a well-typed sound session to a   *)
(* well-typed sound session.  These lemmas carry the proofs about the      *)
(* state machines that keep sessions.                                      *)
(***************************************************************************)
EXTENDS SessionAggregate, SequenceTheorems, TLAPS

-----------------------------------------------------------------------------
(* Slot vectors *)

(* A function on an initial segment of the naturals is a sequence.         *)
LEMMA FunctionIsSeq ==
    ASSUME NEW S, NEW n \in Nat, NEW f \in [1..n -> S]
    PROVE  f \in Seq(S)
OBVIOUS

(* create() leaves only named slots.                                       *)
LEMMA NamedSlots ==
    ASSUME NEW slots \in Seq(SlotDraft), \A i \in DOMAIN slots : slots[i].name # Nil
    PROVE  slots \in Seq(Slot)
<1>1. Len(slots) \in Nat /\ DOMAIN slots = 1..Len(slots) /\ slots \in [1..Len(slots) -> SlotDraft]
  BY LenProperties
<1>2. slots \in [1..Len(slots) -> Slot]
  BY <1>1 DEF Slot, SlotDraft
<1> QED
  BY <1>1, <1>2, FunctionIsSeq

LEMMA ParamsType ==
    ASSUME NEW slots \in Seq(Slot)
    PROVE  Params(slots) \in Seq(Values \cup {Nil})
<1>1. Len(slots) \in Nat /\ DOMAIN slots = 1..Len(slots) /\ slots \in [1..Len(slots) -> Slot]
  BY LenProperties
<1>2. Params(slots) \in [1..Len(slots) -> Values \cup {Nil}]
  BY <1>1 DEF Params, Slot
<1> QED
  BY <1>1, <1>2, FunctionIsSeq

LEMMA FilledSlots ==
    ASSUME NEW slots \in Seq(Slot), NEW i \in DOMAIN slots, NEW v \in Values
    PROVE  [slots EXCEPT ![i].value = v] \in Seq(Slot)
<1>1. Len(slots) \in Nat /\ DOMAIN slots = 1..Len(slots) /\ slots \in [1..Len(slots) -> Slot]
  BY LenProperties
<1>2. [slots EXCEPT ![i].value = v] \in [1..Len(slots) -> Slot]
  BY <1>1 DEF Slot
<1> QED
  BY <1>1, <1>2, FunctionIsSeq

-----------------------------------------------------------------------------
(* Operations *)

(* What one call leaves behind: a typed, sound session whose owner and     *)
(* creation time are the ones it had and whose timestamp is the call's.    *)
Touched(s, t, now) ==
    /\ t \in IntentSession
    /\ SoundSession(t)
    /\ t.owner = s.owner /\ t.created_at = s.created_at /\ t.ttl = s.ttl
    /\ t.updated_at = now

LEMMA CreateSound ==
    ASSUME NEW owner \in Owners, NEW now \in Nat, NEW ttl \in Nat,
           NEW slots \in Seq(SlotDraft), NEW t \in create(owner, slots, now, ttl)
    PROVE  /\ t \in IntentSession /\ SoundSession(t)
           /\ t.owner = owner /\ t.ttl = ttl /\ t.created_at = now /\ t.updated_at = now
<1>1. /\ \A i \in DOMAIN slots : slots[i].name # Nil
      /\ t = [owner |-> owner, state |-> "fill", slots |-> slots,
              created_at |-> now, updated_at |-> now, ttl |-> ttl,
              question |-> Nil, answer |-> Nil, preview_result |-> Nil,
              result |-> Nil, note |-> Nil, reason |-> Nil]
  BY DEF create, Accepted
<1>2. slots \in Seq(Slot)
  BY <1>1, NamedSlots
<1>3. t \in IntentSession
  BY <1>1, <1>2 DEF IntentSession, SessionState
<1>4. SoundSession(t)
  BY <1>1, NilAssumption DEF SoundSession, RequiredFilled, ShownIsCurrent, NoStalePreview,
     QuestionMatchesState, ReasonMatchesState, Approved, ArchiveReason
<1> QED
  BY <1>1, <1>3, <1>4

LEMMA RequestClarificationSound ==
    ASSUME NEW s \in IntentSession, SoundSession(s), NEW now \in Nat,
           NEW q \in Texts \cup {Nil}, NEW t \in request_clarification(s, q, now)
    PROVE  Touched(s, t, now)
<1>1. /\ s.state = "fill" /\ q # Nil
      /\ t = [[s EXCEPT !.question = q] EXCEPT !.state = "clarification", !.updated_at = now]
  BY DEF request_clarification, Accepted, transition_to
<1> QED
  BY <1>1, NilAssumption DEF Touched, IntentSession, SessionState, SoundSession, RequiredFilled,
     ShownIsCurrent, NoStalePreview, QuestionMatchesState, ReasonMatchesState, Approved,
     ArchiveReason, all_required_slots_filled

LEMMA AcceptClarificationSound ==
    ASSUME NEW s \in IntentSession, SoundSession(s), NEW now \in Nat,
           NEW a \in Texts \cup {Nil}, NEW t \in accept_clarification(s, a, now)
    PROVE  Touched(s, t, now)
<1>1. /\ s.state = "clarification"
      /\ t = [[s EXCEPT !.answer = a, !.question = Nil]
                 EXCEPT !.state = "fill", !.updated_at = now]
  BY DEF accept_clarification, Accepted, transition_to
<1> QED
  BY <1>1, NilAssumption DEF Touched, IntentSession, SessionState, SoundSession, RequiredFilled,
     ShownIsCurrent, NoStalePreview, QuestionMatchesState, ReasonMatchesState, Approved,
     ArchiveReason

LEMMA FillSlotSound ==
    ASSUME NEW s \in IntentSession, SoundSession(s), NEW now \in Nat,
           NEW n \in SlotNames, NEW v \in Values \cup {Nil}, NEW t \in fill_slot(s, n, v, now)
    PROVE  Touched(s, t, now)
<1>1. PICK i \in DOMAIN s.slots :
          /\ s.state = "fill" /\ v # Nil
          /\ t = [s EXCEPT !.slots[i].value = v, !.updated_at = now]
  BY DEF fill_slot, FirstNamed
<1>2. t.slots = [s.slots EXCEPT ![i].value = v]
  BY <1>1 DEF IntentSession
<1>3. t.slots \in Seq(Slot)
  BY <1>1, <1>2, FilledSlots DEF IntentSession
<1> QED
  BY <1>1, <1>3, NilAssumption DEF Touched, IntentSession, SessionState, SoundSession,
     RequiredFilled, ShownIsCurrent, NoStalePreview, QuestionMatchesState, ReasonMatchesState,
     Approved, ArchiveReason

LEMMA PreviewSound ==
    ASSUME NEW s \in IntentSession, SoundSession(s), NEW now \in Nat,
           NEW t \in preview(s, Params(s.slots), now)
    PROVE  Touched(s, t, now)
<1>1. /\ s.state = "fill" /\ all_required_slots_filled(s)
      /\ t = [[s EXCEPT !.preview_result = Params(s.slots)]
                 EXCEPT !.state = "preview", !.updated_at = now]
  BY DEF preview, Accepted, transition_to
<1>2. Params(s.slots) \in Seq(Values \cup {Nil})
  BY ParamsType DEF IntentSession
<1>3. t \in IntentSession
  BY <1>1, <1>2 DEF IntentSession, SessionState
<1>4. all_required_slots_filled(t) /\ t.preview_result = Params(t.slots)
  BY <1>1 DEF all_required_slots_filled, IntentSession
<1> QED
  BY <1>1, <1>3, <1>4, NilAssumption DEF Touched, IntentSession, SoundSession, RequiredFilled,
     ShownIsCurrent, NoStalePreview, QuestionMatchesState, ReasonMatchesState, Approved,
     ArchiveReason

LEMMA RejectPreviewSound ==
    ASSUME NEW s \in IntentSession, SoundSession(s), NEW now \in Nat,
           NEW t \in reject_preview(s, now)
    PROVE  Touched(s, t, now)
<1>1. /\ s.state = "preview"
      /\ t = [[s EXCEPT !.preview_result = Nil] EXCEPT !.state = "fill", !.updated_at = now]
  BY DEF reject_preview, Accepted, transition_to
<1> QED
  BY <1>1, NilAssumption DEF Touched, IntentSession, SessionState, SoundSession, RequiredFilled,
     ShownIsCurrent, NoStalePreview, QuestionMatchesState, ReasonMatchesState, Approved,
     ArchiveReason

LEMMA ConfirmSound ==
    ASSUME NEW s \in IntentSession, SoundSession(s), NEW now \in Nat, NEW t \in confirm(s, now)
    PROVE  Touched(s, t, now)
<1>1. /\ s.state = "preview"
      /\ t = [s EXCEPT !.state = "commit", !.updated_at = now]
  BY DEF confirm, Accepted, transition_to
<1>2. all_required_slots_filled(t)
  BY <1>1 DEF SoundSession, RequiredFilled, all_required_slots_filled, IntentSession
<1> QED
  BY <1>1, <1>2, NilAssumption DEF Touched, IntentSession, SessionState, SoundSession,
     RequiredFilled, ShownIsCurrent, NoStalePreview, QuestionMatchesState, ReasonMatchesState,
     Approved, ArchiveReason

LEMMA CompleteSound ==
    ASSUME NEW s \in IntentSession, SoundSession(s), NEW now \in Nat,
           NEW r \in Texts \cup {Nil}, NEW t \in complete(s, r, now)
    PROVE  Touched(s, t, now)
<1>1. /\ s.state = "commit"
      /\ t = [[s EXCEPT !.result = r, !.reason = "completed"]
                 EXCEPT !.state = "archive", !.updated_at = now]
  BY DEF complete, Accepted, transition_to
<1>2. all_required_slots_filled(t)
  BY <1>1 DEF SoundSession, RequiredFilled, Approved, all_required_slots_filled, IntentSession
<1> QED
  BY <1>1, <1>2, NilAssumption DEF Touched, IntentSession, SessionState, SoundSession,
     RequiredFilled, ShownIsCurrent, NoStalePreview, QuestionMatchesState, ReasonMatchesState,
     Approved, ArchiveReason

LEMMA CancelSound ==
    ASSUME NEW s \in IntentSession, SoundSession(s), NEW now \in Nat,
           NEW n \in Texts \cup {Nil}, NEW t \in cancel(s, n, now)
    PROVE  Touched(s, t, now)
<1>1. /\ s.state # "archive"
      /\ t = [[s EXCEPT !.note = n, !.reason = "cancelled"]
                 EXCEPT !.state = "archive", !.updated_at = now]
  BY DEF cancel, Accepted, transition_to, is_terminal
<1> QED
  BY <1>1, NilAssumption DEF Touched, IntentSession, SessionState, SoundSession, RequiredFilled,
     ShownIsCurrent, NoStalePreview, QuestionMatchesState, ReasonMatchesState, Approved,
     ArchiveReason

LEMMA ExpireSound ==
    ASSUME NEW s \in IntentSession, SoundSession(s), NEW now \in Nat, NEW t \in expire(s, now)
    PROVE  Touched(s, t, now)
<1>1. /\ s.state # "archive"
      /\ t = [[s EXCEPT !.reason = "expired"] EXCEPT !.state = "archive", !.updated_at = now]
  BY DEF expire, Accepted, transition_to, is_terminal
<1> QED
  BY <1>1, NilAssumption DEF Touched, IntentSession, SessionState, SoundSession, RequiredFilled,
     ShownIsCurrent, NoStalePreview, QuestionMatchesState, ReasonMatchesState, Approved,
     ArchiveReason
=============================================================================
