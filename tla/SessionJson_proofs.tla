------------------------- MODULE SessionJson_proofs -------------------------
(***************************************************************************)
(* One session, first without restarts: SessionInv is inductive, as the    *)
(* aggregate's lemmas carry one operation each and the clock only has to   *)
(* stay ahead of the timestamps.  From it follow the safety invariants,    *)
(* the transition table and the refinement of OperatorApproval.            *)
(*                                                                         *)
(* Then with restarts: what parse_session_json makes of a saved session is *)
(* computed exactly (RestoredSession), by following each arm of its        *)
(* replay.  That a restart keeps the inductive invariant, the session's    *)
(* record and the approval dialogue is then read off.                      *)
(***************************************************************************)
EXTENDS SessionJson, SessionAggregate_proofs

-----------------------------------------------------------------------------
(* The session without restarts *)

LEMMA InitInv == Init => SessionInv
<1> SUFFICES ASSUME Init PROVE SessionInv
  OBVIOUS
<1>1. PICK owner \in Owners, slots \in SlotLists, ttl \in Ttls :
          session \in create(owner, slots, now, ttl)
  BY DEF Init
<1>2. slots \in Seq(SlotDraft) /\ ttl \in Nat /\ now \in Nat
  BY LifecycleAssumption DEF Init
<1>3. /\ session \in IntentSession /\ SoundSession(session)
      /\ session.created_at = now /\ session.updated_at = now
  BY <1>1, <1>2, CreateSound
<1> QED
  BY <1>2, <1>3 DEF SessionInv, TypeOK

(* Every operation of the object touches it; only the clock does not.      *)
LEMMA StepTouches ==
    ASSUME SessionInv, Next
    PROVE  \/ Touched(session, session', now) /\ now' = now
           \/ session' = session /\ now' = now + 1
<1> USE DEF SessionInv, TypeOK
<1>1. CASE RequestClarification
  BY <1>1, RequestClarificationSound DEF RequestClarification
<1>2. CASE AcceptClarification
  BY <1>2, AcceptClarificationSound DEF AcceptClarification
<1>3. CASE FillSlot
  BY <1>3, FillSlotSound DEF FillSlot
<1>4. CASE Preview
  BY <1>4, PreviewSound DEF Preview
<1>5. CASE RejectPreview
  BY <1>5, RejectPreviewSound DEF RejectPreview
<1>6. CASE Confirm
  BY <1>6, ConfirmSound DEF Confirm
<1>7. CASE Complete
  BY <1>7, CompleteSound DEF Complete
<1>8. CASE Cancel
  BY <1>8, CancelSound DEF Cancel
<1>9. CASE Expire
  BY <1>9, ExpireSound DEF Expire
<1>10. CASE Tick
  BY <1>10 DEF Tick
<1> QED
  BY <1>1, <1>2, <1>3, <1>4, <1>5, <1>6, <1>7, <1>8, <1>9, <1>10 DEF Next

LEMMA StepInv == SessionInv /\ [Next]_vars => SessionInv'
<1> SUFFICES ASSUME SessionInv, [Next]_vars PROVE SessionInv'
  OBVIOUS
<1>1. CASE Next
  <2>1. CASE Touched(session, session', now) /\ now' = now
    BY <2>1 DEF Touched, SessionInv, TypeOK, IntentSession
  <2>2. CASE session' = session /\ now' = now + 1
    BY <2>2 DEF SessionInv, TypeOK, IntentSession, SoundSession, RequiredFilled, ShownIsCurrent,
       NoStalePreview, QuestionMatchesState, ReasonMatchesState, Approved,
       all_required_slots_filled, Params, is_filled
  <2> QED
    BY <1>1, <2>1, <2>2, StepTouches
<1>2. CASE UNCHANGED vars
  BY <1>2 DEF vars, SessionInv, TypeOK, SoundSession, RequiredFilled, ShownIsCurrent,
     NoStalePreview, QuestionMatchesState, ReasonMatchesState, Approved,
     all_required_slots_filled, Params, is_filled
<1> QED
  BY <1>1, <1>2

(* The session object always has its type, and every combination of its    *)
(* fields is one SoundSession allows, after any sequence of calls with any *)
(* slots, values and times.                                                *)
THEOREM SessionAlwaysSound == Spec => []SessionInv
<1> QED
  BY InitInv, StepInv, PTL DEF Spec

(* Nothing is previewed, executed or completed with a required slot empty. *)
THEOREM RequiredAlwaysFilled == Spec => []RequiredFilledInv
<1>1. SessionInv => RequiredFilledInv
  BY DEF SessionInv, SoundSession, RequiredFilledInv
<1> QED
  BY <1>1, SessionAlwaysSound, PTL

(* The parameters that are executed are the ones the operator was shown.   *)
THEOREM ShownAlwaysCurrent == Spec => []ShownIsCurrentInv
<1>1. SessionInv => ShownIsCurrentInv
  BY DEF SessionInv, SoundSession, ShownIsCurrentInv
<1> QED
  BY <1>1, SessionAlwaysSound, PTL

(* No question, dry-run result, reason or result outlives its state.       *)
THEOREM NothingLeftOver == Spec => []NoLeftovers
<1>1. SessionInv => NoLeftovers
  BY DEF SessionInv, SoundSession, NoLeftovers
<1> QED
  BY <1>1, SessionAlwaysSound, PTL

-----------------------------------------------------------------------------
(* The transition table *)

Transition ==
    /\ session'.state # session.state => <<session.state, session'.state>> \in DocumentedTransitions
    /\ session.state = "archive" => Record(session') = Record(session)

LEMMA StepTransition == SessionInv /\ [Next]_vars => Transition
<1> SUFFICES ASSUME SessionInv, [Next]_vars PROVE Transition
  OBVIOUS
<1> USE DEF SessionInv, TypeOK, IntentSession, Transition, DocumentedTransitions, Record,
           Accepted, transition_to
<1>1. CASE RequestClarification
  BY <1>1 DEF RequestClarification, request_clarification
<1>2. CASE AcceptClarification
  BY <1>2 DEF AcceptClarification, accept_clarification
<1>3. CASE FillSlot
  BY <1>3 DEF FillSlot, fill_slot
<1>4. CASE Preview
  BY <1>4 DEF Preview, preview
<1>5. CASE RejectPreview
  BY <1>5 DEF RejectPreview, reject_preview
<1>6. CASE Confirm
  BY <1>6 DEF Confirm, confirm
<1>7. CASE Complete
  BY <1>7 DEF Complete, complete
<1>8. CASE Cancel
  BY <1>8 DEF Cancel, cancel, is_terminal, SessionState
<1>9. CASE Expire
  BY <1>9 DEF Expire, expire, is_terminal, SessionState
<1>10. CASE Tick
  BY <1>10 DEF Tick
<1>11. CASE UNCHANGED vars
  BY <1>11 DEF vars
<1> QED
  BY <1>1, <1>2, <1>3, <1>4, <1>5, <1>6, <1>7, <1>8, <1>9, <1>10, <1>11 DEF Next

(* Every state change is one the SessionState comment lists, and an        *)
(* archived session keeps its record.                                   *)
THEOREM TransitionsAsDocumented == Spec => FollowsTransitionTable
<1>1. SessionInv /\ [Next]_vars => [Transition]_vars
  BY StepTransition
<1>2. Spec => [][Transition]_vars
  BY <1>1, SessionAlwaysSound, PTL DEF Spec
<1> QED
  BY <1>2 DEF FollowsTransitionTable, Transition

-----------------------------------------------------------------------------
(* Refinement of OperatorApproval *)

LEMMA InitApproval == Init => Approval!Init
<1> SUFFICES ASSUME Init PROVE Approval!Init
  OBVIOUS
<1>1. SessionInv
  BY InitInv
<1>2. session.state = "fill"
  BY DEF Init, create, Accepted
<1>3. ApprovalPhase = "open"
  BY <1>2 DEF ApprovalPhase
<1> DEFINE absSlot == [required : BOOLEAN, value : Values \cup {Nil}]
           n       == Len(session.slots)
           abs     == [i \in DOMAIN session.slots |->
                          [required |-> session.slots[i].required,
                           value    |-> session.slots[i].value]]
<1>4. n \in Nat /\ DOMAIN session.slots = 1..n /\ session.slots \in [1..n -> Slot]
  BY <1>1, LenProperties DEF SessionInv, TypeOK, IntentSession
<1>5. abs \in [1..n -> absSlot]
  BY <1>4 DEF Slot
<1>6. abs \in Seq(absSlot)
  BY <1>4, <1>5, FunctionIsSeq
<1> QED
  BY <1>3, <1>6 DEF Approval!Init

(* The phase, state by state.                                              *)
LEMMA PhaseOf ==
    ASSUME SessionInv
    PROVE  /\ ApprovalPhase = "open"     <=> session.state \in {"fill", "clarification"}
           /\ ApprovalPhase = "offered"  <=> session.state = "preview"
           /\ ApprovalPhase = "approved" <=> session.state = "commit"
           /\ ApprovalPhase = "executed" <=> session.state = "archive" /\ session.reason = "completed"
           /\ ApprovalPhase = "closed"   <=> session.state = "archive" /\ session.reason # "completed"
BY DEF ApprovalPhase, SessionInv, TypeOK, IntentSession, SessionState

(* The same after a step.                                                  *)
LEMMA PhaseAfter ==
    ASSUME SessionInv'
    PROVE  /\ ApprovalPhase' = "open"     <=> session'.state \in {"fill", "clarification"}
           /\ ApprovalPhase' = "offered"  <=> session'.state = "preview"
           /\ ApprovalPhase' = "approved" <=> session'.state = "commit"
           /\ ApprovalPhase' = "executed" <=> session'.state = "archive" /\ session'.reason = "completed"
           /\ ApprovalPhase' = "closed"   <=> session'.state = "archive" /\ session'.reason # "completed"
BY DEF ApprovalPhase, SessionInv, TypeOK, IntentSession, SessionState

(* A slot that is filled amends exactly the parameter at its position.     *)
LEMMA FillAmends ==
    ASSUME SessionInv, SessionInv', FillSlot
    PROVE  Approval!Amend
<1>1. PICK name \in SlotNames, v \in Values \cup {Nil} : session' \in fill_slot(session, name, v, now)
  BY DEF FillSlot
<1>2. PICK i \in DOMAIN session.slots :
          /\ session.state = "fill" /\ v # Nil
          /\ session' = [session EXCEPT !.slots[i].value = v, !.updated_at = now]
  BY <1>1 DEF fill_slot, FirstNamed
<1> DEFINE n  == Len(session.slots)
<1>3. n \in Nat /\ DOMAIN session.slots = 1..n /\ session.slots \in [1..n -> Slot]
  BY LenProperties DEF SessionInv, TypeOK, IntentSession
<1>4. session'.slots = [session.slots EXCEPT ![i].value = v] /\ session'.state = "fill"
  BY <1>2 DEF SessionInv, TypeOK, IntentSession
<1>5. [j \in DOMAIN session'.slots |->
          [required |-> session'.slots[j].required, value |-> session'.slots[j].value]]
      = [[j \in DOMAIN session.slots |->
             [required |-> session.slots[j].required, value |-> session.slots[j].value]]
            EXCEPT ![i].value = v]
  <2> DEFINE abs(slots) == [j \in DOMAIN slots |->
                               [required |-> slots[j].required, value |-> slots[j].value]]
             old == abs(session.slots)
             new == abs(session'.slots)
             amended == [old EXCEPT ![i] = [old[i] EXCEPT !.value = v]]
  <2>1. DOMAIN session'.slots = 1..n
    BY <1>3, <1>4
  <2>2. DOMAIN new = 1..n /\ DOMAIN amended = 1..n
    BY <1>3, <2>1
  <2>3. ASSUME NEW j \in 1..n PROVE new[j] = amended[j]
    <3>1. session'.slots[j] = IF j = i THEN [session.slots[i] EXCEPT !.value = v]
                              ELSE session.slots[j]
      BY <1>2, <1>3, <1>4
    <3>2. session.slots[j] \in Slot
      BY <1>3
    <3> QED
      BY <1>2, <1>3, <2>1, <3>1, <3>2 DEF Slot
  <2>4. new = [j \in 1..n |-> new[j]] /\ amended = [j \in 1..n |-> amended[j]]
    BY <1>3, <2>1, <2>2
  <2>5. new = amended
    BY <2>2, <2>3, <2>4
  <2> QED
    BY <2>5
<1>6. ApprovalPhase = "open" /\ ApprovalPhase' = "open"
  BY <1>2, <1>4, PhaseOf, PhaseAfter
<1> QED
  BY <1>2, <1>5, <1>6 DEF Approval!Amend

(* An operation that leaves the slots alone leaves the parameters alone.   *)
LEMMA SameParams ==
    ASSUME session'.slots = session.slots
    PROVE  [j \in DOMAIN session'.slots |->
               [required |-> session'.slots[j].required, value |-> session'.slots[j].value]]
           = [j \in DOMAIN session.slots |->
                 [required |-> session.slots[j].required, value |-> session.slots[j].value]]
OBVIOUS

(* Completeness and the parameters shown are those of the session.         *)
LEMMA CompleteIffFilled ==
    /\ Approval!Complete <=> all_required_slots_filled(session)
    /\ Approval!ShownParams = Params(session.slots)
BY DEF Approval!Complete, Approval!ShownParams, all_required_slots_filled, is_filled, Params

LEMMA StepApproval == SessionInv /\ [Next]_vars => [Approval!Next]_(Approval!vars)
<1> SUFFICES ASSUME SessionInv, [Next]_vars PROVE [Approval!Next]_(Approval!vars)
  OBVIOUS
<1>0. SessionInv'
  BY StepInv
<1> USE DEF Accepted, transition_to
<1>a. session \in IntentSession
  BY DEF SessionInv, TypeOK
<1>1. CASE RequestClarification
  <2>1. session.state = "fill" /\ session'.state = "clarification" /\ session'.slots = session.slots
    BY <1>a, <1>1 DEF RequestClarification, request_clarification, IntentSession
  <2>2. ApprovalPhase = "open" /\ ApprovalPhase' = "open"
    BY <1>0, <2>1, PhaseOf, PhaseAfter
  <2> QED
    BY <2>1, <2>2, SameParams DEF Approval!vars
<1>2. CASE AcceptClarification
  <2>1. session.state = "clarification" /\ session'.state = "fill" /\ session'.slots = session.slots
    BY <1>a, <1>2 DEF AcceptClarification, accept_clarification, IntentSession
  <2>2. ApprovalPhase = "open" /\ ApprovalPhase' = "open"
    BY <1>0, <2>1, PhaseOf, PhaseAfter
  <2> QED
    BY <2>1, <2>2, SameParams DEF Approval!vars
<1>3. CASE FillSlot
  BY <1>0, <1>3, FillAmends DEF Approval!Next
<1>4. CASE Preview
  <2>1. /\ session.state = "fill" /\ session'.state = "preview" /\ session'.slots = session.slots
        /\ all_required_slots_filled(session)
        /\ session'.preview_result = Params(session.slots)
    BY <1>a, <1>4 DEF Preview, preview, IntentSession
  <2>2. ApprovalPhase = "open" /\ ApprovalPhase' = "offered"
    BY <1>0, <2>1, PhaseOf, PhaseAfter
  <2>3. Approval!Offer
    BY <2>1, <2>2, SameParams, CompleteIffFilled DEF Approval!Offer
  <2> QED
    BY <2>3 DEF Approval!Next
<1>5. CASE RejectPreview
  <2>1. session.state = "preview" /\ session'.state = "fill" /\ session'.slots = session.slots
    BY <1>a, <1>5 DEF RejectPreview, reject_preview, IntentSession
  <2>2. ApprovalPhase = "offered" /\ ApprovalPhase' = "open"
    BY <1>0, <2>1, PhaseOf, PhaseAfter
  <2>3. Approval!Withdraw
    BY <2>1, <2>2, SameParams DEF Approval!Withdraw
  <2> QED
    BY <2>3 DEF Approval!Next
<1>6. CASE Confirm
  <2>1. /\ session.state = "preview" /\ session'.state = "commit" /\ session'.slots = session.slots
        /\ session'.preview_result = session.preview_result
    BY <1>a, <1>6 DEF Confirm, confirm, IntentSession
  <2>2. ApprovalPhase = "offered" /\ ApprovalPhase' = "approved"
    BY <1>0, <2>1, PhaseOf, PhaseAfter
  <2>3. all_required_slots_filled(session) /\ session.preview_result = Params(session.slots)
    BY <2>1 DEF SessionInv, SoundSession, RequiredFilled, ShownIsCurrent
  <2>4. Approval!Approve
    BY <2>1, <2>2, <2>3, SameParams, CompleteIffFilled DEF Approval!Approve
  <2> QED
    BY <2>4 DEF Approval!Next
<1>7. CASE Complete
  <2>1. /\ session.state = "commit" /\ session'.state = "archive" /\ session'.reason = "completed"
        /\ session'.slots = session.slots /\ session'.preview_result = session.preview_result
    BY <1>a, <1>7 DEF Complete, complete, IntentSession
  <2>2. ApprovalPhase = "approved" /\ ApprovalPhase' = "executed"
    BY <1>0, <2>1, PhaseOf, PhaseAfter
  <2>3. all_required_slots_filled(session) /\ session.preview_result = Params(session.slots)
    BY <2>1 DEF SessionInv, SoundSession, RequiredFilled, ShownIsCurrent, Approved
  <2>4. Approval!Execute
    BY <2>1, <2>2, <2>3, SameParams, CompleteIffFilled DEF Approval!Execute
  <2> QED
    BY <2>4 DEF Approval!Next
<1>8. CASE Cancel \/ Expire
  <2>1. /\ session.state # "archive" /\ session'.state = "archive" /\ session'.reason # "completed"
        /\ session'.slots = session.slots
    BY <1>a, <1>8 DEF Cancel, cancel, Expire, expire, is_terminal, IntentSession
  <2>2. ApprovalPhase \in {"open", "offered", "approved"} /\ ApprovalPhase' = "closed"
    BY <1>0, <1>a, <2>1, PhaseOf, PhaseAfter DEF IntentSession, SessionState
  <2>3. Approval!Close
    BY <2>1, <2>2, SameParams DEF Approval!Close
  <2> QED
    BY <2>3 DEF Approval!Next
<1>9. CASE Tick \/ UNCHANGED vars
  <2>1. session' = session
    BY <1>9 DEF Tick, vars
  <2> QED
    BY <2>1 DEF Approval!vars, ApprovalPhase
<1> QED
  BY <1>1, <1>2, <1>3, <1>4, <1>5, <1>6, <1>7, <1>8, <1>9 DEF Next

(* The session state machine implements the approval dialogue: whatever    *)
(* the callers do, only complete, displayed and approved parameters are    *)
(* executed, and a closed dialogue stays closed.                           *)
THEOREM RefinesApproval == Spec => ImplementsApproval
<1>1. Spec => Approval!Init /\ [][Approval!Next]_(Approval!vars)
  BY InitApproval, StepApproval, SessionAlwaysSound, PTL DEF Spec
<1> QED
  BY <1>1 DEF ImplementsApproval, Approval!Spec

-----------------------------------------------------------------------------
(* Restarts *)

(* Truncation to microseconds moves a time back by less than one.          *)
LEMMA Truncation ==
    ASSUME NEW t \in Nat
    PROVE  /\ from_us(to_us(t)) \in Nat
           /\ from_us(to_us(t)) <= t
           /\ t < from_us(to_us(t)) + Micro
  BY MicroAssumption DEF from_us, to_us

LEMMA TruncationOrder ==
    ASSUME NEW t \in Nat, NEW u \in Nat, t <= u
    PROVE  from_us(to_us(t)) <= from_us(to_us(u))
  BY MicroAssumption DEF from_us, to_us

(* The session that the replay of a saved sound session ends in.           *)
RestoredSession(s) ==
    [owner |-> s.owner, state |-> s.state, slots |-> s.slots,
     created_at |-> from_us(to_us(s.created_at)),
     updated_at |-> from_us(to_us(IF s.state = "fill" THEN s.created_at ELSE s.updated_at)),
     ttl |-> s.ttl,
     question |-> IF s.state = "archive" THEN Nil ELSE s.question,
     answer |-> Nil,
     preview_result |-> IF s.reason \in {"cancelled", "expired"} THEN Nil ELSE s.preview_result,
     result |-> s.result, note |-> s.note, reason |-> s.reason]

(* A note is left only by cancel().                                        *)
NoteMatchesState(s) == s.note # Nil => s.reason = "cancelled"

(* Sessions are equal when all their fields are.                           *)
LEMMA SameSession ==
    ASSUME NEW x \in IntentSession, NEW y \in IntentSession,
           x.owner = y.owner, x.state = y.state, x.slots = y.slots,
           x.created_at = y.created_at, x.updated_at = y.updated_at, x.ttl = y.ttl,
           x.question = y.question, x.answer = y.answer,
           x.preview_result = y.preview_result, x.result = y.result,
           x.note = y.note, x.reason = y.reason
    PROVE  x = y
  BY DEF IntentSession

LEMMA ReplayIsExact ==
    ASSUME NEW s \in IntentSession, SoundSession(s), NoteMatchesState(s)
    PROVE  parse_session_json(serialize_session_json(s)) = {RestoredSession(s)}
<1> DEFINE json  == serialize_session_json(s)
           t0    == from_us(to_us(s.created_at))
           t1    == from_us(to_us(s.updated_at))
           fresh == [owner |-> s.owner, state |-> "fill", slots |-> s.slots,
                     created_at |-> t0, updated_at |-> t0, ttl |-> s.ttl,
                     question |-> Nil, answer |-> Nil, preview_result |-> Nil,
                     result |-> Nil, note |-> Nil, reason |-> Nil]
           at_t1(x, state) == [x EXCEPT !.state = state, !.updated_at = t1]
           previewed == at_t1([fresh EXCEPT !.preview_result = s.preview_result], "preview")
           confirmed == at_t1(previewed, "commit")
<1>1. /\ json.owner = s.owner /\ json.state = s.state /\ json.slots = s.slots
      /\ json.ttl = s.ttl /\ json.question = s.question
      /\ json.preview_result = s.preview_result /\ json.result = s.result
      /\ json.note = s.note /\ json.reason = s.reason
      /\ from_us(json.created_at) = t0 /\ from_us(json.updated_at) = t1
  BY DEF serialize_session_json, IntentSession
<1>2. \A i \in DOMAIN s.slots : s.slots[i].name # Nil
  <2>1. s.slots \in [1..Len(s.slots) -> Slot] /\ DOMAIN s.slots = 1..Len(s.slots)
    BY LenProperties DEF IntentSession
  <2> QED
    BY <2>1, NilAssumption DEF Slot
<1>3. create(json.owner, json.slots, from_us(json.created_at), json.ttl) = {fresh}
  BY <1>1, <1>2 DEF create, Accepted
<1>4. parse_session_json(json) = Replay(json, {fresh}, t1)
  BY <1>1, <1>3 DEF parse_session_json
<1> HIDE DEF json
<1>5. all_required_slots_filled(fresh) <=> all_required_slots_filled(s)
  BY DEF all_required_slots_filled
<1>6. ASSUME all_required_slots_filled(s)
      PROVE  preview(fresh, json.preview_result, t1) = {previewed}
  BY <1>1, <1>5, <1>6 DEF preview, Accepted, transition_to
<1>7. confirm(previewed, t1) = {confirmed}
  BY DEF confirm, Accepted, transition_to
<1>8. UNION {preview(z, json.preview_result, t1) : z \in {fresh}}
        = preview(fresh, json.preview_result, t1)
  <2> HIDE DEF fresh
  <2> QED
    OBVIOUS
<1>9. UNION {confirm(z, t1) : z \in {previewed}} = {confirmed}
  <2> HIDE DEF previewed, confirmed
  <2> QED
    BY <1>7
<1>10. t0 \in Nat /\ t1 \in Nat
  BY Truncation DEF IntentSession
<1>11. fresh \in IntentSession /\ RestoredSession(s) \in IntentSession
  BY <1>10 DEF IntentSession, SessionState, RestoredSession
<1>12. previewed \in IntentSession /\ confirmed \in IntentSession
  <2> HIDE DEF fresh, t1
  <2>1. previewed \in IntentSession
    BY <1>10, <1>11 DEF IntentSession, SessionState
  <2> HIDE DEF previewed
  <2> QED
    BY <1>10, <2>1 DEF IntentSession, SessionState
<1>13. /\ previewed.state = "preview"
      /\ previewed.owner = s.owner /\ previewed.slots = s.slots /\ previewed.ttl = s.ttl
      /\ previewed.created_at = t0 /\ previewed.updated_at = t1 /\ previewed.question = Nil
      /\ previewed.answer = Nil /\ previewed.preview_result = s.preview_result
      /\ previewed.result = Nil /\ previewed.note = Nil /\ previewed.reason = Nil
  OBVIOUS
<1>14. /\ confirmed.state = "commit"
      /\ confirmed.owner = s.owner /\ confirmed.slots = s.slots /\ confirmed.ttl = s.ttl
      /\ confirmed.created_at = t0 /\ confirmed.updated_at = t1 /\ confirmed.question = Nil
      /\ confirmed.answer = Nil /\ confirmed.preview_result = s.preview_result
      /\ confirmed.result = Nil /\ confirmed.note = Nil /\ confirmed.reason = Nil
  <2> HIDE DEF previewed
  <2> QED
    BY <1>12, <1>13 DEF IntentSession
<1>a. CASE s.state = "fill"
  <2>1. fresh = RestoredSession(s)
    BY <1>a, NilAssumption DEF SoundSession, NoStalePreview, QuestionMatchesState,
       ReasonMatchesState, NoteMatchesState, ArchiveReason, RestoredSession
  <2>2. Replay(json, {fresh}, t1) = {fresh}
    BY <1>1, <1>a DEF Replay
  <2> QED
    BY <1>4, <2>1, <2>2 DEF json
<1>b. CASE s.state = "clarification"
  <2> DEFINE asked == at_t1([fresh EXCEPT !.question = s.question], "clarification")
  <2>1. request_clarification(fresh, json.question, t1) = {asked}
    BY <1>1, <1>b DEF request_clarification, Accepted, transition_to, SoundSession,
       QuestionMatchesState
  <2>2. asked = RestoredSession(s)
    <3>1. asked \in IntentSession
      <4> HIDE DEF fresh, t1
      <4> QED
        BY <1>10, <1>11 DEF IntentSession, SessionState, ArchiveReason
    <3> QED
      BY <1>11, <3>1, <1>b, SameSession, NilAssumption DEF SoundSession, NoStalePreview,
         ReasonMatchesState, NoteMatchesState, ArchiveReason, RestoredSession
  <2> HIDE DEF fresh, asked
  <2>3. UNION {request_clarification(z, json.question, t1) : z \in {fresh}} = {asked}
    BY <2>1
  <2>4. Replay(json, {fresh}, t1)
          = UNION {request_clarification(z, json.question, t1) : z \in {fresh}}
    BY <1>1, <1>b DEF Replay, Then
  <2> QED
    BY <1>4, <2>2, <2>3, <2>4 DEF json
<1>c. CASE s.state = "preview"
  <2>1. previewed = RestoredSession(s)
    <3>1. s.question = Nil /\ s.result = Nil /\ s.note = Nil /\ s.reason = Nil
      BY <1>c, NilAssumption DEF SoundSession, QuestionMatchesState, ReasonMatchesState,
         NoteMatchesState, ArchiveReason
    <3>2. Nil \notin ArchiveReason
      BY NilAssumption
    <3> HIDE DEF fresh, previewed, t0, t1
    <3> QED
      BY <1>11, <1>12, <1>13, <1>c, <3>1, <3>2, SameSession DEF ArchiveReason, RestoredSession, t0, t1
  <2>2. preview(fresh, json.preview_result, t1) = {previewed}
    BY <1>6, <1>c DEF SoundSession, RequiredFilled
  <2> HIDE DEF fresh, previewed
  <2>3. Replay(json, {fresh}, t1) = UNION {preview(z, json.preview_result, t1) : z \in {fresh}}
    BY <1>1, <1>c DEF Replay, Then
  <2> QED
    BY <1>4, <1>8, <2>1, <2>2, <2>3 DEF json
<1> HIDE DEF confirmed, previewed, fresh
<1>d. CASE s.state = "commit"
  <2>1. confirmed = RestoredSession(s)
    <3>1. s.question = Nil /\ s.result = Nil /\ s.note = Nil /\ s.reason = Nil
      BY <1>d, NilAssumption DEF SoundSession, QuestionMatchesState, ReasonMatchesState,
         NoteMatchesState, ArchiveReason
    <3>2. Nil \notin ArchiveReason
      BY NilAssumption
    <3> QED
      BY <1>11, <1>12, <1>14, <1>d, <3>1, <3>2, SameSession DEF ArchiveReason, RestoredSession
  <2>2. preview(fresh, json.preview_result, t1) = {previewed}
    BY <1>6, <1>d DEF SoundSession, RequiredFilled, Approved
  <2>3. Replay(json, {fresh}, t1)
          = UNION {confirm(y, t1) : y \in UNION {preview(z, json.preview_result, t1) : z \in {fresh}}}
    BY <1>1, <1>d DEF Replay, Then
  <2> QED
    BY <1>4, <1>8, <1>9, <2>1, <2>2, <2>3 DEF json
<1>e. CASE s.state = "archive" /\ s.reason = "completed"
  <2> DEFINE done == at_t1([confirmed EXCEPT !.result = s.result, !.reason = "completed"], "archive")
  <2>1. complete(confirmed, json.result, t1) = {done}
    BY <1>1 DEF complete, Accepted, transition_to, confirmed, previewed, fresh
  <2>2. done = RestoredSession(s)
    <3>1. done \in IntentSession
      <4> HIDE DEF confirmed, t1
      <4> QED
        BY <1>10, <1>12 DEF IntentSession, SessionState, ArchiveReason
    <3>2. s.note = Nil
      BY <1>e DEF NoteMatchesState
    <3>3. /\ done.state = "archive" /\ done.reason = "completed" /\ done.result = s.result
          /\ done.owner = s.owner /\ done.slots = s.slots /\ done.ttl = s.ttl
          /\ done.created_at = t0 /\ done.updated_at = t1 /\ done.question = Nil
          /\ done.answer = Nil /\ done.preview_result = s.preview_result /\ done.note = Nil
      <4> HIDE DEF t0, t1
      <4> QED
        BY <1>12, <1>14 DEF IntentSession
    <3> HIDE DEF done
    <3> QED
      BY <1>11, <1>e, <3>1, <3>2, <3>3, SameSession DEF RestoredSession
  <2> HIDE DEF done
  <2>3. preview(fresh, json.preview_result, t1) = {previewed}
    BY <1>6, <1>e DEF SoundSession, RequiredFilled, Approved
  <2>4. UNION {complete(x, json.result, t1) : x \in {confirmed}} = {done}
    BY <2>1
  <2>5. Replay(json, {fresh}, t1)
          = UNION {complete(x, json.result, t1) :
                x \in UNION {confirm(y, t1) :
                    y \in UNION {preview(z, json.preview_result, t1) : z \in {fresh}}}}
    BY <1>1, <1>e DEF Replay, Then
  <2> QED
    BY <1>4, <1>8, <1>9, <2>2, <2>3, <2>4, <2>5 DEF json
<1>f. CASE s.state = "archive" /\ s.reason = "cancelled"
  <2> DEFINE cancelled == at_t1([fresh EXCEPT !.note = s.note, !.reason = "cancelled"], "archive")
  <2>1. cancel(fresh, json.note, t1) = {cancelled}
    BY <1>1 DEF cancel, is_terminal, Accepted, transition_to, fresh
  <2>2. cancelled = RestoredSession(s)
    <3>1. cancelled \in IntentSession
      <4> HIDE DEF fresh, t1
      <4> QED
        BY <1>10, <1>11 DEF IntentSession, SessionState, ArchiveReason
    <3> QED
      BY <1>11, <3>1, SameSession, <1>f DEF SoundSession, ReasonMatchesState, RestoredSession, fresh
  <2> HIDE DEF cancelled
  <2>3. UNION {cancel(z, json.note, t1) : z \in {fresh}} = {cancelled}
    BY <2>1
  <2>4. Replay(json, {fresh}, t1) = UNION {cancel(z, json.note, t1) : z \in {fresh}}
    BY <1>1, <1>f DEF Replay, Then
  <2> QED
    BY <1>4, <2>2, <2>3, <2>4 DEF json
<1>g. CASE s.state = "archive" /\ s.reason = "expired"
  <2> DEFINE expired == at_t1([fresh EXCEPT !.reason = "expired"], "archive")
  <2>1. expire(fresh, t1) = {expired}
    BY DEF expire, is_terminal, Accepted, transition_to, fresh
  <2>2. expired = RestoredSession(s)
    <3>1. expired \in IntentSession
      <4> HIDE DEF fresh, t1
      <4> QED
        BY <1>10, <1>11 DEF IntentSession, SessionState, ArchiveReason
    <3> QED
      BY <1>11, <3>1, <1>g, SameSession
      DEF SoundSession, ReasonMatchesState, NoteMatchesState, RestoredSession, fresh
  <2> HIDE DEF expired
  <2>3. UNION {expire(z, t1) : z \in {fresh}} = {expired}
    BY <2>1
  <2>4. Replay(json, {fresh}, t1) = UNION {expire(z, t1) : z \in {fresh}}
    BY <1>1, <1>g DEF Replay, Then
  <2> QED
    BY <1>4, <2>2, <2>3, <2>4 DEF json
<1>h. \/ s.state \in {"fill", "clarification", "preview", "commit"}
      \/ s.state = "archive" /\ s.reason \in {"completed", "cancelled", "expired"}
  BY DEF IntentSession, SessionState, ArchiveReason, SoundSession, ReasonMatchesState
<1> QED
  BY <1>h, <1>a, <1>b, <1>c, <1>d, <1>e, <1>f, <1>g DEF json

-----------------------------------------------------------------------------
(* What comes back is again a sound session, no later than what was saved. *)
LEMMA RestoredSound ==
    ASSUME NEW s \in IntentSession, SoundSession(s), NoteMatchesState(s),
           s.created_at <= s.updated_at
    PROVE  LET r == RestoredSession(s) IN
           /\ r \in IntentSession /\ SoundSession(r) /\ NoteMatchesState(r)
           /\ r.created_at <= r.updated_at
           /\ r.updated_at <= s.updated_at
           /\ r.created_at <= s.created_at /\ s.created_at < r.created_at + Micro
<1> DEFINE r  == RestoredSession(s)
           t0 == from_us(to_us(s.created_at))
           t1 == from_us(to_us(s.updated_at))
<1>1. /\ t0 \in Nat /\ t0 <= s.created_at /\ s.created_at < t0 + Micro
      /\ t1 \in Nat /\ t1 <= s.updated_at /\ t0 <= t1
      /\ s.created_at \in Nat /\ s.updated_at \in Nat
  BY Truncation, TruncationOrder DEF IntentSession
<1>2. /\ r.state = s.state /\ r.slots = s.slots /\ r.reason = s.reason
      /\ r.result = s.result /\ r.note = s.note
      /\ r.question = IF s.state = "archive" THEN Nil ELSE s.question
      /\ r.preview_result = IF s.reason \in {"cancelled", "expired"} THEN Nil
                             ELSE s.preview_result
      /\ r.created_at = t0 /\ r.updated_at = IF s.state = "fill" THEN t0 ELSE t1
  BY DEF RestoredSession
<1>3. r \in IntentSession
  <2> HIDE DEF t0, t1
  <2> QED
    BY <1>1 DEF RestoredSession, IntentSession, t0, t1
<1> HIDE DEF r, t0, t1
<1>4. /\ r.created_at <= r.updated_at /\ r.updated_at <= s.updated_at
      /\ r.created_at <= s.created_at /\ s.created_at < r.created_at + Micro
  BY <1>1, <1>2, MicroAssumption
<1>5. RequiredFilled(r)
  BY <1>2 DEF SoundSession, RequiredFilled, Approved, all_required_slots_filled
<1>6. ShownIsCurrent(r)
  <2>1. s.state = "preview" => s.reason \notin {"cancelled", "expired"}
    BY NilAssumption DEF SoundSession, ReasonMatchesState, ArchiveReason
  <2>2. s.state = "commit" => s.reason \notin {"cancelled", "expired"}
    BY NilAssumption DEF SoundSession, ReasonMatchesState, ArchiveReason
  <2> QED
    BY <1>2, <2>1, <2>2 DEF SoundSession, ShownIsCurrent, Approved
<1>7. NoStalePreview(r) /\ QuestionMatchesState(r) /\ ReasonMatchesState(r)
  BY <1>2, NilAssumption DEF SoundSession, NoStalePreview, QuestionMatchesState,
     ReasonMatchesState
<1>8. NoteMatchesState(r)
  BY <1>2 DEF NoteMatchesState
<1> QED
  BY <1>3, <1>4, <1>5, <1>6, <1>7, <1>8 DEF SoundSession, r

-----------------------------------------------------------------------------
(* The invariant of a session with restarts: a note has to be known to     *)
(* belong to a cancelled session, because the replay of the other arms     *)
(* would drop it.                                                          *)
RestartInv == SessionInv /\ NoteMatchesState(session)

LEMMA InitRestartInv == Init => RestartInv
  BY InitInv DEF RestartInv, Init, create, Accepted, NoteMatchesState

LEMMA StepNote ==
    ASSUME RestartInv, [Next]_vars
    PROVE  NoteMatchesState(session')
<1> USE DEF RestartInv, SessionInv, TypeOK, IntentSession, NoteMatchesState, Accepted,
           transition_to
<1>1. CASE RequestClarification
  BY <1>1 DEF RequestClarification, request_clarification
<1>2. CASE AcceptClarification
  BY <1>2 DEF AcceptClarification, accept_clarification
<1>3. CASE FillSlot
  BY <1>3 DEF FillSlot, fill_slot
<1>4. CASE Preview
  BY <1>4 DEF Preview, preview
<1>5. CASE RejectPreview
  BY <1>5 DEF RejectPreview, reject_preview
<1>6. CASE Confirm
  BY <1>6 DEF Confirm, confirm
<1>7. CASE Complete
  BY <1>7, NilAssumption DEF Complete, complete, SoundSession, ReasonMatchesState, ArchiveReason
<1>8. CASE Cancel
  BY <1>8 DEF Cancel, cancel
<1>9. CASE Expire
  BY <1>9, NilAssumption DEF Expire, expire, is_terminal, SoundSession, ReasonMatchesState,
     ArchiveReason
<1>10. CASE Tick \/ UNCHANGED vars
  BY <1>10 DEF Tick, vars
<1> QED
  BY <1>1, <1>2, <1>3, <1>4, <1>5, <1>6, <1>7, <1>8, <1>9, <1>10 DEF Next

LEMMA RestartExact ==
    ASSUME RestartInv, Restart
    PROVE  session' = RestoredSession(session) /\ now' = now
  BY ReplayIsExact DEF RestartInv, SessionInv, TypeOK, Restart

LEMMA StepRestartInv == RestartInv /\ [Next \/ Restart]_vars => RestartInv'
<1> SUFFICES ASSUME RestartInv, [Next \/ Restart]_vars PROVE RestartInv'
  OBVIOUS
<1>1. CASE [Next]_vars
  <2>1. SessionInv'
    BY <1>1, StepInv DEF RestartInv
  <2>2. NoteMatchesState(session')
    BY <1>1, StepNote
  <2> QED
    BY <2>1, <2>2 DEF RestartInv, NoteMatchesState
<1>2. CASE Restart
  <2>1. session' = RestoredSession(session) /\ now' = now
    BY <1>2, RestartExact
  <2>2. /\ session' \in IntentSession /\ SoundSession(session') /\ NoteMatchesState(session')
        /\ session'.created_at <= session'.updated_at
        /\ session'.updated_at <= session.updated_at
    BY <2>1, RestoredSound DEF RestartInv, SessionInv, TypeOK
  <2>3. TypeOK'
    BY <2>1, <2>2 DEF RestartInv, SessionInv, TypeOK, IntentSession
  <2> QED
    BY <2>2, <2>3 DEF RestartInv, SessionInv, NoteMatchesState, SoundSession, RequiredFilled,
       ShownIsCurrent, NoStalePreview, QuestionMatchesState, ReasonMatchesState, Approved,
       all_required_slots_filled, Params, is_filled
<1> QED
  BY <1>1, <1>2 DEF vars

LEMMA RestartInvariant == SpecWithRestarts => []RestartInv
<1> QED
  BY InitRestartInv, StepRestartInv, PTL DEF SpecWithRestarts

(* However often a session is saved and restored between its operations,   *)
(* it stays one that the aggregate could have reached in one process.      *)
THEOREM RestartsKeepSessionsSound == SpecWithRestarts => []SessionInv
<1>1. RestartInv => SessionInv
  BY DEF RestartInv
<1> QED
  BY <1>1, RestartInvariant, PTL

(* parse_session_json refuses no session that any sequence of calls and    *)
(* restarts produces, and gives back everything the session is kept for.   *)
THEOREM AlwaysRestoredAsSaved == SpecWithRestarts => []RestoredAsSaved
<1>1. ASSUME RestartInv PROVE RestoredAsSaved
  <2>1. parse_session_json(serialize_session_json(session)) = {RestoredSession(session)}
    BY <1>1, ReplayIsExact DEF RestartInv, SessionInv, TypeOK
  <2>2. Kept(RestoredSession(session)) = Kept(session)
    BY DEF Kept, RestoredSession
  <2> HIDE DEF RestoredSession, Kept
  <2> QED
    BY <2>1, <2>2 DEF RestoredAsSaved
<1> QED
  BY <1>1, RestartInvariant, PTL

(* No restart gives a session a longer life, or takes more than one        *)
(* microsecond from it.                                                    *)
THEOREM DeadlineAlwaysKept == SpecWithRestarts => []DeadlineKept
<1>1. ASSUME RestartInv PROVE DeadlineKept
  <2>1. parse_session_json(serialize_session_json(session)) = {RestoredSession(session)}
    BY <1>1, ReplayIsExact DEF RestartInv, SessionInv, TypeOK
  <2>2. LET r == RestoredSession(session) IN
        /\ r.created_at <= session.created_at
        /\ session.created_at < r.created_at + Micro
        /\ r.updated_at <= session.updated_at
    BY <1>1, RestoredSound DEF RestartInv, SessionInv, TypeOK
  <2> QED
    BY <2>1, <2>2 DEF DeadlineKept
<1> QED
  BY <1>1, RestartInvariant, PTL

(* A restart is invisible to the approval dialogue.                        *)
LEMMA RestartStutters ==
    ASSUME RestartInv, Restart
    PROVE  UNCHANGED Approval!vars
<1>1. session' = RestoredSession(session)
  BY RestartExact
<1>2. session'.state = session.state /\ session'.reason = session.reason
      /\ session'.slots = session.slots
  BY <1>1 DEF RestoredSession
<1>3. ApprovalPhase' = ApprovalPhase
  BY <1>2 DEF ApprovalPhase
<1>4. ApprovalPhase \in {"offered", "approved", "executed"}
        => session'.preview_result = session.preview_result
  <2>1. ApprovalPhase \in {"offered", "approved", "executed"}
          => session.reason \notin {"cancelled", "expired"}
    BY PhaseOf, NilAssumption DEF RestartInv, SessionInv, SoundSession, ReasonMatchesState,
       ArchiveReason
  <2> QED
    BY <1>1, <2>1 DEF RestoredSession
<1> QED
  BY <1>2, <1>3, <1>4, SameParams DEF Approval!vars

(* With restarts between any two operations, still only complete,          *)
(* displayed and approved parameters are executed.                         *)
THEOREM RestartsRefineApproval == SpecWithRestarts => ImplementsApproval
<1>1. RestartInv /\ [Next \/ Restart]_vars => [Approval!Next]_(Approval!vars)
  <2> SUFFICES ASSUME RestartInv, [Next \/ Restart]_vars
               PROVE  [Approval!Next]_(Approval!vars)
    OBVIOUS
  <2>1. CASE [Next]_vars
    BY <2>1, StepApproval DEF RestartInv
  <2>2. CASE Restart
    BY <2>2, RestartStutters
  <2> QED
    BY <2>1, <2>2 DEF vars
<1>2. SpecWithRestarts => Approval!Init /\ [][Approval!Next]_(Approval!vars)
  BY <1>1, InitApproval, RestartInvariant, PTL DEF SpecWithRestarts
<1> QED
  BY <1>2 DEF ImplementsApproval, Approval!Spec
=============================================================================
