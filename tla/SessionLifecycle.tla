-------------------------- MODULE SessionLifecycle --------------------------
(***************************************************************************)
(* One IntentSession object driven by an arbitrary caller: any operation   *)
(* of the aggregate, in any order, with any argument, at any time.  The    *)
(* caller's clock only moves forward.                                      *)
(***************************************************************************)
EXTENDS SessionAggregate

CONSTANTS
    SlotLists,  \* the slot vectors a session can be created with
    Ttls,       \* the lifetimes a session can be created with
    Starts,     \* the times at which it can be created
    MaxTime     \* bound on the clock

ASSUME LifecycleAssumption ==
    /\ SlotLists \subseteq Seq(SlotDraft)
    /\ Ttls \subseteq Nat
    /\ Starts \subseteq Nat
    /\ MaxTime \in Nat

VARIABLES session, now

vars == <<session, now>>

Init ==
    /\ now \in Starts
    /\ \E owner \in Owners, slots \in SlotLists, ttl \in Ttls :
           session \in create(owner, slots, now, ttl)

RequestClarification ==
    /\ \E q \in Texts \cup {Nil} : session' \in request_clarification(session, q, now)
    /\ UNCHANGED now

AcceptClarification ==
    /\ \E a \in Texts \cup {Nil} : session' \in accept_clarification(session, a, now)
    /\ UNCHANGED now

FillSlot ==
    /\ \E n \in SlotNames, v \in Values \cup {Nil} :
           session' \in fill_slot(session, n, v, now)
    /\ UNCHANGED now

(* The caller runs the action dry on the session's parameters and stores   *)
(* the outcome with the preview.                                           *)
Preview ==
    /\ session' \in preview(session, Params(session.slots), now)
    /\ UNCHANGED now

RejectPreview ==
    /\ session' \in reject_preview(session, now)
    /\ UNCHANGED now

Confirm ==
    /\ session' \in confirm(session, now)
    /\ UNCHANGED now

Complete ==
    /\ \E r \in Texts \cup {Nil} : session' \in complete(session, r, now)
    /\ UNCHANGED now

Cancel ==
    /\ \E n \in Texts \cup {Nil} : session' \in cancel(session, n, now)
    /\ UNCHANGED now

Expire ==
    /\ session' \in expire(session, now)
    /\ UNCHANGED now

Tick ==
    /\ now < MaxTime
    /\ now' = now + 1
    /\ UNCHANGED session

Next ==
    \/ RequestClarification \/ AcceptClarification \/ FillSlot
    \/ Preview \/ RejectPreview \/ Confirm \/ Complete
    \/ Cancel \/ Expire \/ Tick

Spec == Init /\ [][Next]_vars

-----------------------------------------------------------------------------
(* Type correctness of the session object and the clock; timestamps never  *)
(* run ahead of the clock.                                                 *)
TypeOK ==
    /\ session \in IntentSession
    /\ now \in Nat
    /\ session.created_at <= session.updated_at /\ session.updated_at <= now

(* session.hpp never shows, executes or completes a session with an empty  *)
(* required slot, however the caller interleaves fills, rejections and     *)
(* previews.                                                               *)
RequiredFilledInv == RequiredFilled(session)

(* What is committed is what the operator saw in the preview: no sequence  *)
(* of calls lets a slot change between preview() and complete().           *)
ShownIsCurrentInv == ShownIsCurrent(session)

(* Questions, dry-run results, reasons and results never outlive the state *)
(* they belong to (ADR-0007: invalid combinations are unrepresentable).    *)
NoLeftovers ==
    /\ NoStalePreview(session)
    /\ QuestionMatchesState(session)
    /\ ReasonMatchesState(session)

(* The session is what the state machine says, however it got there: the   *)
(* type and everything SoundSession names.  This is the inductive one.     *)
SessionInv == TypeOK /\ SoundSession(session)

(* The transition table of the SessionState comment, session.hpp:38-43.    *)
DocumentedTransitions ==
    {<<"fill", "clarification">>, <<"fill", "preview">>, <<"fill", "archive">>,
     <<"clarification", "fill">>, <<"clarification", "archive">>,
     <<"preview", "fill">>, <<"preview", "commit">>, <<"preview", "archive">>,
     <<"commit", "archive">>}

(* What an archive is kept for.                                            *)
Record(s) == [owner |-> s.owner, state |-> s.state, slots |-> s.slots,
              reason |-> s.reason, result |-> s.result, note |-> s.note]

(* Every state change is one of the documented ones, and once archived not *)
(* only the state but the whole record is final.                           *)
FollowsTransitionTable ==
    [][/\ session'.state # session.state
              => <<session.state, session'.state>> \in DocumentedTransitions
       /\ session.state = "archive" => Record(session') = Record(session)]_vars

-----------------------------------------------------------------------------
(* Refinement: the session seen as the approval dialogue. *)
ApprovalPhase ==
    CASE session.state \in {"fill", "clarification"}                    -> "open"
      [] session.state = "preview"                                      -> "offered"
      [] session.state = "commit"                                       -> "approved"
      [] session.state = "archive" /\ session.reason = "completed"      -> "executed"
      [] session.state = "archive" /\ session.reason # "completed"      -> "closed"

Approval == INSTANCE OperatorApproval WITH
    phase  <- ApprovalPhase,
    params <- [i \in DOMAIN session.slots |->
                  [required |-> session.slots[i].required,
                   value    |-> session.slots[i].value]],
    offer  <- IF ApprovalPhase \in {"offered", "approved", "executed"}
              THEN session.preview_result ELSE Nil

(* The aggregate keeps the promise of OperatorApproval: asking for and     *)
(* accepting clarifications are invisible to it, every other operation is  *)
(* one of its steps.                                                       *)
ImplementsApproval == Approval!Spec
=============================================================================
