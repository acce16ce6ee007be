----------------------------- MODULE SessionJson -----------------------------
(***************************************************************************)
(* A session that outlives its process: serialize_session_json before the  *)
(* process ends, parse_session_json in the next one.  The parser does not  *)
(* restore fields; it creates a new session and replays the shortest       *)
(* sequence of operations that leads to the stored state (ADR-0007).  A    *)
(* session saved earlier and restored later is one that restarts at once   *)
(* and then waits, because the parser does not look at the clock.          *)
(***************************************************************************)
EXTENDS SessionLifecycle

CONSTANT Micro  \* clock ticks per microsecond, the resolution of the JSON

ASSUME MicroAssumption == Micro \in Nat \ {0}

(* duration_cast to microseconds truncates.                                *)
to_us(time) == time \div Micro

from_us(us) == us * Micro

(* Faulty variant: the values of the slots are not written.                *)
serialize_without_values(s) ==
    [s EXCEPT !.created_at = to_us(@), !.updated_at = to_us(@),
              !.slots = [i \in DOMAIN s.slots |-> [s.slots[i] EXCEPT !.value = Nil]]]

(* The object that is written: empty texts are left out, and read back as  *)
(* empty.                                                                  *)
serialize_session_json(s) ==
    [s EXCEPT !.created_at = to_us(@), !.updated_at = to_us(@)]

(* The outcomes of Op on each of the sessions, none if it is refused.      *)
Then(sessions, Op(_)) == UNION {Op(s) : s \in sessions}

(* The switch of parse_session_json on the stored state.                   *)
Replay(json, fresh, updated_at) ==
    LET Preview_(s) == preview(s, json.preview_result, updated_at)
        Confirm_(s) == confirm(s, updated_at)
    IN  CASE json.state = "fill" -> fresh
          [] json.state = "clarification" ->
                 Then(fresh, LAMBDA s : request_clarification(s, json.question, updated_at))
          [] json.state = "preview" -> Then(fresh, Preview_)
          [] json.state = "commit" -> Then(Then(fresh, Preview_), Confirm_)
          [] json.state = "archive" /\ json.reason = "completed" ->
                 Then(Then(Then(fresh, Preview_), Confirm_),
                      LAMBDA s : complete(s, json.result, updated_at))
          [] json.state = "archive" /\ json.reason = "cancelled" ->
                 Then(fresh, LAMBDA s : cancel(s, json.note, updated_at))
          [] json.state = "archive" /\ json.reason = "expired" -> Then(fresh, LAMBDA s : expire(s, updated_at))

(* Faulty variant: the lifetime starts again with the last change.         *)
parse_renewed(json) ==
    Replay(json, create(json.owner, json.slots, from_us(json.updated_at), json.ttl),
           from_us(json.updated_at))

parse_session_json(json) ==
    Replay(json, create(json.owner, json.slots, from_us(json.created_at), json.ttl),
           from_us(json.updated_at))

Restart ==
    /\ session' \in parse_session_json(serialize_session_json(session))
    /\ UNCHANGED now

SpecWithRestarts == Init /\ [][Next \/ Restart]_vars

-----------------------------------------------------------------------------
(* What a restart must not change: everything later operations and the     *)
(* record of the outcome depend on.  Lost are the answer to a clarification*)
(* and, of a cancelled or expired session, its question and its preview.   *)
Kept(s) ==
    [owner |-> s.owner, state |-> s.state, slots |-> s.slots, ttl |-> s.ttl,
     reason |-> s.reason, result |-> s.result, note |-> s.note,
     question |-> IF s.state = "archive" THEN Nil ELSE s.question,
     preview_result |-> IF s.reason \in {"cancelled", "expired"} THEN Nil ELSE s.preview_result]

(* Every session that any sequence of calls can produce is accepted by the *)
(* parser - no replayed operation is refused - and comes back as the same  *)
(* session, ready to be continued.                                         *)
RestoredAsSaved ==
    LET restored == parse_session_json(serialize_session_json(session))
    IN  restored # {} /\ \A s \in restored : Kept(s) = Kept(session)

(* A restart neither prolongs a session nor shortens it by more than the   *)
(* resolution of the JSON, and never moves its last change forward.        *)
DeadlineKept ==
    \A s \in parse_session_json(serialize_session_json(session)) :
        /\ s.created_at <= session.created_at
        /\ session.created_at < s.created_at + Micro
        /\ s.updated_at <= session.updated_at
=============================================================================
