---------------------------- MODULE OperatorPage ----------------------------
(***************************************************************************)
(* An operator before a page with a slot form, a session preview and a     *)
(* confirm button, bound through an adapter to a session on a server.      *)
(* Commands and snapshots travel in order on one connection; a command     *)
(* names the session and nothing else of what the operator was looking at. *)
(*                                                                         *)
(* The server behind the WebSocket and the host page are not part of the   *)
(* repository.  The server applies each command to the aggregate and sends *)
(* the snapshot of every change.  The host shows the form in fill and the  *)
(* preview in preview, passes their events on to the adapter, and has a    *)
(* confirm button that is there from the beginning ("standing") or made    *)
(* for each preview ("per_preview"), with its attributes set before the    *)
(* element is inserted or after it.                                        *)
(***************************************************************************)
EXTENDS SessionView, ConfirmButton

CONSTANTS
    SlotLists,   \* slot lists of the action's sessions
    Setups,      \* combinations of adapter, confirmation mode and host that occur
    MaxCommands, \* bound on commands on their way
    MaxUpdates   \* bound on snapshots on their way

(* What a preview shows.                                                   *)
Screen == [rows : SUBSET (SlotNames \X Values), result : Seq(Values \cup {Nil})]

ASSUME PageAssumption ==
    /\ SlotLists \subseteq Seq(SlotDraft)
    /\ Nil \notin Snapshot \cup Screen
    /\ Setups \subseteq [adapter : Adapters, mode : ConfirmationModes,
                        host : {"standing", "per_preview"}, late : BOOLEAN]
    /\ MaxCommands \in Nat \ {0} /\ MaxUpdates \in Nat \ {0}

VARIABLES
    session,   \* server: the IntentSession
    mode,      \* server: the confirmation mode of its action
    commands,  \* messages to the server
    updates,   \* messages to the client
    host,      \* what kind of host it is
    button     \* its <aui-confirm-button>

server_vars == <<session, mode, updates>>
vars == <<view_vars, server_vars, commands, host, button>>

(* Time stands still; sessions expire when the server says so.             *)
Now == 0

Command ==
    [op     : {"fill_slot", "preview", "confirm", "reject_preview", "cancel"},
     slot   : SlotNames \cup {Nil},
     value  : Values \cup {Nil},
     source : {"adapter", "preview", "button"},
     seen   : Screen \cup {Nil}]

Previewed(snapshot) == IF snapshot = Nil THEN FALSE ELSE snapshot.state = "preview"

Filling(snapshot) == IF snapshot = Nil THEN FALSE ELSE snapshot.state = "fill"

message(op, slot, value, source, screen) ==
    [op |-> op, slot |-> slot, value |-> value, source |-> source,
     seen |-> IF Previewed(screen) THEN PreviewOf(screen) ELSE Nil]

-----------------------------------------------------------------------------
(* The host *)

(* setAttribute of the mode, before the element is inserted or after it.   *)
with_mode(b) == attributeChangedCallback(b, [b EXCEPT !.mode = mode])

inserted(b) == IF host.late THEN with_mode(connectedCallback(b)) ELSE connectedCallback(with_mode(b))

(* A button that confirms itself does so before anything else happens.     *)
automatic(b, screen) ==
    IF ~host.late /\ confirmsItself(with_mode(b))
    THEN <<message("confirm", Nil, Nil, "button", screen)>> ELSE <<>>

(* The page after the component has rendered.                              *)
HostReacts ==
    LET made == Previewed(shown') /\ ~Previewed(shown)
    IN  /\ button' = IF host.kind = "standing" \/ Previewed(shown') = Previewed(shown) THEN button
                     ELSE IF made THEN inserted(host.element) ELSE host.element
        /\ commands' = IF host.kind = "per_preview" /\ made
                       THEN commands \o automatic(host.element, shown') ELSE commands
        /\ Len(commands') <= MaxCommands + 1

Init ==
    /\ \E setup \in Setups :
           /\ mode = setup.mode
           /\ ViewInit(setup.adapter)
           /\ host \in [kind : {setup.host}, late : {setup.late},
                        element : {element(CHOOSE p \in Phrases : TRUE, c) :
                            c \in IF mode = "cooling_off" THEN Coolings \cup {NaN} ELSE {NaN}}]
    /\ \E slots \in SlotLists, o \in Owners : session \in create(o, slots, Now, 1)
    /\ updates = <<make_snapshot(session, mode)>>
    /\ button = IF host.kind = "standing" THEN inserted(host.element) ELSE host.element
    /\ commands = IF host.kind = "standing" THEN automatic(host.element, Nil) ELSE <<>>

-----------------------------------------------------------------------------
(* The server *)

Results(c) ==
    CASE c.op = "fill_slot" -> fill_slot(session, c.slot, c.value, Now)
      [] c.op = "preview" -> preview(session, Params(session.slots), Now)
      [] c.op = "confirm" -> confirm(session, Now)
      [] c.op = "reject_preview" -> reject_preview(session, Now)
      [] c.op = "cancel" -> cancel(session, Nil, Now)

Changed(results) ==
    /\ Len(updates) < MaxUpdates
    /\ session' \in results
    /\ updates' = Append(updates, make_snapshot(session', mode))
    /\ UNCHANGED <<mode, view_vars, host, button>>

(* A refused command changes nothing; its error message decides nothing.   *)
Serve ==
    /\ commands # <<>>
    /\ commands' = Tail(commands)
    /\ LET results == Results(Head(commands))
       IN  \/ Changed(results)
           \/ results = {} /\ UNCHANGED <<view_vars, server_vars, host, button>>

(* The engine asks for a clarification or has its answer, the action is    *)
(* done, or time is up.                                                    *)
Proceed ==
    /\ Changed(UNION ({request_clarification(session, q, Now) : q \in Texts}
                      \cup {accept_clarification(session, Nil, Now),
                            complete(session, Nil, Now), expire(session, Now)}))
    /\ UNCHANGED commands

-----------------------------------------------------------------------------
(* The page *)

Deliver ==
    /\ updates # <<>>
    /\ update(Head(updates))
    /\ updates' = Tail(updates)
    /\ HostReacts
    /\ UNCHANGED <<session, mode, host>>

Render ==
    /\ Mount \/ Unmount \/ Rerender
    /\ HostReacts
    /\ UNCHANGED <<server_vars, host>>

send(op, slot, value, source) ==
    /\ Len(commands) < MaxCommands
    /\ commands' = Append(commands, message(op, slot, value, source, shown))
    /\ UNCHANGED <<view_vars, server_vars, host>>

fillSlot(name, value) ==
    /\ Filling(shown) /\ \E i \in DOMAIN shown.slots : shown.slots[i].name = name
    /\ send("fill_slot", name, value, "adapter")
    /\ UNCHANGED button

Continue ==
    /\ Filling(shown) /\ allFilled(shown.slots)
    /\ send("preview", Nil, Nil, "adapter")
    /\ UNCHANGED button

Decide(op) ==
    /\ Previewed(shown)
    /\ send(op, Nil, Nil, "preview")
    /\ UNCHANGED button

Cancel == shown # Nil /\ send("cancel", Nil, Nil, "adapter") /\ UNCHANGED button

(* The adapter is called for a session id, whatever the component shows.   *)
ClickConfirm ==
    /\ button.connected /\ button.enabled /\ button.click = "confirm"
    /\ send("confirm", Nil, Nil, "button")
    /\ UNCHANGED button

ButtonOnly(b) == button' = b /\ UNCHANGED <<view_vars, server_vars, commands, host>>

ClickSend ==
    /\ button.connected /\ button.enabled /\ button.click = "send"
    /\ ButtonOnly(sent(button))

Type(text) == CanType(button) /\ ButtonOnly(typed(button, text))

(* Attributes change where they matter to the mode; the cooling-off period *)
(* is read once, when the element is connected.                            *)
Attribute ==
    /\ button.connected
    /\ \E b \in {[button EXCEPT !.disabled = ~@]}
            \cup {[button EXCEPT !.phrase = p] : p \in IF mode = "typed" THEN Phrases ELSE {}}
            \cup {[button EXCEPT !.pending = ~@] : p \in {mode} \cap {"multi_party"}} :
           ButtonOnly(attributeChangedCallback(button, b))

(* The host moves the element to another place.                            *)
Move == button.connected /\ ButtonOnly(connectedCallback(disconnectedCallback(button)))

(* A second passes, and the browser runs the timer's callback or is late.  *)
Waited == IF button.waited < Patience THEN button.waited + 1 ELSE button.waited

Tick == button.timer /\ ButtonOnly([ticked(button) EXCEPT !.waited = Waited])

Late == button.timer /\ ButtonOnly([button EXCEPT !.waited = Waited])

Next ==
    \/ Serve \/ Proceed \/ Deliver \/ Render
    \/ \E n \in SlotNames, v \in Values : fillSlot(n, v)
    \/ Continue \/ Decide("confirm") \/ Decide("reject_preview") \/ Cancel
    \/ ClickConfirm \/ ClickSend \/ Attribute \/ Move \/ Tick \/ Late
    \/ \E text \in Phrases \cup {NoText} : Type(text)

Spec == Init /\ [][Next]_vars

(* The event loop runs the timer's callback.                               *)
FairSpec == Spec /\ WF_vars(Tick)

-----------------------------------------------------------------------------
TypeOK ==
    /\ session \in IntentSession /\ mode \in ConfirmationModes
    /\ commands \in Seq(Command) /\ Len(commands) <= MaxCommands + 1
    /\ updates \in Seq(Snapshot) /\ Len(updates) <= MaxUpdates
    /\ view \in Snapshot \cup {Nil} /\ copy \in Snapshot \cup {Nil} /\ shown \in Snapshot \cup {Nil}
    /\ adapter \in Adapters /\ mounted \in BOOLEAN /\ held \in {"none", "null", "live", "copy"}
    /\ button \in Button

(* ADR-0010, "fires change events so framework adapters can re-render on    *)
(* state transitions": a component that subscribed to the session shows    *)
(* what the server has, once nothing is on its way.                        *)
ShowsTheSession ==
    updates = <<>> /\ mounted /\ held \in {"live", "copy"} => shown = make_snapshot(session, mode)

(* A preview the form asks for is never refused for want of a value, even  *)
(* with values on their way.                                               *)
ContinueIsComplete ==
    \A i \in DOMAIN commands :
        (commands[i].op = "preview" /\ session.state = "fill") => all_required_slots_filled(session)

(* Types; adapters that keep up show the session as it is, a button made   *)
(* for a preview is there exactly with it, and what looks usable works.    *)
PageInv ==
    /\ TypeOK
    /\ adapter \in {"listener", "angular"} => ShowsTheSession
    /\ ContinueIsComplete
    /\ host.kind = "per_preview" => button.connected = Previewed(shown)
    /\ UsableWorks(button)

(* What is committed was on screen, as it is, when confirm was clicked; a   *)
(* button that is there all the time can confirm when no preview is.       *)
SeenIsCommitted ==
    [][(/\ adapter \in {"listener", "angular"}
        /\ session.state # "commit" /\ session'.state = "commit")
       => IF Head(commands).seen = Nil THEN host.kind = "standing"
          ELSE Head(commands).seen = PreviewOf(make_snapshot(session, mode))]_vars

(* No confirmation leaves the button before the phrase is typed or the     *)
(* countdown it was connected with is over.                                *)
ConfirmationEarned == [][ClickConfirm => Earned(button)]_vars

(* A countdown ends in a button that confirms, unless the element was taken *)
(* off the page on the way; then it stands still.                          *)
CooldownEnds ==
    (button.timer /\ button.remaining # NaN)
        ~> \/ button.click = "confirm" \/ ~button.connected
           \/ ~button.timer /\ button.remaining # 0
=============================================================================
