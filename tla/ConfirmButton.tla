--------------------------- MODULE ConfirmButton ---------------------------
(***************************************************************************)
(* <aui-confirm-button> of packages/web-components as a record and what    *)
(* the callbacks of the element, its listeners and its timer make of it.   *)
(* What is on screen is part of it: the text in the input field, whether   *)
(* the button can be clicked and what its listener does.                   *)
(*                                                                         *)
(* due and waited are history: the cooling-off period a countdown was      *)
(* started for, and the seconds since the element was connected, up to     *)
(* Patience.                                                               *)
(***************************************************************************)
EXTENDS Integers, FiniteSetsExt

CONSTANTS
    Phrases,   \* values of typed-phrase
    Coolings,  \* values of cooling-seconds that parse as integers
    NaN,       \* what parseInt makes of any other
    Patience   \* bound on the seconds counted, no shorter than any period

NoText == ""  \* the empty input field

ASSUME ButtonAssumption ==
    /\ Phrases # {} /\ NoText \notin Phrases
    /\ Coolings \subseteq Int /\ NaN \notin Int
    /\ Patience \in Nat /\ \A c \in Coolings : c <= Patience

Button ==
    [mode      : {"automatic", "single", "typed", "multi_party", "cooling_off"},
     phrase    : Phrases,
     cooling   : Coolings \cup {NaN},
     pending   : BOOLEAN,
     disabled  : BOOLEAN,
     connected : BOOLEAN,
     shadow    : BOOLEAN,
     remaining : 0..Patience \cup Coolings \cup {NaN},
     timer     : BOOLEAN,
     input     : Phrases \cup {NoText},
     enabled   : BOOLEAN,
     click     : {"confirm", "send", "none"},
     due       : 0..Patience \cup Coolings \cup {NaN},
     waited    : 0..Patience]

element(phrase, cooling) ==
    [mode |-> "single", phrase |-> phrase, cooling |-> cooling, pending |-> FALSE,
     disabled |-> FALSE, connected |-> FALSE, shadow |-> FALSE, remaining |-> 0,
     timer |-> FALSE, input |-> NoText, enabled |-> FALSE, click |-> "none",
     due |-> 0, waited |-> 0]

(* NaN > 0 is false.                                                       *)
Positive(n) == n # NaN /\ n > 0

(* What the template of each mode makes of the button ...                  *)
Enabled(b) ==
    /\ ~b.disabled /\ b.mode \notin {"automatic", "typed"}
    /\ b.mode = "multi_party" => ~b.pending
    /\ b.mode = "cooling_off" => ~Positive(b.remaining)

(* ... and which listener it gets.                                         *)
OnClick(b) ==
    CASE b.mode \in {"single", "typed"} -> "confirm"
      [] b.mode = "cooling_off" -> IF b.remaining = 0 THEN "confirm" ELSE "none"
      [] b.mode = "multi_party" -> IF b.pending THEN "none" ELSE "send"
      [] b.mode = "automatic" -> "none"

(* innerHTML is replaced, with the text typed so far, and listeners are    *)
(* attached to what is there now.                                          *)
render(b) == [b EXCEPT !.input = NoText, !.enabled = Enabled(b), !.click = OnClick(b)]

startCooldown(b) ==
    [render([b EXCEPT !.remaining = b.cooling]) EXCEPT !.timer = TRUE, !.due = b.cooling]

stopCooldown(b) == [b EXCEPT !.timer = FALSE]

(* The second time, attachShadow() throws and nothing else happens.        *)
connectedCallback(b) ==
    LET first == render([b EXCEPT !.connected = TRUE, !.shadow = TRUE])
    IN  CASE b.shadow -> [b EXCEPT !.connected = TRUE]
          [] ~b.shadow /\ b.mode = "cooling_off" -> startCooldown(first)
          [] ~b.shadow /\ b.mode # "cooling_off" -> first

(* queueMicrotask: the first connection of an automatic button confirms.   *)
confirmsItself(b) == ~b.shadow /\ b.mode = "automatic"

disconnectedCallback(b) == stopCooldown([b EXCEPT !.connected = FALSE])

(* Faulty variant: the new attribute is not rendered.                      *)
attributeChangedCallback_unrendered(b, changed) == changed

(* changed is the element with the new attribute and its field.            *)
attributeChangedCallback(b, changed) == IF b.shadow THEN render(changed) ELSE changed

(* Faulty variant: at the end the timer is stopped first.                  *)
ticked_unrendered(b) ==
    LET left == IF b.remaining = NaN THEN NaN ELSE Max({0, b.remaining - 1})
    IN  IF left = 0 THEN [stopCooldown(b) EXCEPT !.remaining = left]
        ELSE render([b EXCEPT !.remaining = left])

(* The callback of setInterval; Math.max(0, NaN - 1) is NaN.               *)
ticked(b) ==
    LET left == IF b.remaining = NaN THEN NaN ELSE Max({0, b.remaining - 1})
        shown == render([b EXCEPT !.remaining = left])
    IN  IF left = 0 THEN stopCooldown(shown) ELSE shown

(* Input and clicks: what listeners on enabled controls do.                *)
CanType(b) == b.connected /\ b.mode = "typed" /\ ~b.disabled

typed(b, text) == [b EXCEPT !.input = text, !.enabled = (text = b.phrase)]

sent(b) == render([b EXCEPT !.pending = TRUE])

-----------------------------------------------------------------------------
(* What a click on the button must have behind it when it confirms.        *)
Earned(b) ==
    /\ ~b.disabled
    /\ b.mode \in {"single", "typed", "cooling_off"}
    /\ b.mode = "typed" => b.input = b.phrase
    /\ b.mode = "cooling_off" => b.due # NaN /\ b.waited >= b.due

(* With a numeric, non-negative period, a button that looks usable is.     *)
UsableWorks(b) == b.enabled /\ b.due # NaN /\ b.due >= 0 => b.click # "none"
=============================================================================
