------------------------ MODULE OperatorPage_proofs ------------------------
(***************************************************************************)
(* What the page promises, whatever the operator, the server and the clock *)
(* do.  First the button: each callback of the element keeps its fields in *)
(* step, and nothing else on the page changes it, so no confirmation       *)
(* leaves it unearned.  Then the session: what is on screen is a snapshot  *)
(* of the session as it is or was, no value is lost on the way, and        *)
(* commands and snapshots that cross on the connection never overtake a    *)
(* preview, so nothing is committed that was not seen.                     *)
(***************************************************************************)
EXTENDS OperatorPage, SessionAggregate_proofs

(* Seconds left or due.                                                    *)
Seconds == 0..Patience \cup Coolings \cup {NaN}

ButtonRecord ==
    [mode      : ConfirmationModes,
     phrase    : Phrases,
     cooling   : Coolings \cup {NaN},
     pending   : BOOLEAN,
     disabled  : BOOLEAN,
     connected : BOOLEAN,
     shadow    : BOOLEAN,
     remaining : Seconds,
     timer     : BOOLEAN,
     input     : Phrases \cup {NoText},
     enabled   : BOOLEAN,
     click     : {"confirm", "send", "none"},
     due       : Seconds,
     waited    : 0..Patience]

(* What a countdown has left and the time that went by make up its period. *)
CountdownAdds(b) ==
    /\ b.remaining = NaN => b.due = NaN
    /\ b.remaining # NaN =>
           /\ b.due # NaN /\ b.due <= Patience
           /\ b.waited >= b.due \/ b.remaining + b.waited >= b.due
           /\ b.remaining < 0 => b.due < 0

(* The element is as its last rendering left it, but for what was typed.   *)
AsRendered(b) ==
    b.shadow => b.click = OnClick(b) /\ (b.mode # "typed" => b.enabled = Enabled(b))

(* The inductive invariant: what can be clicked to confirm was earned, and *)
(* nothing can be clicked before the element was rendered.                 *)
ButtonSound(b) ==
    /\ b \in ButtonRecord
    /\ CountdownAdds(b) /\ AsRendered(b)
    /\ b.enabled => b.shadow
    /\ b.enabled /\ b.click = "confirm" => Earned(b)

(* The element as the page makes it.                                       *)
Fresh(b) ==
    \E c \in Coolings \cup {NaN} : b = element(CHOOSE p \in Phrases : TRUE, c)

-----------------------------------------------------------------------------
LEMMA SecondsAreNumbers ==
    /\ Seconds \subseteq Int \cup {NaN} /\ NaN \in Seconds /\ 0 \in Seconds
    /\ \A n \in Seconds : n # NaN => n \in Int /\ n <= Patience
    /\ \A n \in Nat : n <= Patience => n \in Seconds
    /\ Coolings \cup {NaN} \subseteq Seconds
<1>1. Coolings \subseteq Int /\ NaN \notin Int /\ Patience \in Nat /\ \A c \in Coolings : c <= Patience
  BY ButtonAssumption
<1>2. \A n \in 0..Patience : n \in Int /\ n <= Patience
  BY <1>1
<1>3. \A n \in Nat : n <= Patience => n \in 0..Patience
  BY <1>1
<1>4. 0 \in 0..Patience
  BY <1>1
<1> QED
  BY <1>1, <1>2, <1>3, <1>4 DEF Seconds

LEMMA ButtonNumbers ==
    ASSUME NEW b \in ButtonRecord
    PROVE  /\ b.remaining \in Seconds /\ b.remaining \in Int \cup {NaN}
           /\ b.due \in Seconds /\ b.due \in Int \cup {NaN}
           /\ b.waited \in Int /\ b.waited >= 0 /\ b.waited <= Patience
           /\ b.cooling \in Seconds
           /\ Patience \in Int /\ NaN \notin Int
<1>1. b.remaining \in Seconds /\ b.due \in Seconds /\ b.cooling \in Seconds /\ b.waited \in 0..Patience
  BY SecondsAreNumbers DEF ButtonRecord
<1> QED
  BY <1>1, SecondsAreNumbers, ButtonAssumption

LEMMA ControlsTyped ==
    ASSUME NEW b \in ButtonRecord
    PROVE  Enabled(b) \in BOOLEAN /\ OnClick(b) \in {"confirm", "send", "none"}
<1>1. b.mode \in ConfirmationModes
  BY DEF ButtonRecord
<1>2. Enabled(b) \in BOOLEAN
  BY DEF Enabled
<1> QED
  BY <1>1, <1>2 DEF OnClick, ConfirmationModes

LEMMA ControlsEarned ==
    ASSUME NEW b \in ButtonRecord, CountdownAdds(b), Enabled(b), OnClick(b) = "confirm"
    PROVE  /\ ~b.disabled /\ b.mode \in {"single", "cooling_off"}
           /\ b.mode = "cooling_off" => b.due # NaN /\ b.waited >= b.due
<1>1. ~b.disabled /\ b.mode \notin {"automatic", "typed"}
  BY DEF Enabled
<1>2. /\ b.mode \in {"single", "typed", "cooling_off"}
      /\ b.mode = "cooling_off" => b.remaining = 0
  BY DEF OnClick, ButtonRecord, ConfirmationModes
<1>3. ASSUME b.mode = "cooling_off" PROVE b.due # NaN /\ b.waited >= b.due
  <2>1. b.remaining = 0 /\ b.remaining # NaN
    BY <1>2, <1>3, ButtonAssumption
  <2>2. b.due \in Int /\ b.waited \in Int /\ b.due # NaN
    BY <2>1, ButtonNumbers DEF CountdownAdds
  <2>3. b.waited >= b.due \/ 0 + b.waited >= b.due
    BY <2>1 DEF CountdownAdds
  <2> QED
    BY <2>2, <2>3
<1> QED
  BY <1>1, <1>2, <1>3

(* Whatever has just been rendered is sound, when its fields are.          *)
LEMMA RenderedSound ==
    ASSUME NEW b, b \in ButtonRecord, CountdownAdds(b), b.shadow,
           b.enabled = Enabled(b), b.click = OnClick(b)
    PROVE  ButtonSound(b)
<1>1. ASSUME b.enabled, b.click = "confirm" PROVE Earned(b)
  BY <1>1, ControlsEarned DEF Earned
<1>2. AsRendered(b)
  BY DEF AsRendered
<1> QED
  BY <1>1, <1>2 DEF ButtonSound

(* What was rendered still stands when nothing it shows has changed.       *)
LEMMA StillAsRendered ==
    ASSUME NEW b, NEW c, AsRendered(b),
           c.shadow = b.shadow, c.mode = b.mode, c.disabled = b.disabled, c.pending = b.pending,
           c.remaining = b.remaining, c.enabled = b.enabled, c.click = b.click
    PROVE  AsRendered(c)
BY DEF AsRendered, Enabled, OnClick

LEMMA RenderFields ==
    ASSUME NEW b \in ButtonRecord
    PROVE  /\ render(b) \in ButtonRecord
           /\ \A f \in {"mode", "disabled", "shadow", "pending", "connected", "timer",
                        "remaining", "due", "waited"} : render(b)[f] = b[f]
           /\ render(b).enabled = Enabled(b) /\ render(b).click = OnClick(b)
BY ControlsTyped DEF render, ButtonRecord

LEMMA RenderSound ==
    ASSUME NEW b \in ButtonRecord, CountdownAdds(b), b.shadow
    PROVE  /\ ButtonSound(render(b)) /\ render(b).shadow
           /\ render(b).enabled = Enabled(render(b)) /\ render(b).click = OnClick(render(b))
<1> DEFINE r == render(b)
<1>1. /\ r \in ButtonRecord
      /\ r.mode = b.mode /\ r.disabled = b.disabled /\ r.shadow = b.shadow /\ r.pending = b.pending
      /\ r.remaining = b.remaining /\ r.due = b.due /\ r.waited = b.waited
      /\ r.enabled = Enabled(b) /\ r.click = OnClick(b)
  BY ControlsTyped DEF render, ButtonRecord
<1> HIDE DEF r
<1>2. Enabled(r) = Enabled(b) /\ OnClick(r) = OnClick(b)
  BY <1>1 DEF Enabled, OnClick
<1>3. CountdownAdds(r)
  BY <1>1 DEF CountdownAdds
<1>4. ButtonSound(r) /\ r.shadow /\ r.enabled = Enabled(r) /\ r.click = OnClick(r)
  BY <1>1, <1>2, <1>3, RenderedSound
<1> QED
  BY <1>4 DEF r

LEMMA FreshSound ==
    ASSUME NEW b, Fresh(b)
    PROVE  ButtonSound(b) /\ ~b.shadow
<1>1. (CHOOSE p \in Phrases : TRUE) \in Phrases
  BY ButtonAssumption
<1>2. PICK p \in Phrases, c \in Coolings \cup {NaN} : b = element(p, c)
  BY <1>1 DEF Fresh
<1>3. /\ b.remaining = 0 /\ b.due = 0 /\ b.waited = 0 /\ ~b.enabled /\ ~b.shadow
      /\ b.remaining # NaN
  BY <1>2, ButtonAssumption DEF element
<1>4. b \in ButtonRecord
  <2>1. 0 \in 0..Patience
    BY ButtonAssumption
  <2> QED
    BY <1>2, <2>1, SecondsAreNumbers DEF element, ButtonRecord, ConfirmationModes
<1>5. CountdownAdds(b) /\ AsRendered(b)
  BY <1>3, ButtonAssumption DEF CountdownAdds, AsRendered
<1> QED
  BY <1>3, <1>4, <1>5 DEF ButtonSound

LEMMA StartSound ==
    ASSUME NEW b, ButtonSound(b), b.shadow
    PROVE  ButtonSound(startCooldown(b))
<1> DEFINE begun == [b EXCEPT !.remaining = b.cooling]
           s == startCooldown(b)
<1>0. b \in ButtonRecord
  BY DEF ButtonSound
<1>1. begun \in ButtonRecord
  BY <1>0, ButtonNumbers DEF ButtonRecord
<1>2. /\ s \in ButtonRecord
      /\ s.mode = begun.mode /\ s.disabled = begun.disabled /\ s.pending = begun.pending
      /\ s.remaining = begun.remaining /\ s.shadow
      /\ s.enabled = Enabled(begun) /\ s.click = OnClick(begun)
      /\ s.due = b.cooling /\ s.remaining = b.cooling /\ s.waited = b.waited
  BY <1>0, <1>1, ControlsTyped, ButtonNumbers DEF startCooldown, render, ButtonSound, ButtonRecord
<1> HIDE DEF begun, s
<1>3. Enabled(s) = Enabled(begun) /\ OnClick(s) = OnClick(begun)
  BY <1>2 DEF Enabled, OnClick
<1>4. CountdownAdds(s)
  <2>1. b.cooling \in Coolings \cup {NaN} /\ b.waited \in Int /\ b.waited >= 0
    BY <1>0, ButtonNumbers DEF ButtonRecord
  <2>2. b.cooling # NaN => b.cooling \in Int /\ b.cooling <= Patience
    BY <2>1, ButtonAssumption
  <2>3. b.cooling # NaN => b.cooling + b.waited >= b.cooling
    BY <2>1, <2>2
  <2> QED
    BY <1>2, <2>2, <2>3 DEF CountdownAdds
<1>5. ButtonSound(s)
  BY <1>2, <1>3, <1>4, RenderedSound
<1> QED
  BY <1>5 DEF s

LEMMA ConnectSound ==
    ASSUME NEW b, ButtonSound(b)
    PROVE  ButtonSound(connectedCallback(b))
<1> DEFINE attached == [b EXCEPT !.connected = TRUE, !.shadow = TRUE]
           first == render(attached)
<1>1. attached \in ButtonRecord /\ attached.shadow /\ CountdownAdds(attached)
  BY DEF ButtonSound, ButtonRecord, CountdownAdds
<1>2. ButtonSound(first) /\ first.shadow
  BY <1>1, RenderSound
<1> HIDE DEF first
<1>3. CASE b.shadow
  <2> DEFINE d == [b EXCEPT !.connected = TRUE]
  <2>1. /\ d \in ButtonRecord /\ CountdownAdds(d) /\ d.enabled = b.enabled /\ d.click = b.click
        /\ d.shadow = b.shadow /\ AsRendered(d)
        /\ Earned(b) => Earned(d)
    BY StillAsRendered DEF ButtonSound, ButtonRecord, CountdownAdds, Earned
  <2>2. connectedCallback(b) = d
    BY <1>3 DEF connectedCallback
  <2> HIDE DEF d
  <2>3. ButtonSound(d)
    BY <1>3, <2>1 DEF ButtonSound
  <2> QED
    BY <2>2, <2>3
<1>4. CASE ~b.shadow /\ b.mode = "cooling_off"
  <2>1. ButtonSound(startCooldown(first))
    BY <1>2, StartSound
  <2> QED
    BY <1>4, <2>1 DEF connectedCallback, first
<1>5. CASE ~b.shadow /\ b.mode # "cooling_off"
  BY <1>2, <1>5 DEF connectedCallback, first
<1> QED
  BY <1>3, <1>4, <1>5

LEMMA AttributeSound ==
    ASSUME NEW b, ButtonSound(b), NEW changed \in ButtonRecord,
           changed.remaining = b.remaining, changed.due = b.due, changed.waited = b.waited,
           changed.shadow = b.shadow, changed.enabled = b.enabled
    PROVE  ButtonSound(attributeChangedCallback(b, changed))
<1>1. CountdownAdds(changed)
  BY DEF ButtonSound, CountdownAdds
<1>2. CASE b.shadow
  BY <1>1, <1>2, RenderSound DEF attributeChangedCallback
<1>3. CASE ~b.shadow
  BY <1>1, <1>3 DEF attributeChangedCallback, ButtonSound, AsRendered
<1> QED
  BY <1>2, <1>3

LEMMA ModeSound ==
    ASSUME NEW b, ButtonSound(b), mode \in ConfirmationModes
    PROVE  ButtonSound(with_mode(b))
<1> DEFINE changed == [b EXCEPT !.mode = mode]
<1>1. /\ changed \in ButtonRecord
      /\ changed.remaining = b.remaining /\ changed.due = b.due /\ changed.waited = b.waited
      /\ changed.shadow = b.shadow /\ changed.enabled = b.enabled
  BY DEF ButtonSound, ButtonRecord
<1> HIDE DEF changed
<1>2. ButtonSound(attributeChangedCallback(b, changed))
  BY <1>1, AttributeSound
<1> QED
  BY <1>2 DEF with_mode, changed

LEMMA InsertedSound ==
    ASSUME NEW b, ButtonSound(b), mode \in ConfirmationModes
    PROVE  ButtonSound(inserted(b))
BY ConnectSound, ModeSound DEF inserted

LEMMA DisconnectSound ==
    ASSUME NEW b, ButtonSound(b)
    PROVE  ButtonSound(disconnectedCallback(b))
<1> DEFINE d == disconnectedCallback(b)
<1>1. /\ d \in ButtonRecord /\ CountdownAdds(d) /\ d.enabled = b.enabled /\ d.click = b.click
      /\ d.shadow = b.shadow /\ AsRendered(d)
      /\ Earned(b) => Earned(d)
  BY StillAsRendered DEF disconnectedCallback, stopCooldown, ButtonSound, ButtonRecord, CountdownAdds, Earned
<1> HIDE DEF d
<1>2. ButtonSound(d)
  BY <1>1 DEF ButtonSound
<1> QED
  BY <1>2 DEF d

LEMMA TypedSound ==
    ASSUME NEW b, ButtonSound(b), CanType(b), b.shadow, NEW text \in Phrases \cup {NoText}
    PROVE  ButtonSound(typed(b, text))
<1> DEFINE t == typed(b, text)
<1>1. /\ t \in ButtonRecord /\ CountdownAdds(t) /\ t.shadow
      /\ t.mode = "typed" /\ ~t.disabled /\ t.input = text /\ t.phrase = b.phrase
      /\ t.enabled = (text = b.phrase) /\ t.click = b.click /\ b.mode = "typed"
  BY DEF typed, CanType, ButtonSound, ButtonRecord, CountdownAdds
<1> HIDE DEF t
<1>2. AsRendered(t)
  BY <1>1 DEF AsRendered, ButtonSound, OnClick
<1>3. ButtonSound(t)
  BY <1>1, <1>2 DEF ButtonSound, Earned
<1> QED
  BY <1>3 DEF t

LEMMA SentSound ==
    ASSUME NEW b, ButtonSound(b), b.shadow
    PROVE  ButtonSound(sent(b))
<1> DEFINE p == [b EXCEPT !.pending = TRUE]
<1>1. p \in ButtonRecord /\ CountdownAdds(p) /\ p.shadow
  BY DEF ButtonSound, ButtonRecord, CountdownAdds
<1> HIDE DEF p
<1> QED
  BY <1>1, RenderSound DEF sent, p

(* Seconds pass.                                                           *)
LEMMA WaitedSound ==
    ASSUME NEW b, ButtonSound(b), NEW w \in 0..Patience, w >= b.waited
    PROVE  ButtonSound([b EXCEPT !.waited = w])
<1> DEFINE l == [b EXCEPT !.waited = w]
<1>1. /\ l \in ButtonRecord /\ l.enabled = b.enabled /\ l.click = b.click /\ l.shadow = b.shadow
      /\ l.remaining = b.remaining /\ l.due = b.due /\ l.waited = w /\ l.mode = b.mode
      /\ l.disabled = b.disabled /\ l.input = b.input /\ l.phrase = b.phrase
      /\ l.pending = b.pending
  BY DEF ButtonSound, ButtonRecord
<1> HIDE DEF l
<1>2. w \in Int /\ b.waited \in Int /\ b.due \in Int \cup {NaN} /\ b.remaining \in Int \cup {NaN}
  BY ButtonNumbers, ButtonAssumption DEF ButtonSound
<1>3. CountdownAdds(l) /\ AsRendered(l)
  BY <1>1, <1>2, ButtonAssumption, StillAsRendered DEF ButtonSound, CountdownAdds
<1>4. Earned(b) => Earned(l)
  BY <1>1, <1>2 DEF Earned
<1>5. ButtonSound(l)
  BY <1>1, <1>3, <1>4 DEF ButtonSound
<1> QED
  BY <1>5 DEF l

LEMMA MaxOfTwo ==
    ASSUME NEW m \in Int
    PROVE  Max({0, m}) \in {0, m} /\ Max({0, m}) \in Int /\ Max({0, m}) >= m /\ Max({0, m}) >= 0
<1>1. \E x \in {0, m} : \A y \in {0, m} : x >= y
  OBVIOUS
<1>2. Max({0, m}) \in {0, m} /\ \A y \in {0, m} : Max({0, m}) >= y
  BY <1>1 DEF Max
<1> QED
  BY <1>2

LEMMA TickSound ==
    ASSUME NEW b, ButtonSound(b), b.shadow,
           NEW w \in 0..Patience, w = IF b.waited < Patience THEN b.waited + 1 ELSE b.waited
    PROVE  /\ ButtonSound([ticked(b) EXCEPT !.waited = w])
           /\ [ticked(b) EXCEPT !.waited = w].shadow
<1> DEFINE left == IF b.remaining = NaN THEN NaN ELSE Max({0, b.remaining - 1})
           begun == [b EXCEPT !.remaining = left]
           r == render(begun)
           t == [ticked(b) EXCEPT !.waited = w]
<1>1. /\ b.remaining \in Int \cup {NaN} /\ b.remaining \in Seconds /\ b.due \in Int \cup {NaN}
      /\ b.waited \in Int /\ b.waited <= Patience
  BY ButtonNumbers DEF ButtonSound
<1>2. IF b.remaining = NaN THEN left = NaN
                           ELSE left \in Int /\ left >= b.remaining - 1 /\ left >= 0 /\ left \in Seconds
  <2>1. SUFFICES ASSUME b.remaining # NaN
                 PROVE  /\ Max({0, b.remaining - 1}) \in Int
                        /\ Max({0, b.remaining - 1}) >= b.remaining - 1
                        /\ Max({0, b.remaining - 1}) >= 0
                        /\ Max({0, b.remaining - 1}) \in Seconds
    OBVIOUS
  <2>2. PICK m \in Int : m = b.remaining - 1 /\ m <= Patience
    BY <1>1, <2>1, SecondsAreNumbers, ButtonAssumption
  <2>3. PICK n \in Int : n = Max({0, m}) /\ n >= m /\ n >= 0 /\ n \in {0, m}
    BY MaxOfTwo
  <2>4. n \in Nat /\ n <= Patience
    BY <2>2, <2>3, ButtonAssumption
  <2> QED
    BY <2>2, <2>3, <2>4, SecondsAreNumbers
<1>3. begun \in ButtonRecord /\ begun.shadow /\ begun.due = b.due /\ begun.remaining = left
  <2>1. left \in Seconds
    BY <1>2, SecondsAreNumbers
  <2> HIDE DEF left
  <2> QED
    BY <2>1 DEF ButtonSound, ButtonRecord
<1> HIDE DEF begun, left
<1>4. /\ r \in ButtonRecord /\ r.shadow /\ r.due = b.due /\ r.remaining = left
      /\ r.mode = begun.mode /\ r.disabled = begun.disabled /\ r.pending = begun.pending
      /\ r.enabled = Enabled(begun) /\ r.click = OnClick(begun)
  BY <1>3, RenderFields
<1>5. /\ t \in ButtonRecord
      /\ t.mode = begun.mode /\ t.disabled = begun.disabled /\ t.pending = begun.pending
      /\ t.remaining = begun.remaining /\ t.shadow
      /\ t.enabled = Enabled(begun) /\ t.click = OnClick(begun)
      /\ t.due = b.due /\ t.remaining = left /\ t.waited = w
  <2>1. ticked(b) = r \/ ticked(b) = stopCooldown(r)
    BY DEF ticked, begun, left
  <2> HIDE DEF r
  <2>2. PICK s : s = ticked(b)
    OBVIOUS
  <2>3. /\ s \in ButtonRecord
        /\ s.mode = r.mode /\ s.disabled = r.disabled /\ s.pending = r.pending
        /\ s.remaining = r.remaining /\ s.shadow = r.shadow /\ s.due = r.due
        /\ s.enabled = r.enabled /\ s.click = r.click
    BY <1>4, <2>1, <2>2 DEF stopCooldown, ButtonRecord
  <2>4. t = [s EXCEPT !.waited = w]
    BY <2>2
  <2> HIDE DEF t
  <2>5. /\ t \in ButtonRecord
        /\ t.mode = s.mode /\ t.disabled = s.disabled /\ t.pending = s.pending
        /\ t.remaining = s.remaining /\ t.shadow = s.shadow /\ t.due = s.due
        /\ t.enabled = s.enabled /\ t.click = s.click /\ t.waited = w
    BY <2>3, <2>4 DEF ButtonRecord
  <2> QED
    BY <1>3, <1>4, <2>3, <2>5
<1> HIDE DEF left, t, begun, r
<1>6. Enabled(t) = Enabled(begun) /\ OnClick(t) = OnClick(begun)
  BY <1>5 DEF Enabled, OnClick
<1>7. CountdownAdds(t)
  <2>0. left = NaN => t.due = NaN
    <3>1. left = NaN => b.remaining = NaN
      BY <1>2, ButtonAssumption
    <3> QED
      BY <1>5, <3>1 DEF ButtonSound, CountdownAdds
  <2>1. SUFFICES ASSUME left # NaN
                 PROVE  /\ t.due # NaN /\ t.due <= Patience /\ (w >= t.due \/ left + w >= t.due)
                        /\ ~(left < 0)
    BY <1>5, <2>0 DEF CountdownAdds
  <2>2. /\ left \in Int /\ left >= b.remaining - 1 /\ left >= 0 /\ b.remaining \in Int
        /\ b.due \in Int /\ b.due <= Patience /\ (b.waited >= b.due \/ b.remaining + b.waited >= b.due)
    BY <1>1, <1>2, <2>1 DEF ButtonSound, CountdownAdds
  <2>3. w \in Int /\ (w = b.waited + 1 \/ (w = b.waited /\ w >= Patience))
    BY <1>1, ButtonAssumption
  <2> QED
    BY <1>1, <1>5, <2>2, <2>3, ButtonAssumption
<1>8. ButtonSound(t)
  BY <1>5, <1>6, <1>7, RenderedSound
<1> QED
  BY <1>5, <1>8 DEF t

-----------------------------------------------------------------------------
(* Only an element that was rendered is on the page or has a timer.        *)
Attached(b) == b.connected \/ b.timer => b.shadow

(* Every callback leaves the element attached.                             *)
LEMMA ConnectAttached ==
    ASSUME NEW b \in ButtonRecord
    PROVE  connectedCallback(b).shadow
<1> DEFINE attached == [b EXCEPT !.connected = TRUE, !.shadow = TRUE]
           first == render(attached)
<1>1. first \in ButtonRecord /\ first.shadow
  <2>1. attached \in ButtonRecord /\ attached.shadow
    BY DEF ButtonRecord
  <2> HIDE DEF attached
  <2> QED
    BY <2>1, RenderFields
<1> HIDE DEF first
<1>2. startCooldown(first).shadow
  <2> DEFINE begun == [first EXCEPT !.remaining = first.cooling]
             r == render(begun)
  <2>1. begun \in ButtonRecord /\ begun.shadow
    BY <1>1, ButtonNumbers DEF ButtonRecord
  <2> HIDE DEF begun
  <2>2. r \in ButtonRecord /\ r.shadow
    BY <2>1, RenderFields
  <2> HIDE DEF r
  <2>3. [r EXCEPT !.timer = TRUE, !.due = first.cooling].shadow
    BY <2>2 DEF ButtonRecord
  <2> QED
    BY <2>3 DEF startCooldown, r, begun
<1>3. CASE b.shadow
  BY <1>3 DEF connectedCallback, ButtonRecord
<1>4. CASE ~b.shadow
  BY <1>1, <1>2, <1>4 DEF connectedCallback, first
<1> QED
  BY <1>3, <1>4

LEMMA AttributeAttached ==
    ASSUME NEW b, Attached(b), NEW changed \in ButtonRecord, changed.shadow = b.shadow,
           changed.connected = b.connected, changed.timer = b.timer
    PROVE  Attached(attributeChangedCallback(b, changed))
BY RenderFields DEF attributeChangedCallback, Attached

LEMMA ModeAttached ==
    ASSUME NEW b \in ButtonRecord, Attached(b), mode \in ConfirmationModes
    PROVE  Attached(with_mode(b))
<1> DEFINE changed == [b EXCEPT !.mode = mode]
<1>1. /\ changed \in ButtonRecord /\ changed.shadow = b.shadow
      /\ changed.connected = b.connected /\ changed.timer = b.timer
  BY DEF ButtonRecord
<1> HIDE DEF changed
<1>2. Attached(attributeChangedCallback(b, changed))
  BY <1>1, AttributeAttached
<1> QED
  BY <1>2 DEF with_mode, changed

-----------------------------------------------------------------------------
(* The page's inductive invariant: the button's, and what the host will    *)
(* insert is as it was made.                                               *)
PageSound ==
    /\ mode \in ConfirmationModes
    /\ host.kind \in {"standing", "per_preview"}
    /\ Fresh(host.element)
    /\ ButtonSound(button)
    /\ Attached(button)

LEMMA FreshAttached ==
    ASSUME NEW b, Fresh(b)
    PROVE  Attached(b)
<1>1. PICK p, c : b = element(p, c)
  BY DEF Fresh
<1>2. ~b.connected /\ ~b.timer
  BY <1>1 DEF element
<1> QED
  BY <1>2 DEF Attached

LEMMA InsertedAttached ==
    ASSUME NEW b, ButtonSound(b), Attached(b), mode \in ConfirmationModes
    PROVE  Attached(inserted(b))
<1>1. ASSUME NEW a, a \in ButtonRecord PROVE Attached(connectedCallback(a))
  BY <1>1, ConnectAttached DEF Attached
<1>2. ButtonSound(connectedCallback(b)) /\ ButtonSound(with_mode(b))
  BY ConnectSound, ModeSound
<1>3. b \in ButtonRecord /\ connectedCallback(b) \in ButtonRecord /\ with_mode(b) \in ButtonRecord
  BY <1>2 DEF ButtonSound
<1>4. Attached(with_mode(connectedCallback(b)))
  BY <1>1, <1>3, ModeAttached
<1> QED
  BY <1>1, <1>3, <1>4 DEF inserted

LEMMA InitSound == Init => PageSound
<1> SUFFICES ASSUME Init PROVE PageSound
  OBVIOUS
<1>1. mode \in ConfirmationModes
  BY PageAssumption DEF Init
<1>2. PICK setup \in Setups : host \in [kind : {setup.host}, late : {setup.late},
          element : {element(CHOOSE p \in Phrases : TRUE, c) :
              c \in IF mode = "cooling_off" THEN Coolings \cup {NaN} ELSE {NaN}}]
  BY DEF Init
<1>3. host.kind \in {"standing", "per_preview"}
  BY <1>2, PageAssumption
<1>4. Fresh(host.element)
  BY <1>2 DEF Fresh
<1>5. ButtonSound(host.element) /\ Attached(host.element)
  BY <1>4, FreshSound, FreshAttached
<1>6. ButtonSound(inserted(host.element)) /\ Attached(inserted(host.element))
  BY <1>1, <1>5, InsertedSound, InsertedAttached
<1> QED
  BY <1>1, <1>3, <1>4, <1>5, <1>6 DEF Init, PageSound

(* What the host does when the component has rendered.                     *)
LEMMA HostSound ==
    ASSUME PageSound, HostReacts, UNCHANGED <<mode, host>>
    PROVE  PageSound'
<1>1. ButtonSound(host.element) /\ Attached(host.element)
  BY FreshSound, FreshAttached DEF PageSound
<1>2. ButtonSound(inserted(host.element)) /\ Attached(inserted(host.element))
  BY <1>1, InsertedSound, InsertedAttached DEF PageSound
<1>3. Previewed(shown) \in BOOLEAN /\ Previewed(shown') \in BOOLEAN
  BY DEF Previewed
<1>4. button' \in {button, inserted(host.element), host.element}
  BY <1>3 DEF HostReacts, PageSound
<1> QED
  BY <1>1, <1>2, <1>4 DEF PageSound

(* What happens to the button alone.                                       *)
LEMMA OnlySound ==
    ASSUME PageSound, NEW b, ButtonOnly(b), ButtonSound(b), Attached(b)
    PROVE  PageSound'
BY DEF PageSound, ButtonOnly, server_vars

LEMMA ElsewhereSound ==
    ASSUME PageSound, UNCHANGED <<mode, host, button>>
    PROVE  PageSound'
BY DEF PageSound

LEMMA NextSound == PageSound /\ [Next]_vars => PageSound'
<1> SUFFICES ASSUME PageSound, [Next]_vars PROVE PageSound'
  OBVIOUS
<1> USE DEF server_vars
<1>0. button \in ButtonRecord /\ ButtonSound(button) /\ Attached(button)
  BY DEF PageSound, ButtonSound
<1>1. CASE Serve
  BY <1>1, ElsewhereSound DEF Serve, Changed
<1>2. CASE Proceed
  BY <1>2, ElsewhereSound DEF Proceed, Changed
<1>3. CASE Deliver
  BY <1>3, HostSound DEF Deliver
<1>4. CASE Render
  BY <1>4, HostSound DEF Render
<1>5. CASE \E n \in SlotNames, v \in Values : fillSlot(n, v)
  BY <1>5, ElsewhereSound DEF fillSlot, send
<1>6. CASE Continue \/ Decide("confirm") \/ Decide("reject_preview") \/ Cancel \/ ClickConfirm
  BY <1>6, ElsewhereSound DEF Continue, Decide, Cancel, ClickConfirm, send
<1>7. CASE ClickSend
  <2>1. button.shadow
    BY <1>0, <1>7 DEF ClickSend, Attached
  <2>2. ButtonSound(sent(button))
    BY <1>0, <2>1, SentSound
  <2>3. sent(button).shadow
    <3> DEFINE p == [button EXCEPT !.pending = TRUE]
    <3>1. p \in ButtonRecord /\ p.shadow
      BY <1>0, <2>1 DEF ButtonRecord
    <3> HIDE DEF p
    <3> QED
      BY <3>1, RenderFields DEF sent, p
  <2> QED
    BY <1>7, <2>2, <2>3, OnlySound DEF ClickSend, Attached
<1>8. CASE Attribute
  <2> DEFINE Kept(b) == /\ b \in ButtonRecord
                        /\ b.remaining = button.remaining /\ b.due = button.due
                        /\ b.waited = button.waited /\ b.shadow = button.shadow
                        /\ b.enabled = button.enabled
                        /\ b.connected = button.connected /\ b.timer = button.timer
  <2>1. Kept([button EXCEPT !.disabled = ~@]) /\ Kept([button EXCEPT !.pending = ~@])
    BY <1>0 DEF ButtonRecord
  <2>2. \A p \in Phrases : Kept([button EXCEPT !.phrase = p])
    BY <1>0 DEF ButtonRecord
  <2> HIDE DEF Kept
  <2>3. PICK b : Kept(b) /\ ButtonOnly(attributeChangedCallback(button, b))
    BY <1>8, <2>1, <2>2 DEF Attribute
  <2>4. /\ ButtonSound(attributeChangedCallback(button, b))
        /\ Attached(attributeChangedCallback(button, b))
    BY <1>0, <2>3, AttributeSound, AttributeAttached DEF Kept
  <2> QED
    BY <2>3, <2>4, OnlySound
<1>9. CASE Move
  <2>1. ButtonSound(disconnectedCallback(button))
    BY <1>0, DisconnectSound
  <2>2. disconnectedCallback(button) \in ButtonRecord
    BY <2>1 DEF ButtonSound
  <2>3. /\ ButtonSound(connectedCallback(disconnectedCallback(button)))
        /\ Attached(connectedCallback(disconnectedCallback(button)))
    BY <2>1, <2>2, ConnectSound, ConnectAttached DEF Attached
  <2> QED
    BY <1>9, <2>3, OnlySound DEF Move
<1>10. /\ Waited \in 0..Patience /\ Waited >= button.waited
       /\ Waited = IF button.waited < Patience THEN button.waited + 1 ELSE button.waited
  BY <1>0, ButtonAssumption DEF Waited, ButtonRecord
<1>11. CASE Tick
  <2>1. button.shadow
    BY <1>0, <1>11 DEF Tick, Attached
  <2>2. /\ ButtonSound([ticked(button) EXCEPT !.waited = Waited])
        /\ [ticked(button) EXCEPT !.waited = Waited].shadow
    BY <1>0, <1>10, <2>1, TickSound
  <2> QED
    BY <1>11, <2>2, OnlySound DEF Tick, Attached
<1>12. CASE Late
  <2>1. ButtonSound([button EXCEPT !.waited = Waited])
    BY <1>0, <1>10, WaitedSound
  <2>2. Attached([button EXCEPT !.waited = Waited])
    BY <1>0 DEF Attached, ButtonRecord
  <2> QED
    BY <1>12, <2>1, <2>2, OnlySound DEF Late
<1>13. ASSUME NEW text \in Phrases \cup {NoText}, Type(text) PROVE PageSound'
  <2>1. button.shadow
    BY <1>0, <1>13 DEF Type, CanType, Attached
  <2>2. ButtonSound(typed(button, text))
    BY <1>0, <1>13, <2>1, TypedSound DEF Type
  <2>3. Attached(typed(button, text))
    BY <1>0, <2>1 DEF typed, Attached, ButtonRecord
  <2> QED
    BY <1>13, <2>2, <2>3, OnlySound DEF Type
<1>14. CASE UNCHANGED vars
  BY <1>14, ElsewhereSound DEF vars
<1> QED
  BY <1>1, <1>2, <1>3, <1>4, <1>5, <1>6, <1>7, <1>8, <1>9, <1>11, <1>12, <1>13, <1>14
  DEF Next

(* No confirmation leaves aui-confirm-button before the phrase is typed or *)
(* the countdown it was connected with is over: for every phrase and       *)
(* period, whatever attributes the host changes, however often it moves    *)
(* the element, and however late the timer's callbacks are.                *)
THEOREM ConfirmationsAreEarned == Spec => ConfirmationEarned
<1>1. PageSound /\ [Next]_vars => [ClickConfirm => Earned(button)]_vars
  BY DEF PageSound, ButtonSound, ClickConfirm
<1> QED
  BY <1>1, InitSound, NextSound, PTL DEF Spec, ConfirmationEarned

-----------------------------------------------------------------------------
(* What the commands on their way were given for. *)

(* Some command was given before a preview, or asks for one.               *)
Looks(q) == \E i \in DOMAIN q : q[i].seen # Nil
Asks(q) == \E i \in DOMAIN q : q[i].op = "preview"

(* One command overtook what the other was given for.                      *)
AsksThenLooks(q) ==
    \E i, j \in DOMAIN q : i < j /\ q[i].op = "preview" /\ q[j].seen # Nil
RejectsThenAsks(q) ==
    \E i, j \in DOMAIN q : i < j /\ q[i].op = "reject_preview" /\ q[j].op = "preview"

(* Slots have been filled since, and none was emptied.                     *)
Grown(old, new) ==
    /\ DOMAIN new = DOMAIN old
    /\ \A i \in DOMAIN old : /\ new[i].required = old[i].required
                             /\ old[i].value # Nil => new[i].value # Nil

(* A snapshot of the session as it is or was.                              *)
Faithful(snapshot, s) ==
    /\ snapshot \in Snapshot
    /\ Grown(snapshot.slots, s.slots)
    /\ snapshot.state = "preview" => snapshot.preview_result \in Seq(Values \cup {Nil})

Newest(v, ups) == IF ups = <<>> THEN v ELSE ups[Len(ups)]

SnapshotsSound ==
    /\ Newest(view, updates) = make_snapshot(session, mode)
    /\ updates \in Seq(Snapshot) /\ Len(updates) <= MaxUpdates
    /\ \A x \in {view, copy, shown} : x # Nil => Faithful(x, session)
    /\ \A i \in DOMAIN updates : Faithful(updates[i], session)

CommandSound(c) ==
    /\ c.op = "preview" => all_required_slots_filled(session)
    /\ c.op = "fill_slot" => c.slot \in SlotNames
    /\ c.op = "reject_preview" => c.seen # Nil
    /\ c.op = "confirm" /\ host.kind = "per_preview" => c.seen # Nil

CommandsSound ==
    /\ commands \in Seq(Command) /\ Len(commands) <= MaxCommands + 1
    /\ \A i \in DOMAIN commands : CommandSound(commands[i])

(* Adapters that keep up show the newest snapshot the client has.          *)
Tracking == adapter \in {"listener", "angular"}

ViewSound ==
    /\ adapter \in Adapters /\ mounted \in BOOLEAN /\ held \in {"none", "null", "live", "copy"}
    /\ Tracking => held # "copy" /\ shown = IF mounted /\ held = "live" THEN view ELSE Nil

(* The client knows no other preview of s than the one there is, and       *)
(* nobody asks for the next before the client knows that it was rejected.  *)
Order(s, v, ups, q) ==
    LET over == s.state \in {"commit", "archive"}
    IN  /\ s.state = "preview" =>
               /\ \A i \in DOMAIN q : q[i].seen \in {Nil, PreviewOf(make_snapshot(s, mode))}
               /\ ~Previewed(v) => ~Looks(q)
        /\ ~over /\ ~Previewed(v) => ~AsksThenLooks(q)
        /\ ~over /\ Previewed(v) => /\ ~RejectsThenAsks(q)
                                    /\ s.state # "preview" => ~Asks(q)
        /\ ~over => \A i \in DOMAIN ups :
                        ups[i].state = "preview" => i = Len(ups) /\ ~Previewed(v)

OrderSound == Tracking => Order(session, view, updates, commands)

SessionSound ==
    /\ session \in IntentSession /\ SoundSession(session)
    /\ mode \in ConfirmationModes

HostFits == host.kind = "per_preview" => button.connected = Previewed(shown)

PageIInv == SessionSound /\ SnapshotsSound /\ CommandsSound /\ ViewSound /\ OrderSound /\ HostFits

-----------------------------------------------------------------------------
(* Queues of commands and snapshots *)

LEMMA TailOf ==
    ASSUME NEW S, NEW q \in Seq(S), q # <<>>
    PROVE  /\ Head(q) \in S /\ Head(q) = q[1] /\ Tail(q) \in Seq(S)
           /\ Len(q) \in Nat /\ Len(q) >= 1 /\ DOMAIN q = 1..Len(q) /\ Len(Tail(q)) = Len(q) - 1
           /\ \A i \in DOMAIN Tail(q) :
                  i \in Nat /\ i >= 1 /\ i + 1 \in DOMAIN q /\ Tail(q)[i] = q[i + 1]
<1>1. Len(q) \in Nat /\ Len(q) # 0 /\ DOMAIN q = 1..Len(q)
  BY LenProperties, EmptySeq
<1>2. /\ Head(q) \in S /\ Head(q) = q[1] /\ Tail(q) \in Seq(S) /\ Len(Tail(q)) = Len(q) - 1
      /\ \A i \in 1..Len(Tail(q)) : Tail(q)[i] = q[i + 1]
  BY HeadTailProperties
<1>3. DOMAIN Tail(q) = 1..Len(Tail(q))
  BY <1>2, LenProperties
<1> QED
  BY <1>1, <1>2, <1>3

LEMMA AppendOf ==
    ASSUME NEW S, NEW q \in Seq(S), NEW c \in S
    PROVE  /\ Append(q, c) \in Seq(S) /\ Append(q, c) # <<>>
           /\ Len(q) \in Nat /\ DOMAIN q = 1..Len(q) /\ Len(Append(q, c)) = Len(q) + 1
           /\ DOMAIN Append(q, c) = 1..(Len(q) + 1)
           /\ \A i \in DOMAIN q : i \in DOMAIN Append(q, c) /\ Append(q, c)[i] = q[i]
           /\ Append(q, c)[Len(q) + 1] = c
           /\ \A i \in DOMAIN Append(q, c) : i \in DOMAIN q \/ i = Len(q) + 1
           /\ \A i \in DOMAIN q : i # Len(q) + 1 /\ i < Len(q) + 1
<1>1. /\ Append(q, c) \in Seq(S) /\ Append(q, c) # <<>> /\ Len(Append(q, c)) = Len(q) + 1
      /\ \A i \in 1..Len(q) : Append(q, c)[i] = q[i]
      /\ Append(q, c)[Len(q) + 1] = c
  BY AppendProperties
<1>2. Len(q) \in Nat /\ DOMAIN q = 1..Len(q) /\ DOMAIN Append(q, c) = 1..(Len(q) + 1)
  BY <1>1, LenProperties
<1> QED
  BY <1>1, <1>2

LEMMA NewestDelivered ==
    ASSUME NEW S, NEW v, NEW ups \in Seq(S), ups # <<>>
    PROVE  Newest(Head(ups), Tail(ups)) = Newest(v, ups)
<1>1. PICK h, t, n : h = Head(ups) /\ t = Tail(ups) /\ n = Len(ups)
  OBVIOUS
<1>2. h = ups[1] /\ t \in Seq(S) /\ n \in Nat /\ n >= 1 /\ Len(t) = n - 1
  BY <1>1, TailOf
<1>3. \A i \in DOMAIN t : t[i] = ups[i + 1]
  BY <1>1, TailOf
<1>4. CASE n = 1
  <2>1. Len(t) = 0
    BY <1>2, <1>4
  <2>2. t = <<>>
    BY <1>2, <2>1, EmptySeq
  <2> QED
    BY <1>1, <1>2, <1>4, <2>2 DEF Newest
<1>5. CASE n # 1
  <2>1. PICK k \in Nat : k = Len(t) /\ k >= 1 /\ k + 1 = n
    BY <1>2, <1>5
  <2>2. DOMAIN t = 1..k
    BY <1>2, <2>1, LenProperties
  <2>3. k \in DOMAIN t /\ t # <<>>
    BY <1>2, <2>1, <2>2, EmptySeq
  <2> QED
    BY <1>1, <1>3, <2>1, <2>3 DEF Newest
<1> QED
  BY <1>4, <1>5
LEMMA TailOrder ==
    ASSUME NEW q \in Seq(Command), q # <<>>
    PROVE  /\ ~Looks(q) => ~Looks(Tail(q))
           /\ ~Asks(q) => ~Asks(Tail(q))
           /\ ~AsksThenLooks(q) => ~AsksThenLooks(Tail(q))
           /\ ~RejectsThenAsks(q) => ~RejectsThenAsks(Tail(q))
           /\ ~AsksThenLooks(q) /\ Head(q).op = "preview" => ~Looks(Tail(q))
           /\ ~RejectsThenAsks(q) /\ Head(q).op = "reject_preview" => ~Asks(Tail(q))
<1>1. PICK t : t = Tail(q)
  OBVIOUS
<1>2. \A i \in DOMAIN t : /\ i \in Nat /\ i >= 1 /\ i + 1 \in DOMAIN q /\ t[i] = q[i + 1]
                          /\ 1 < i + 1
  BY <1>1, TailOf
<1>3. \A i, j \in DOMAIN t : i < j => i + 1 < j + 1
  BY <1>2
<1>4. 1 \in DOMAIN q /\ Head(q) = q[1]
  BY TailOf
<1>5. (Looks(t) => Looks(q)) /\ (Asks(t) => Asks(q))
  BY <1>2 DEF Looks, Asks
<1>6. AsksThenLooks(t) => AsksThenLooks(q)
  BY <1>2, <1>3 DEF AsksThenLooks
<1>7. RejectsThenAsks(t) => RejectsThenAsks(q)
  BY <1>2, <1>3 DEF RejectsThenAsks
<1>8. Looks(t) /\ Head(q).op = "preview" => AsksThenLooks(q)
  BY <1>2, <1>4 DEF Looks, AsksThenLooks
<1>9. Asks(t) /\ Head(q).op = "reject_preview" => RejectsThenAsks(q)
  BY <1>2, <1>4 DEF Asks, RejectsThenAsks
<1> QED
  BY <1>1, <1>5, <1>6, <1>7, <1>8, <1>9

LEMMA AppendOrder ==
    ASSUME NEW q \in Seq(Command), NEW c \in Command
    PROVE  /\ ~Looks(q) /\ c.seen = Nil => ~Looks(Append(q, c))
           /\ ~Asks(q) /\ c.op # "preview" => ~Asks(Append(q, c))
           /\ ~AsksThenLooks(q) /\ c.seen = Nil => ~AsksThenLooks(Append(q, c))
           /\ ~RejectsThenAsks(q) /\ c.op # "preview" => ~RejectsThenAsks(Append(q, c))
<1>1. PICK a, n : a = Append(q, c) /\ n = Len(q) + 1
  OBVIOUS
<1>2. /\ \A i \in DOMAIN q : i \in DOMAIN a /\ a[i] = q[i] /\ i < n
      /\ a[n] = c /\ n \in Nat
      /\ \A i \in DOMAIN a : i \in DOMAIN q \/ i = n
      /\ \A i \in DOMAIN a : ~(n < i)
  BY <1>1, AppendOf
<1>3. c.seen = Nil /\ Looks(a) => Looks(q)
  BY <1>2 DEF Looks
<1>4. c.op # "preview" /\ Asks(a) => Asks(q)
  BY <1>2 DEF Asks
<1>5. ASSUME c.seen = Nil, AsksThenLooks(a) PROVE AsksThenLooks(q)
  <2>1. PICK i, j \in DOMAIN a : i < j /\ a[i].op = "preview" /\ a[j].seen # Nil
    BY <1>5 DEF AsksThenLooks
  <2>2. i \in DOMAIN q /\ j \in DOMAIN q
    BY <1>2, <1>5, <2>1
  <2> QED
    BY <1>2, <2>1, <2>2 DEF AsksThenLooks
<1>6. ASSUME c.op # "preview", RejectsThenAsks(a) PROVE RejectsThenAsks(q)
  <2>1. PICK i, j \in DOMAIN a : i < j /\ a[i].op = "reject_preview" /\ a[j].op = "preview"
    BY <1>6 DEF RejectsThenAsks
  <2>2. i \in DOMAIN q /\ j \in DOMAIN q
    BY <1>2, <1>6, <2>1
  <2> QED
    BY <1>2, <2>1, <2>2 DEF RejectsThenAsks
<1> QED
  BY <1>1, <1>3, <1>4, <1>5, <1>6

-----------------------------------------------------------------------------
(* The order of commands and snapshots *)

LEMMA SnapshotFields ==
    ASSUME NEW s \in IntentSession, mode \in ConfirmationModes
    PROVE  /\ make_snapshot(s, mode) \in Snapshot
           /\ make_snapshot(s, mode).state = s.state
           /\ make_snapshot(s, mode).slots = s.slots
           /\ make_snapshot(s, mode).preview_result = s.preview_result
           /\ Previewed(make_snapshot(s, mode)) <=> s.state = "preview"
<1>1. /\ make_snapshot(s, mode) \in Snapshot
      /\ make_snapshot(s, mode).state = s.state
      /\ make_snapshot(s, mode).slots = s.slots
      /\ make_snapshot(s, mode).preview_result = s.preview_result
  BY DEF make_snapshot, Snapshot, IntentSession
<1> QED
  BY <1>1, PageAssumption DEF Previewed

LEMMA PreviewedSnapshot ==
    ASSUME NEW v \in Snapshot
    PROVE  v # Nil /\ (Previewed(v) <=> v.state = "preview")
BY PageAssumption DEF Previewed

(* The preview the client knows is the one there is.                       *)
LEMMA KnownPreview ==
    ASSUME NEW s \in IntentSession, mode \in ConfirmationModes, s.state \notin {"commit", "archive"},
           NEW v, NEW ups \in Seq(Snapshot), NEW q,
           Order(s, v, ups, q), Newest(v, ups) = make_snapshot(s, mode), Previewed(v)
    PROVE  /\ s.state = "preview" => ups = <<>> /\ v = make_snapshot(s, mode)
           /\ \A i \in DOMAIN ups : ups[i].state # "preview"
<1>1. \A i \in DOMAIN ups : ups[i].state # "preview"
  BY DEF Order
<1>2. ASSUME ups # <<>> PROVE s.state # "preview"
  <2>1. Len(ups) \in DOMAIN ups
    BY <1>2, TailOf
  <2>2. ups[Len(ups)] = make_snapshot(s, mode)
    BY <1>2 DEF Newest
  <2> QED
    BY <1>1, <2>1, <2>2, SnapshotFields
<1> QED
  BY <1>1, <1>2 DEF Newest

(* A command is given to what is on screen.                                *)
LEMMA OrderGiven ==
    ASSUME NEW s \in IntentSession, mode \in ConfirmationModes,
           NEW v, NEW ups \in Seq(Snapshot), NEW q \in Seq(Command), NEW c \in Command,
           Order(s, v, ups, q), Newest(v, ups) = make_snapshot(s, mode),
           c.seen = Nil \/ (Previewed(v) /\ c.seen = PreviewOf(v)),
           c.op = "preview" => ~Previewed(v)
    PROVE  Order(s, v, ups, Append(q, c))
<1>1. CASE s.state \in {"commit", "archive"}
  BY <1>1 DEF Order
<1>2. CASE s.state \notin {"commit", "archive"} /\ Previewed(v)
  <2>1. /\ s.state = "preview" => \A i \in DOMAIN q : q[i].seen \in {Nil, PreviewOf(make_snapshot(s, mode))}
        /\ ~RejectsThenAsks(q)
        /\ s.state # "preview" => ~Asks(q)
        /\ \A i \in DOMAIN ups : ups[i].state = "preview" => i = Len(ups) /\ ~Previewed(v)
    BY <1>2 DEF Order
  <2>2. s.state = "preview" => c.seen \in {Nil, PreviewOf(make_snapshot(s, mode))}
    BY <1>2, KnownPreview
  <2>3. s.state = "preview" =>
            \A i \in DOMAIN Append(q, c) : Append(q, c)[i].seen \in {Nil, PreviewOf(make_snapshot(s, mode))}
    BY <2>1, <2>2, AppendOf
  <2>4. /\ ~RejectsThenAsks(Append(q, c))
        /\ s.state # "preview" => ~Asks(Append(q, c))
    BY <1>2, <2>1, AppendOrder
  <2> QED
    BY <1>2, <2>1, <2>3, <2>4 DEF Order
<1>3. CASE s.state \notin {"commit", "archive"} /\ ~Previewed(v)
  <2>1. /\ s.state = "preview" => \A i \in DOMAIN q : q[i].seen \in {Nil, PreviewOf(make_snapshot(s, mode))}
        /\ s.state = "preview" => ~Looks(q)
        /\ ~AsksThenLooks(q)
        /\ \A i \in DOMAIN ups : ups[i].state = "preview" => i = Len(ups) /\ ~Previewed(v)
    BY <1>3 DEF Order
  <2>2. c.seen = Nil
    BY <1>3
  <2>3. s.state = "preview" =>
            \A i \in DOMAIN Append(q, c) : Append(q, c)[i].seen \in {Nil, PreviewOf(make_snapshot(s, mode))}
    BY <2>1, <2>2, AppendOf
  <2>4. /\ ~AsksThenLooks(Append(q, c))
        /\ s.state = "preview" => ~Looks(Append(q, c))
    BY <2>1, <2>2, AppendOrder
  <2> QED
    BY <1>3, <2>1, <2>3, <2>4 DEF Order
<1> QED
  BY <1>1, <1>2, <1>3

(* The client receives the next snapshot.                                  *)
LEMMA OrderDelivered ==
    ASSUME NEW s \in IntentSession, mode \in ConfirmationModes,
           NEW v, NEW ups \in Seq(Snapshot), ups # <<>>, NEW q \in Seq(Command),
           \A i \in DOMAIN q : q[i].op = "reject_preview" => q[i].seen # Nil,
           Order(s, v, ups, q), Newest(v, ups) = make_snapshot(s, mode)
    PROVE  /\ Newest(Head(ups), Tail(ups)) = make_snapshot(s, mode)
           /\ Order(s, Head(ups), Tail(ups), q)
<1>1. PICK h, t : h = Head(ups) /\ t = Tail(ups)
  OBVIOUS
<1>2. /\ h \in Snapshot /\ h = ups[1] /\ t \in Seq(Snapshot)
      /\ Len(ups) \in Nat /\ Len(ups) >= 1 /\ DOMAIN ups = 1..Len(ups) /\ Len(t) = Len(ups) - 1
      /\ \A i \in DOMAIN t : i \in Nat /\ i >= 1 /\ i + 1 \in DOMAIN ups /\ t[i] = ups[i + 1]
  BY <1>1, TailOf
<1>3. Previewed(h) <=> h.state = "preview"
  BY <1>2, PreviewedSnapshot
<1>4. ups[Len(ups)] = make_snapshot(s, mode)
  BY DEF Newest
<1>5. Newest(h, t) = make_snapshot(s, mode)
  BY <1>1, NewestDelivered
<1>6. CASE s.state \in {"commit", "archive"}
  BY <1>1, <1>5, <1>6 DEF Order
<1>7. CASE s.state \notin {"commit", "archive"}
  <2>1. \A i \in DOMAIN ups : ups[i].state = "preview" => i = Len(ups) /\ ~Previewed(v)
    BY <1>7 DEF Order
  <2>2. \A i \in DOMAIN t : t[i].state = "preview" => i = Len(t) /\ ~Previewed(h)
    <3>1. SUFFICES ASSUME NEW i \in DOMAIN t, t[i].state = "preview"
                   PROVE  i = Len(t) /\ ~Previewed(h)
      OBVIOUS
    <3>2. i + 1 = Len(ups)
      BY <1>2, <2>1, <3>1
    <3>3. 1 # Len(ups)
      BY <1>2, <3>1, <3>2
    <3> QED
      BY <1>2, <1>3, <2>1, <3>2, <3>3
  <2>3. s.state = "preview" => ~Previewed(v)
    BY <1>7, KnownPreview
  <2>4. CASE ~Previewed(h)
    <3>1. ~AsksThenLooks(q)
      <4>1. CASE ~Previewed(v)
        BY <1>7, <4>1 DEF Order
      <4>2. CASE Previewed(v)
        BY <1>7, <2>3, <4>2 DEF Order, Asks, AsksThenLooks
      <4> QED
        BY <4>1, <4>2
    <3> QED
      BY <1>1, <1>5, <1>7, <2>2, <2>3, <2>4, <3>1 DEF Order
  <2>5. CASE Previewed(h)
    <3>1. 1 = Len(ups) /\ ~Previewed(v)
      BY <1>2, <1>3, <2>1, <2>5
    <3>2. h = make_snapshot(s, mode)
      BY <1>2, <1>4, <3>1
    <3>3. s.state = "preview"
      BY <2>5, <3>2, SnapshotFields
    <3>4. ~Looks(q)
      BY <3>1, <3>3 DEF Order
    <3>5. ~RejectsThenAsks(q)
      BY <3>4 DEF Looks, RejectsThenAsks
    <3> QED
      BY <1>1, <1>5, <1>7, <2>2, <2>5, <3>3, <3>5 DEF Order
  <2> QED
    BY <2>4, <2>5
<1> QED
  BY <1>6, <1>7

LEMMA OrderTail ==
    ASSUME NEW s, NEW v, NEW ups, NEW q \in Seq(Command), q # <<>>, Order(s, v, ups, q)
    PROVE  Order(s, v, ups, Tail(q))
<1>1. s.state = "preview" =>
          \A i \in DOMAIN Tail(q) : Tail(q)[i].seen \in {Nil, PreviewOf(make_snapshot(s, mode))}
  BY TailOf DEF Order
<1> QED
  BY <1>1, TailOrder DEF Order

(* The server changes the session, from s to t, and sends a snapshot.      *)
LEMMA OrderChanged ==
    ASSUME NEW s \in IntentSession, NEW t \in IntentSession, mode \in ConfirmationModes,
           NEW v, NEW ups \in Seq(Snapshot), NEW q \in Seq(Command),
           Order(s, v, ups, q), Newest(v, ups) = make_snapshot(s, mode), s.state # "preview",
           t.state \in {"fill", "clarification"},
           s.state \in {"fill", "clarification"}
    PROVE  Order(t, v, Append(ups, make_snapshot(t, mode)), q)
<1>1. \A i \in DOMAIN ups : ups[i].state # "preview"
  <2>1. SUFFICES ASSUME NEW i \in DOMAIN ups, ups[i].state = "preview" PROVE FALSE
    OBVIOUS
  <2>2. i = Len(ups) /\ ups # <<>>
    BY <2>1, EmptySeq DEF Order
  <2>3. ups[i] = make_snapshot(s, mode)
    BY <2>2 DEF Newest
  <2> QED
    BY <2>1, <2>3, SnapshotFields
<1>2. make_snapshot(t, mode) \in Snapshot /\ make_snapshot(t, mode).state # "preview"
  BY SnapshotFields
<1>3. \A i \in DOMAIN Append(ups, make_snapshot(t, mode)) : Append(ups, make_snapshot(t, mode))[i].state # "preview"
  BY <1>1, <1>2, AppendOf
<1> QED
  BY <1>3 DEF Order

LEMMA OrderOver ==
    ASSUME NEW t, NEW v, NEW ups, NEW q, t.state \in {"commit", "archive"}
    PROVE  Order(t, v, ups, q)
BY DEF Order

LEMMA OrderPreviewed ==
    ASSUME NEW s \in IntentSession, NEW t \in IntentSession, mode \in ConfirmationModes,
           NEW v, NEW ups \in Seq(Snapshot), NEW q \in Seq(Command), q # <<>>,
           Order(s, v, ups, q), Newest(v, ups) = make_snapshot(s, mode),
           s.state = "fill", t.state = "preview", Head(q).op = "preview"
    PROVE  Order(t, v, Append(ups, make_snapshot(t, mode)), Tail(q))
<1>1. Asks(q)
  BY TailOf DEF Asks
<1>2. ~Previewed(v) /\ ~AsksThenLooks(q)
  BY <1>1 DEF Order
<1>3. ~Looks(Tail(q)) /\ ~AsksThenLooks(Tail(q))
  BY <1>2, TailOrder
<1>4. \A i \in DOMAIN Tail(q) : Tail(q)[i].seen = Nil
  BY <1>3 DEF Looks
<1>5. \A i \in DOMAIN ups : ups[i].state # "preview"
  <2>1. SUFFICES ASSUME NEW i \in DOMAIN ups, ups[i].state = "preview" PROVE FALSE
    OBVIOUS
  <2>2. i = Len(ups) /\ ups # <<>>
    BY <2>1, EmptySeq DEF Order
  <2>3. ups[i] = make_snapshot(s, mode)
    BY <2>2 DEF Newest
  <2> QED
    BY <2>1, <2>3, SnapshotFields
<1>6. PICK m \in Snapshot : m = make_snapshot(t, mode)
  BY SnapshotFields
<1>7. \A i \in DOMAIN Append(ups, m) : Append(ups, m)[i].state = "preview" => i = Len(Append(ups, m))
  BY <1>5, AppendOf
<1> QED
  BY <1>2, <1>3, <1>4, <1>6, <1>7 DEF Order

LEMMA OrderRejected ==
    ASSUME NEW s \in IntentSession, NEW t \in IntentSession, mode \in ConfirmationModes,
           NEW v, NEW ups \in Seq(Snapshot), NEW q \in Seq(Command), q # <<>>,
           Order(s, v, ups, q), Newest(v, ups) = make_snapshot(s, mode),
           s.state = "preview", t.state = "fill",
           Head(q).op = "reject_preview", Head(q).seen # Nil
    PROVE  Order(t, v, Append(ups, make_snapshot(t, mode)), Tail(q))
<1>1. Looks(q)
  BY TailOf DEF Looks
<1>2. Previewed(v)
  BY <1>1 DEF Order
<1>3. ~RejectsThenAsks(q)
  BY <1>2 DEF Order
<1>4. ~Asks(Tail(q)) /\ ~RejectsThenAsks(Tail(q))
  BY <1>3, TailOrder
<1>5. \A i \in DOMAIN ups : ups[i].state # "preview"
  BY <1>2 DEF Order
<1>6. PICK m \in Snapshot : m = make_snapshot(t, mode) /\ m.state = "fill"
  BY SnapshotFields
<1>7. \A i \in DOMAIN Append(ups, m) : Append(ups, m)[i].state # "preview"
  BY <1>5, <1>6, AppendOf
<1> QED
  BY <1>2, <1>4, <1>6, <1>7 DEF Order

-----------------------------------------------------------------------------
(* What the server makes of the session *)

LEMMA GrownSelf ==
    ASSUME NEW slots
    PROVE  Grown(slots, slots)
BY DEF Grown

LEMMA GrownOn ==
    ASSUME NEW a, NEW b, NEW c, Grown(a, b), Grown(b, c)
    PROVE  Grown(a, c)
BY DEF Grown

LEMMA FillGrows ==
    ASSUME NEW s \in IntentSession, NEW n \in SlotNames, NEW w \in Values \cup {Nil},
           NEW t \in fill_slot(s, n, w, Now)
    PROVE  s.state = "fill" /\ t.state = "fill" /\ Grown(s.slots, t.slots)
<1>1. PICK i \in DOMAIN s.slots :
          /\ s.state = "fill" /\ w # Nil
          /\ t = [s EXCEPT !.slots[i].value = w, !.updated_at = Now]
  BY DEF fill_slot, FirstNamed
<1>2. t.slots = [s.slots EXCEPT ![i].value = w] /\ t.state = s.state
  BY <1>1 DEF IntentSession
<1>3. s.slots \in Seq(Slot)
  BY DEF IntentSession
<1>4. Len(s.slots) \in Nat /\ DOMAIN s.slots = 1..Len(s.slots) /\ s.slots \in [1..Len(s.slots) -> Slot]
  BY <1>3, LenProperties
<1>5. PICK old \in [1..Len(s.slots) -> Slot] : old = s.slots
  BY <1>4
<1>6. PICK new : new = [old EXCEPT ![i].value = w] /\ new = t.slots
  BY <1>2, <1>5
<1>7. \A j \in DOMAIN old : /\ new[j].required = old[j].required
                            /\ old[j].value # Nil => new[j].value # Nil
  BY <1>1, <1>4, <1>5, <1>6 DEF Slot
<1>8. DOMAIN new = DOMAIN old
  BY <1>6
<1> QED
  BY <1>1, <1>2, <1>5, <1>6, <1>7, <1>8 DEF Grown

(* What one command can do.                                                *)
Serves(s, t, c) ==
    \/ t.state \in {"commit", "archive"} /\ (t.state = "commit" => s.state = "preview" /\ c.op = "confirm")
    \/ s.state = "fill" /\ t.state = "fill"
    \/ s.state = "fill" /\ t.state = "preview" /\ c.op = "preview"
    \/ s.state = "preview" /\ t.state = "fill" /\ c.op = "reject_preview"

LEMMA CommandServes ==
    ASSUME SessionSound, NEW c \in Command, CommandSound(c), NEW t \in Results(c)
    PROVE  /\ t \in IntentSession /\ SoundSession(t) /\ Grown(session.slots, t.slots)
           /\ Serves(session, t, c)
<1>0. session \in IntentSession /\ SoundSession(session) /\ Now \in Nat
  BY DEF SessionSound, Now
<1>1. /\ c.op \in {"fill_slot", "preview", "confirm", "reject_preview", "cancel"}
      /\ c.value \in Values \cup {Nil}
  BY DEF Command
<1>2. CASE c.op = "fill_slot"
  <2>1. t \in fill_slot(session, c.slot, c.value, Now) /\ c.slot \in SlotNames
    BY <1>2 DEF Results, CommandSound
  <2>2. t \in IntentSession /\ SoundSession(t)
    BY <1>0, <1>1, <2>1, FillSlotSound DEF Touched
  <2> QED
    BY <1>0, <1>1, <2>1, <2>2, FillGrows DEF Serves
<1>3. CASE c.op = "preview"
  <2>1. t \in preview(session, Params(session.slots), Now)
    BY <1>3 DEF Results
  <2>2. t \in IntentSession /\ SoundSession(t)
    BY <1>0, <2>1, PreviewSound DEF Touched
  <2>3. session.state = "fill" /\ t.state = "preview" /\ t.slots = session.slots
    BY <1>0, <2>1 DEF preview, Accepted, transition_to, IntentSession
  <2> QED
    BY <1>3, <2>2, <2>3, GrownSelf DEF Serves
<1>4. CASE c.op = "confirm"
  <2>1. t \in confirm(session, Now)
    BY <1>4 DEF Results
  <2>2. t \in IntentSession /\ SoundSession(t)
    BY <1>0, <2>1, ConfirmSound DEF Touched
  <2>3. session.state = "preview" /\ t.state = "commit" /\ t.slots = session.slots
    BY <1>0, <2>1 DEF confirm, Accepted, transition_to, IntentSession
  <2> QED
    BY <1>4, <2>2, <2>3, GrownSelf DEF Serves
<1>5. CASE c.op = "reject_preview"
  <2>1. t \in reject_preview(session, Now)
    BY <1>5 DEF Results
  <2>2. t \in IntentSession /\ SoundSession(t)
    BY <1>0, <2>1, RejectPreviewSound DEF Touched
  <2>3. session.state = "preview" /\ t.state = "fill" /\ t.slots = session.slots
    BY <1>0, <2>1 DEF reject_preview, Accepted, transition_to, IntentSession
  <2> QED
    BY <1>5, <2>2, <2>3, GrownSelf DEF Serves
<1>6. CASE c.op = "cancel"
  <2>1. t \in cancel(session, Nil, Now)
    BY <1>6 DEF Results
  <2>2. t \in IntentSession /\ SoundSession(t)
    BY <1>0, <2>1, CancelSound DEF Touched
  <2>3. t.state = "archive" /\ t.slots = session.slots
    BY <1>0, <2>1 DEF cancel, Accepted, transition_to, IntentSession
  <2> QED
    BY <2>2, <2>3, GrownSelf DEF Serves
<1> QED
  BY <1>1, <1>2, <1>3, <1>4, <1>5, <1>6

(* What the engine and the clock can do.                                   *)
LEMMA ProceedServes ==
    ASSUME SessionSound,
           NEW t \in UNION ({request_clarification(session, q, Now) : q \in Texts}
                            \cup {accept_clarification(session, Nil, Now),
                                  complete(session, Nil, Now), expire(session, Now)})
    PROVE  /\ t \in IntentSession /\ SoundSession(t) /\ Grown(session.slots, t.slots)
           /\ \/ t.state = "archive"
              \/ session.state \in {"fill", "clarification"} /\ t.state \in {"fill", "clarification"}
<1>0. session \in IntentSession /\ SoundSession(session) /\ Now \in Nat
  BY DEF SessionSound, Now
<1>1. ASSUME NEW q \in Texts, t \in request_clarification(session, q, Now)
      PROVE  /\ t \in IntentSession /\ SoundSession(t) /\ t.slots = session.slots
             /\ session.state = "fill" /\ t.state = "clarification"
  <2>1. t \in IntentSession /\ SoundSession(t)
    BY <1>0, <1>1, RequestClarificationSound DEF Touched
  <2> QED
    BY <1>0, <1>1, <2>1 DEF request_clarification, Accepted, transition_to, IntentSession
<1>2. ASSUME t \in accept_clarification(session, Nil, Now)
      PROVE  /\ t \in IntentSession /\ SoundSession(t) /\ t.slots = session.slots
             /\ session.state = "clarification" /\ t.state = "fill"
  <2>1. t \in IntentSession /\ SoundSession(t)
    BY <1>0, <1>2, AcceptClarificationSound DEF Touched
  <2> QED
    BY <1>0, <1>2, <2>1 DEF accept_clarification, Accepted, transition_to, IntentSession
<1>3. ASSUME t \in complete(session, Nil, Now)
      PROVE  t \in IntentSession /\ SoundSession(t) /\ t.slots = session.slots /\ t.state = "archive"
  <2>1. t \in IntentSession /\ SoundSession(t)
    BY <1>0, <1>3, CompleteSound DEF Touched
  <2> QED
    BY <1>0, <1>3, <2>1 DEF complete, Accepted, transition_to, IntentSession
<1>4. ASSUME t \in expire(session, Now)
      PROVE  t \in IntentSession /\ SoundSession(t) /\ t.slots = session.slots /\ t.state = "archive"
  <2>1. t \in IntentSession /\ SoundSession(t)
    BY <1>0, <1>4, ExpireSound DEF Touched
  <2> QED
    BY <1>0, <1>4, <2>1 DEF expire, Accepted, transition_to, IntentSession
<1>5. \/ \E q \in Texts : t \in request_clarification(session, q, Now)
      \/ t \in accept_clarification(session, Nil, Now)
      \/ t \in complete(session, Nil, Now)
      \/ t \in expire(session, Now)
  OBVIOUS
<1>6. t.slots = session.slots => Grown(session.slots, t.slots)
  BY GrownSelf
<1> QED
  BY <1>1, <1>2, <1>3, <1>4, <1>5, <1>6

-----------------------------------------------------------------------------
(* What the button's callbacks leave of it *)

LEMMA SoundButton ==
    ASSUME NEW b, ButtonSound(b)
    PROVE  b \in Button /\ UsableWorks(b)
<1>1. b \in ButtonRecord /\ CountdownAdds(b) /\ AsRendered(b) /\ (b.enabled => b.shadow)
  BY DEF ButtonSound
<1>2. b \in Button
  BY <1>1 DEF Button, ButtonRecord, ConfirmationModes, Seconds
<1>3. ASSUME b.enabled, b.due # NaN, b.due >= 0 PROVE b.click # "none"
  <2>1. b.click = OnClick(b) /\ (b.mode # "typed" => Enabled(b))
    BY <1>1, <1>3 DEF AsRendered
  <2>2. b.mode \in ConfirmationModes
    BY <1>1 DEF ButtonRecord
  <2>3. b.remaining # NaN /\ ~(b.remaining < 0)
    <3>1. b.due \in Int /\ b.remaining # NaN /\ (b.remaining < 0 => b.due < 0)
      BY <1>1, <1>3, ButtonNumbers DEF CountdownAdds
    <3> QED
      BY <1>3, <3>1
  <2>4. b.mode = "cooling_off" => b.remaining = 0
    <3>1. b.mode = "cooling_off" => ~(b.remaining > 0)
      BY <2>1, <2>3 DEF Enabled, Positive
    <3>2. b.remaining \in Int
      BY <1>1, <2>3, ButtonNumbers
    <3> QED
      BY <2>3, <3>1, <3>2
  <2>5. CASE b.mode \in {"single", "typed", "cooling_off"}
    BY <2>1, <2>4, <2>5 DEF OnClick
  <2>6. CASE b.mode = "multi_party"
    BY <2>1, <2>6 DEF OnClick, Enabled
  <2>7. CASE b.mode = "automatic"
    BY <2>1, <2>7 DEF Enabled
  <2> QED
    BY <2>2, <2>5, <2>6, <2>7 DEF ConfirmationModes
<1> QED
  BY <1>2, <1>3 DEF UsableWorks

LEMMA ConnectConnects ==
    ASSUME NEW b \in ButtonRecord
    PROVE  connectedCallback(b).connected
<1> DEFINE attached == [b EXCEPT !.connected = TRUE, !.shadow = TRUE]
           first == render(attached)
<1>1. first \in ButtonRecord /\ first.connected
  <2>1. attached \in ButtonRecord /\ attached.connected
    BY DEF ButtonRecord
  <2> HIDE DEF attached
  <2> QED
    BY <2>1, RenderFields
<1> HIDE DEF first
<1>2. startCooldown(first).connected
  <2> DEFINE begun == [first EXCEPT !.remaining = first.cooling]
             r == render(begun)
  <2>1. begun \in ButtonRecord /\ begun.connected
    BY <1>1, ButtonNumbers DEF ButtonRecord
  <2> HIDE DEF begun
  <2>2. r \in ButtonRecord /\ r.connected
    BY <2>1, RenderFields
  <2> HIDE DEF r
  <2>3. [r EXCEPT !.timer = TRUE, !.due = first.cooling].connected
    BY <2>2 DEF ButtonRecord
  <2> QED
    BY <2>3 DEF startCooldown, r, begun
<1>3. CASE b.shadow
  BY <1>3 DEF connectedCallback, ButtonRecord
<1>4. CASE ~b.shadow
  BY <1>1, <1>2, <1>4 DEF connectedCallback, first
<1> QED
  BY <1>3, <1>4

LEMMA AttributeConnected ==
    ASSUME NEW b, NEW changed \in ButtonRecord
    PROVE  attributeChangedCallback(b, changed).connected = changed.connected
BY RenderFields DEF attributeChangedCallback

LEMMA ModeConnected ==
    ASSUME NEW b \in ButtonRecord, mode \in ConfirmationModes
    PROVE  with_mode(b).connected = b.connected
<1> DEFINE changed == [b EXCEPT !.mode = mode]
<1>1. changed \in ButtonRecord /\ changed.connected = b.connected
  BY DEF ButtonRecord
<1> HIDE DEF changed
<1>2. attributeChangedCallback(b, changed).connected = b.connected
  BY <1>1, AttributeConnected
<1> QED
  BY <1>2 DEF with_mode, changed

LEMMA InsertedConnected ==
    ASSUME NEW b, ButtonSound(b), mode \in ConfirmationModes
    PROVE  inserted(b).connected
<1>1. ButtonSound(connectedCallback(b)) /\ ButtonSound(with_mode(b))
  BY ConnectSound, ModeSound
<1>2. b \in ButtonRecord /\ connectedCallback(b) \in ButtonRecord /\ with_mode(b) \in ButtonRecord
  BY <1>1 DEF ButtonSound
<1>3. connectedCallback(b).connected /\ connectedCallback(with_mode(b)).connected
  BY <1>2, ConnectConnects
<1>4. with_mode(connectedCallback(b)).connected
  BY <1>2, <1>3, ModeConnected
<1> QED
  BY <1>3, <1>4 DEF inserted

LEMMA FreshConnected ==
    ASSUME NEW b, Fresh(b)
    PROVE  ~b.connected
<1>1. PICK p, c : b = element(p, c)
  BY DEF Fresh
<1> QED
  BY <1>1 DEF element

(* The callbacks that leave the element where it is.                       *)
LEMMA TickedConnected ==
    ASSUME NEW b, ButtonSound(b), b.shadow, NEW w
    PROVE  [ticked(b) EXCEPT !.waited = w].connected = b.connected
<1> DEFINE left == IF b.remaining = NaN THEN NaN ELSE Max({0, b.remaining - 1})
           begun == [b EXCEPT !.remaining = left]
           r == render(begun)
<1>1. r.connected = b.connected /\ DOMAIN r = DOMAIN b
  BY DEF render, ButtonSound, ButtonRecord
<1>2. ticked(b) = r \/ ticked(b) = stopCooldown(r)
  BY DEF ticked
<1>3. DOMAIN b = {"mode", "phrase", "cooling", "pending", "disabled", "connected", "shadow",
                  "remaining", "timer", "input", "enabled", "click", "due", "waited"}
  BY DEF ButtonSound, ButtonRecord
<1> HIDE DEF r
<1> QED
  BY <1>1, <1>2, <1>3 DEF stopCooldown

LEMMA SentConnected ==
    ASSUME NEW b \in ButtonRecord
    PROVE  sent(b).connected = b.connected
<1> DEFINE p == [b EXCEPT !.pending = TRUE]
<1>1. p \in ButtonRecord /\ p.connected = b.connected
  BY DEF ButtonRecord
<1> HIDE DEF p
<1> QED
  BY <1>1, RenderFields DEF sent, p

-----------------------------------------------------------------------------
(* What survives a change of the session *)

LEMMA StaysFaithful ==
    ASSUME NEW x, NEW s, NEW t, Faithful(x, s), Grown(s.slots, t.slots)
    PROVE  Faithful(x, t)
BY GrownOn DEF Faithful

LEMMA StaysFilled ==
    ASSUME NEW s, NEW t, Grown(s.slots, t.slots), all_required_slots_filled(s)
    PROVE  all_required_slots_filled(t)
BY DEF Grown, all_required_slots_filled, is_filled

LEMMA StaysCommand ==
    ASSUME NEW c, CommandSound(c), Grown(session.slots, session'.slots), UNCHANGED host
    PROVE  CommandSound(c)'
BY StaysFilled DEF CommandSound

LEMMA SoundSnapshot ==
    ASSUME NEW s \in IntentSession, SoundSession(s), mode \in ConfirmationModes
    PROVE  Faithful(make_snapshot(s, mode), s)
<1>1. PICK x : x = make_snapshot(s, mode)
  OBVIOUS
<1>2. x \in Snapshot /\ x.state = s.state /\ x.slots = s.slots /\ x.preview_result = s.preview_result
  BY <1>1, SnapshotFields
<1>3. s.slots \in Seq(Slot)
  BY DEF IntentSession
<1>4. s.state = "preview" => s.preview_result \in Seq(Values \cup {Nil})
  BY <1>3, ParamsType DEF SoundSession, ShownIsCurrent
<1>5. Faithful(x, s)
  BY <1>2, <1>4, GrownSelf DEF Faithful
<1> QED
  BY <1>1, <1>5

(* The server has changed the session and sent its snapshot.               *)
LEMMA ChangedSound ==
    ASSUME SessionSound, SnapshotsSound,
           session' \in IntentSession, SoundSession(session'), Grown(session.slots, session'.slots),
           Len(updates) < MaxUpdates,
           updates' = Append(updates, make_snapshot(session', mode)),
           UNCHANGED <<mode, view, copy, shown>>
    PROVE  SessionSound' /\ SnapshotsSound'
<1>1. PICK t, x, u : t = session' /\ x = make_snapshot(session', mode) /\ u = updates
  OBVIOUS
<1>2. x \in Snapshot /\ Faithful(x, t)
  BY <1>1, SnapshotFields, SoundSnapshot DEF SessionSound
<1>3. /\ updates' \in Seq(Snapshot) /\ updates' # <<>>
      /\ Len(u) \in Nat /\ Len(updates') = Len(u) + 1
      /\ updates'[Len(u) + 1] = x
      /\ \A i \in DOMAIN updates' : i \in DOMAIN u \/ i = Len(u) + 1
      /\ \A i \in DOMAIN u : updates'[i] = u[i]
  BY <1>1, <1>2, AppendOf DEF SnapshotsSound
<1>4. Newest(view', updates') = x
  BY <1>3 DEF Newest
<1>5. Len(updates') <= MaxUpdates
  BY <1>1, <1>3, PageAssumption
<1>6. \A y : Faithful(y, session) => Faithful(y, t)
  BY <1>1, StaysFaithful
<1>7. \A y \in {view', copy', shown'} : y # Nil => Faithful(y, t)
  BY <1>6 DEF SnapshotsSound
<1>8. \A i \in DOMAIN updates' : Faithful(updates'[i], t)
  <2>1. \A i \in DOMAIN u : Faithful(u[i], t)
    BY <1>1, <1>6 DEF SnapshotsSound
  <2> QED
    BY <1>2, <1>3, <2>1
<1>9. (Newest(view, updates) = make_snapshot(session, mode))'
  BY <1>1, <1>4 DEF Newest, make_snapshot
<1>10. SnapshotsSound'
  BY <1>1, <1>3, <1>5, <1>7, <1>8, <1>9 DEF SnapshotsSound, Faithful
<1>11. SessionSound'
  BY DEF SessionSound, SoundSession, RequiredFilled, ShownIsCurrent, NoStalePreview,
     QuestionMatchesState, ReasonMatchesState
<1> QED
  BY <1>10, <1>11

LEMMA CommandsStay ==
    ASSUME CommandsSound, Grown(session.slots, session'.slots), UNCHANGED host,
           commands' = commands \/ (commands # <<>> /\ commands' = Tail(commands))
    PROVE  CommandsSound'
<1>1. commands \in Seq(Command) /\ Len(commands) <= MaxCommands + 1
  BY DEF CommandsSound
<1>2. /\ commands' \in Seq(Command) /\ Len(commands') <= MaxCommands + 1
      /\ \A i \in DOMAIN commands' : \E j \in DOMAIN commands : commands'[i] = commands[j]
  <2>1. CASE commands' = commands
    BY <1>1, <2>1
  <2>2. CASE commands # <<>> /\ commands' = Tail(commands)
    <3>1. PICK n \in Nat, m \in Int : /\ n = Len(commands) /\ m = Len(commands') /\ m = n - 1
                              /\ commands' \in Seq(Command)
      BY <1>1, <2>2, TailOf
    <3>2. m <= MaxCommands + 1
      BY <1>1, <3>1, PageAssumption
    <3>3. \A i \in DOMAIN commands' : \E j \in DOMAIN commands : commands'[i] = commands[j]
      BY <1>1, <2>2, TailOf
    <3> QED
      BY <3>1, <3>2, <3>3
  <2> QED
    BY <2>1, <2>2
<1>3. ASSUME NEW i \in DOMAIN commands' PROVE CommandSound(commands[i])'
  <2>1. PICK j \in DOMAIN commands : commands'[i] = commands[j]
    BY <1>2, <1>3
  <2>2. PICK c : c = commands[j]
    OBVIOUS
  <2>3. CommandSound(c)
    BY <2>1, <2>2 DEF CommandsSound
  <2>4. CommandSound(c)'
    BY <2>3, StaysCommand
  <2> QED
    BY <2>1, <2>2, <2>4 DEF CommandSound
<1> QED
  BY <1>2, <1>3 DEF CommandsSound

LEMMA OrderPrimed ==
    ASSUME NEW s, NEW v, NEW ups, NEW q, Order(s, v, ups, q), UNCHANGED mode,
           s = session', v = view', ups = updates', q = commands'
    PROVE  Order(session, view, updates, commands)'
BY DEF Order

-----------------------------------------------------------------------------
(* The server's steps *)

LEMMA ServeKeeps ==
    ASSUME PageSound, PageIInv, Serve
    PROVE  PageIInv'
<1> USE DEF server_vars, view_vars
<1>1. PICK c, q : c = Head(commands) /\ q = commands
  OBVIOUS
<1>2. /\ commands # <<>> /\ q \in Seq(Command) /\ c \in Command /\ CommandSound(c)
      /\ commands' = Tail(q)
  <2>1. commands # <<>> /\ commands \in Seq(Command)
    BY DEF Serve, PageIInv, CommandsSound
  <2>2. Head(commands) = commands[1] /\ 1 \in DOMAIN commands /\ Head(commands) \in Command
    BY <2>1, TailOf
  <2> QED
    BY <1>1, <2>1, <2>2 DEF Serve, PageIInv, CommandsSound
<1>3. CASE Results(c) = {} /\ UNCHANGED <<view_vars, server_vars, host, button>>
  <2>1. CommandsSound'
    BY <1>1, <1>2, <1>3, CommandsStay, GrownSelf DEF PageIInv
  <2>2. SessionSound' /\ SnapshotsSound' /\ ViewSound' /\ HostFits'
    BY <1>3 DEF PageIInv, SessionSound, SnapshotsSound, ViewSound, HostFits, Tracking
  <2>3. OrderSound'
    <3>1. SUFFICES ASSUME Tracking PROVE Order(session, view, updates, commands)'
      BY <1>3 DEF OrderSound, Tracking
    <3>2. Order(session, view, updates, Tail(q))
      BY <1>1, <1>2, <3>1, OrderTail DEF PageIInv, OrderSound
    <3>3. PICK s, v, u, t : s = session /\ v = view /\ u = updates /\ t = Tail(q)
      OBVIOUS
    <3>4. Order(s, v, u, t)
      BY <3>2, <3>3
    <3> QED
      BY <1>2, <1>3, <3>3, <3>4, OrderPrimed
  <2> QED
    BY <2>1, <2>2, <2>3 DEF PageIInv
<1>4. CASE Changed(Results(c))
  <2>1. PICK t \in Results(c) : t = session'
    BY <1>4 DEF Changed
  <2>2. /\ t \in IntentSession /\ SoundSession(t) /\ Grown(session.slots, t.slots)
        /\ Serves(session, t, c)
    BY <1>2, <2>1, CommandServes DEF PageIInv
  <2>3. /\ Len(updates) < MaxUpdates /\ updates' = Append(updates, make_snapshot(session', mode))
        /\ UNCHANGED <<mode, view_vars, host, button>>
    BY <1>4 DEF Changed
  <2>4. SessionSound' /\ SnapshotsSound'
    BY <2>1, <2>2, <2>3, ChangedSound DEF PageIInv
  <2>5. CommandsSound'
    BY <1>1, <1>2, <2>1, <2>2, <2>3, CommandsStay DEF PageIInv
  <2>6. ViewSound' /\ HostFits'
    BY <2>3 DEF PageIInv, ViewSound, HostFits, Tracking
  <2>7. OrderSound'
    <3>1. SUFFICES ASSUME Tracking PROVE Order(session, view, updates, commands)'
      BY <2>3 DEF OrderSound, Tracking
    <3>2. PICK s, v, u : s = session /\ v = view /\ u = updates
      OBVIOUS
    <3>3. /\ s \in IntentSession /\ u \in Seq(Snapshot) /\ mode \in ConfirmationModes
          /\ Newest(v, u) = make_snapshot(s, mode) /\ Order(s, v, u, q)
          /\ q # <<>> /\ c = Head(q) /\ Serves(s, t, c)
      BY <1>1, <1>2, <2>2, <3>1, <3>2 DEF PageIInv, SessionSound, SnapshotsSound, OrderSound
    <3>4. Order(t, v, Append(u, make_snapshot(t, mode)), Tail(q))
      <4>1. CASE t.state \in {"commit", "archive"}
        BY <4>1, OrderOver
      <4>2. CASE s.state = "fill" /\ t.state = "fill"
        <5>1. Order(t, v, Append(u, make_snapshot(t, mode)), q)
          BY <1>2, <2>2, <3>3, <4>2, OrderChanged
        <5> QED
          BY <1>2, <3>3, <5>1, OrderTail
      <4>3. CASE s.state = "fill" /\ t.state = "preview" /\ c.op = "preview"
        BY <1>2, <2>2, <3>3, <4>3, OrderPreviewed
      <4>4. CASE s.state = "preview" /\ t.state = "fill" /\ c.op = "reject_preview"
        <5>1. c.seen # Nil
          BY <1>2, <4>4 DEF CommandSound
        <5> QED
          BY <1>2, <2>2, <3>3, <4>4, <5>1, OrderRejected
      <4> QED
        BY <3>3, <4>1, <4>2, <4>3, <4>4 DEF Serves
    <3>5. PICK w, r : w = Append(u, make_snapshot(t, mode)) /\ r = Tail(q)
      OBVIOUS
    <3>6. Order(t, v, w, r)
      BY <3>4, <3>5
    <3> QED
      BY <1>2, <2>1, <2>3, <3>2, <3>5, <3>6, OrderPrimed
  <2> QED
    BY <2>4, <2>5, <2>6, <2>7 DEF PageIInv
<1> QED
  BY <1>1, <1>3, <1>4 DEF Serve

LEMMA ProceedKeeps ==
    ASSUME PageSound, PageIInv, Proceed
    PROVE  PageIInv'
<1> USE DEF server_vars, view_vars
<1>1. PICK t \in UNION ({request_clarification(session, q, Now) : q \in Texts}
                        \cup {accept_clarification(session, Nil, Now),
                              complete(session, Nil, Now), expire(session, Now)}) : t = session'
  BY DEF Proceed, Changed
<1>2. /\ t \in IntentSession /\ SoundSession(t) /\ Grown(session.slots, t.slots)
      /\ \/ t.state = "archive"
         \/ session.state \in {"fill", "clarification"} /\ t.state \in {"fill", "clarification"}
  BY <1>1, ProceedServes DEF PageIInv
<1>3. /\ Len(updates) < MaxUpdates /\ updates' = Append(updates, make_snapshot(session', mode))
      /\ UNCHANGED <<mode, view_vars, host, button, commands>>
  BY DEF Proceed, Changed
<1>4. SessionSound' /\ SnapshotsSound'
  BY <1>1, <1>2, <1>3, ChangedSound DEF PageIInv
<1>5. CommandsSound'
  BY <1>1, <1>2, <1>3, CommandsStay DEF PageIInv
<1>6. ViewSound' /\ HostFits'
  BY <1>3 DEF PageIInv, ViewSound, HostFits, Tracking
<1>7. OrderSound'
  <2>1. SUFFICES ASSUME Tracking PROVE Order(session, view, updates, commands)'
    BY <1>3 DEF OrderSound, Tracking
  <2>2. PICK s, v, u, q : s = session /\ v = view /\ u = updates /\ q = commands
    OBVIOUS
  <2>3. /\ s \in IntentSession /\ u \in Seq(Snapshot) /\ mode \in ConfirmationModes
        /\ q \in Seq(Command)
        /\ Newest(v, u) = make_snapshot(s, mode) /\ Order(s, v, u, q)
    BY <2>1, <2>2 DEF PageIInv, SessionSound, SnapshotsSound, CommandsSound, OrderSound
  <2>4. PICK w : w = Append(u, make_snapshot(t, mode))
    OBVIOUS
  <2>5. Order(t, v, w, q)
    <3>1. CASE t.state = "archive"
      BY <3>1, OrderOver
    <3>2. CASE s.state \in {"fill", "clarification"} /\ t.state \in {"fill", "clarification"}
      BY <1>2, <2>3, <2>4, <3>2, OrderChanged
    <3> QED
      BY <1>2, <2>2, <3>1, <3>2
  <2> QED
    BY <1>1, <1>3, <2>2, <2>4, <2>5, OrderPrimed
<1> QED
  BY <1>4, <1>5, <1>6, <1>7 DEF PageIInv

-----------------------------------------------------------------------------
(* What the page sends *)

LEMMA NilIsNoPreview == ~Previewed(Nil) /\ ~Filling(Nil)
BY DEF Previewed, Filling

LEMMA PreviewScreen ==
    ASSUME NEW x, NEW s, Faithful(x, s), Previewed(x)
    PROVE  PreviewOf(x) \in Screen /\ PreviewOf(x) # Nil
<1>1. x \in Snapshot /\ x.state = "preview" /\ x.preview_result \in Seq(Values \cup {Nil})
  BY NilIsNoPreview DEF Faithful, Previewed
<1>2. x.slots \in Seq(Slot)
  BY <1>1 DEF Snapshot
<1>3. PICK slots : slots = x.slots /\ slots \in Seq(Slot)
  BY <1>2
<1>4. \A e \in Range(slots) : e \in Slot
  <2>1. \A i \in DOMAIN slots : slots[i] \in Slot
    BY <1>3, LenProperties
  <2> QED
    BY <2>1 DEF Range
<1>5. \A e \in Range(slots) : e.value # Nil => <<e.name, e.value>> \in SlotNames \X Values
  BY <1>4 DEF Slot
<1>6. Rows(slots) \subseteq SlotNames \X Values
  BY <1>5 DEF Rows
<1>7. PreviewOf(x) \in Screen
  BY <1>1, <1>3, <1>6 DEF PreviewOf, Screen
<1> QED
  BY <1>7, PageAssumption

LEMMA MessageFits ==
    ASSUME NEW op \in {"fill_slot", "preview", "confirm", "reject_preview", "cancel"},
           NEW slot \in SlotNames \cup {Nil}, NEW value \in Values \cup {Nil},
           NEW source \in {"adapter", "preview", "button"},
           NEW screen, screen # Nil => Faithful(screen, session)
    PROVE  /\ message(op, slot, value, source, screen) \in Command
           /\ message(op, slot, value, source, screen).op = op
           /\ message(op, slot, value, source, screen).slot = slot
           /\ IF Previewed(screen)
              THEN /\ message(op, slot, value, source, screen).seen = PreviewOf(screen)
                   /\ message(op, slot, value, source, screen).seen # Nil
              ELSE message(op, slot, value, source, screen).seen = Nil
<1>1. Previewed(screen) => PreviewOf(screen) \in Screen /\ PreviewOf(screen) # Nil
  BY PreviewScreen, NilIsNoPreview
<1>2. PICK seen \in Screen \cup {Nil} : /\ seen = IF Previewed(screen) THEN PreviewOf(screen) ELSE Nil
                                        /\ Previewed(screen) => seen # Nil
  BY <1>1
<1>3. message(op, slot, value, source, screen) =
          [op |-> op, slot |-> slot, value |-> value, source |-> source, seen |-> seen]
  BY <1>2 DEF message
<1> QED
  BY <1>2, <1>3 DEF Command

LEMMA GivenSound ==
    ASSUME CommandsSound, UNCHANGED <<session, host>>, NEW c \in Command, CommandSound(c),
           commands' = Append(commands, c), Len(commands') <= MaxCommands + 1
    PROVE  CommandsSound'
<1>1. commands \in Seq(Command) /\ \A i \in DOMAIN commands : CommandSound(commands[i])
  BY DEF CommandsSound
<1>2. /\ commands' \in Seq(Command)
      /\ \A i \in DOMAIN commands' : commands'[i] = c \/ \E j \in DOMAIN commands : commands'[i] = commands[j]
  BY <1>1, AppendOf
<1>3. ASSUME NEW i \in DOMAIN commands' PROVE CommandSound(commands[i])'
  <2>1. PICK d : d = commands'[i]
    OBVIOUS
  <2>2. CommandSound(d)
    BY <1>1, <1>2, <2>1
  <2>3. CommandSound(d)'
    BY <2>2, StaysCommand, GrownSelf
  <2> QED
    BY <2>1, <2>3 DEF CommandSound
<1> QED
  BY <1>2, <1>3 DEF CommandsSound

(* What an adapter that keeps up shows is the newest snapshot it knows.    *)
LEMMA ShownIsView ==
    ASSUME ViewSound, Tracking, shown # Nil
    PROVE  shown = view
BY DEF ViewSound

(* A message is given to what is on screen, the page does nothing else.    *)
LEMMA SendKeeps ==
    ASSUME PageSound, PageIInv,
           NEW op \in {"fill_slot", "preview", "confirm", "reject_preview", "cancel"},
           NEW slot \in SlotNames \cup {Nil}, NEW value \in Values \cup {Nil},
           NEW source \in {"adapter", "preview", "button"},
           send(op, slot, value, source), UNCHANGED button,
           op = "preview" => Filling(shown) /\ allFilled(shown.slots),
           op = "fill_slot" => slot \in SlotNames,
           op = "reject_preview" => Previewed(shown),
           op = "confirm" /\ host.kind = "per_preview" => Previewed(shown)
    PROVE  PageIInv'
<1> USE DEF server_vars, view_vars
<1>1. PICK c, x : c = message(op, slot, value, source, x) /\ x = shown
  OBVIOUS
<1>2. x # Nil => Faithful(x, session)
  BY <1>1 DEF PageIInv, SnapshotsSound
<1>3. /\ c \in Command /\ c.op = op /\ c.slot = slot
      /\ Previewed(x) => c.seen = PreviewOf(x) /\ c.seen # Nil
      /\ ~Previewed(x) => c.seen = Nil
  <2>1. /\ message(op, slot, value, source, x) \in Command
        /\ message(op, slot, value, source, x).op = op
        /\ message(op, slot, value, source, x).slot = slot
        /\ IF Previewed(x)
           THEN /\ message(op, slot, value, source, x).seen = PreviewOf(x)
                /\ message(op, slot, value, source, x).seen # Nil
           ELSE message(op, slot, value, source, x).seen = Nil
    BY <1>2, MessageFits
  <2> QED
    BY <1>1, <2>1
<1>4. op = "preview" => all_required_slots_filled(session)
  <2>1. SUFFICES ASSUME op = "preview" PROVE all_required_slots_filled(session)
    OBVIOUS
  <2>2. allFilled(x.slots) /\ Grown(x.slots, session.slots)
    BY <1>1, <1>2, <2>1, NilIsNoPreview DEF Faithful
  <2> QED
    BY <2>2 DEF allFilled, Grown, all_required_slots_filled, is_filled
<1>5. CommandSound(c)
  BY <1>1, <1>3, <1>4 DEF CommandSound
<1>6. /\ commands' = Append(commands, c) /\ Len(commands) < MaxCommands
      /\ UNCHANGED <<session, mode, updates, view, adapter, mounted, held, copy, shown, host, button>>
  BY <1>1 DEF send
<1>7. commands \in Seq(Command)
  BY DEF PageIInv, CommandsSound
<1>8. Len(commands') <= MaxCommands + 1
  <2>1. PICK n \in Nat, m \in Int : n = Len(commands) /\ m = Len(commands') /\ m = n + 1
    BY <1>3, <1>6, <1>7, AppendOf
  <2> QED
    BY <1>6, <2>1, PageAssumption
<1>9. CommandsSound'
  BY <1>3, <1>5, <1>6, <1>8, GivenSound DEF PageIInv
<1>10. SessionSound' /\ SnapshotsSound' /\ ViewSound' /\ HostFits'
  BY <1>6 DEF PageIInv, SessionSound, SnapshotsSound, ViewSound, HostFits, Tracking
<1>11. OrderSound'
  <2>1. SUFFICES ASSUME Tracking PROVE Order(session, view, updates, commands)'
    BY <1>6 DEF OrderSound, Tracking
  <2>2. PICK s, v, u, q : s = session /\ v = view /\ u = updates /\ q = commands
    OBVIOUS
  <2>3. /\ s \in IntentSession /\ u \in Seq(Snapshot) /\ mode \in ConfirmationModes
        /\ q \in Seq(Command)
        /\ Newest(v, u) = make_snapshot(s, mode) /\ Order(s, v, u, q)
    BY <1>7, <2>1, <2>2 DEF PageIInv, SessionSound, SnapshotsSound, OrderSound
  <2>4. x # Nil => x = v
    BY <1>1, <2>1, <2>2, ShownIsView DEF PageIInv
  <2>5. c.seen = Nil \/ (Previewed(v) /\ c.seen = PreviewOf(v))
    BY <1>3, <2>4, NilIsNoPreview
  <2>6. c.op = "preview" => ~Previewed(v)
    <3>1. c.op = "preview" => Filling(x) /\ x # Nil
      BY <1>1, <1>3, NilIsNoPreview
    <3>2. Filling(x) => ~Previewed(x)
      BY DEF Filling, Previewed
    <3> QED
      BY <2>4, <3>1, <3>2
  <2>7. Order(s, v, u, Append(q, c))
    BY <1>3, <2>3, <2>5, <2>6, OrderGiven
  <2>8. PICK r : r = Append(q, c)
    OBVIOUS
  <2> QED
    BY <1>6, <2>2, <2>7, <2>8, OrderPrimed
<1> QED
  BY <1>9, <1>10, <1>11 DEF PageIInv

-----------------------------------------------------------------------------
(* What the page shows *)

LEMMA RenderedIs ==
    ASSUME NEW h \in {"none", "null", "live", "copy"}, NEW x, NEW y
    PROVE  Rendered(h, x, y) = IF h = "live" THEN y ELSE IF h = "copy" THEN x ELSE Nil
BY DEF Rendered

(* The component has rendered: the host adds or removes its button, and an *)
(* automatic one confirms.                                                 *)
LEMMA ReactsKeep ==
    ASSUME PageSound, SessionSound, CommandsSound, HostFits,
           HostReacts, UNCHANGED <<session, mode, host>>,
           SnapshotsSound', ViewSound',
           Tracking' => Order(session, view', updates', commands)
    PROVE  CommandsSound' /\ OrderSound' /\ HostFits'
<1>1. PICK c, x : c = message("confirm", Nil, Nil, "button", x) /\ x = shown'
  OBVIOUS
<1>2. x # Nil => Faithful(x, session)
  BY <1>1 DEF SnapshotsSound
<1>3. /\ c \in Command /\ c.op = "confirm"
      /\ Previewed(x) => c.seen = PreviewOf(x) /\ c.seen # Nil
      /\ ~Previewed(x) => c.seen = Nil
  BY <1>1, <1>2, MessageFits
<1>4. commands \in Seq(Command)
  BY DEF CommandsSound
<1>5. \/ commands' = commands
      \/ commands' = Append(commands, c) /\ Previewed(x)
  <2>1. automatic(host.element, x) = <<c>> \/ automatic(host.element, x) = <<>>
    BY <1>1 DEF automatic
  <2>2. commands' = commands \/ (Previewed(x) /\ commands' = commands \o automatic(host.element, x))
    BY <1>1 DEF HostReacts
  <2>3. commands \o <<>> = commands
    BY <1>4, ConcatEmptySeq
  <2>4. commands \o <<c>> = Append(commands, c)
    BY <1>3, <1>4, AppendIsConcat
  <2> QED
    BY <2>1, <2>2, <2>3, <2>4
<1>6. Len(commands') <= MaxCommands + 1
  BY DEF HostReacts
<1>7. CommandsSound'
  <2>1. CASE commands' = commands
    BY <2>1, CommandsStay, GrownSelf
  <2>2. CASE commands' = Append(commands, c) /\ Previewed(x)
    <3>1. CommandSound(c)
      BY <1>3, <2>2 DEF CommandSound
    <3> QED
      BY <1>3, <1>6, <2>2, <3>1, GivenSound
  <2> QED
    BY <1>5, <2>1, <2>2
<1>8. HostFits'
  <2>1. SUFFICES ASSUME host.kind = "per_preview" PROVE (button.connected = Previewed(shown))'
    BY DEF HostFits
  <2>2. Previewed(x) \in BOOLEAN /\ Previewed(shown) \in BOOLEAN /\ button.connected \in BOOLEAN
    BY DEF Previewed, PageSound, ButtonSound, ButtonRecord
  <2>3. inserted(host.element).connected = TRUE /\ host.element.connected = FALSE
    <3>1. inserted(host.element).connected /\ ~host.element.connected
      BY FreshSound, FreshConnected, InsertedConnected DEF PageSound
    <3>2. host.element \in ButtonRecord /\ inserted(host.element) \in ButtonRecord
      BY FreshSound, InsertedSound DEF PageSound, ButtonSound
    <3> QED
      BY <3>1, <3>2 DEF ButtonRecord
  <2>4. button' = IF Previewed(x) = Previewed(shown) THEN button
                  ELSE IF Previewed(x) /\ ~Previewed(shown) THEN inserted(host.element) ELSE host.element
    BY <1>1, <2>1 DEF HostReacts
  <2>5. button.connected = Previewed(shown)
    BY <2>1 DEF HostFits
  <2>6. button'.connected = Previewed(x)
    <3>1. CASE Previewed(x) = Previewed(shown)
      BY <2>4, <2>5, <3>1
    <3>2. CASE Previewed(x) = TRUE /\ Previewed(shown) = FALSE
      BY <2>3, <2>4, <3>2
    <3>3. CASE Previewed(x) = FALSE /\ Previewed(shown) = TRUE
      BY <2>3, <2>4, <3>3
    <3> QED
      BY <2>2, <3>1, <3>2, <3>3
  <2> QED
    BY <1>1, <2>6 DEF Previewed
<1>9. OrderSound'
  <2>1. SUFFICES ASSUME Tracking' PROVE Order(session, view, updates, commands)'
    BY DEF OrderSound
  <2>2. PICK s, v, u, q, r : /\ s = session /\ v = view' /\ u = updates' /\ q = commands
                             /\ r = commands'
    OBVIOUS
  <2>3. /\ s \in IntentSession /\ u \in Seq(Snapshot) /\ mode \in ConfirmationModes
        /\ q \in Seq(Command) /\ Order(s, v, u, q)
    BY <1>4, <2>1, <2>2 DEF SessionSound, SnapshotsSound
  <2>4. Newest(v, u) = make_snapshot(s, mode)
    BY <2>2 DEF SnapshotsSound, Newest, make_snapshot
  <2>5. x # Nil => x = v
    BY <1>1, <2>1, <2>2 DEF ViewSound, Tracking
  <2>6. Order(s, v, u, r)
    <3>1. CASE commands' = commands
      BY <2>2, <2>3, <3>1
    <3>2. CASE commands' = Append(commands, c) /\ Previewed(x)
      <4>1. Previewed(v) /\ c.seen = PreviewOf(v)
        BY <1>3, <2>5, <3>2, NilIsNoPreview
      <4>2. Order(s, v, u, Append(q, c))
        BY <1>3, <2>3, <2>4, <4>1, OrderGiven
      <4> QED
        BY <2>2, <3>2, <4>2
    <3> QED
      BY <1>5, <3>1, <3>2
  <2> QED
    BY <2>2, <2>6, OrderPrimed
<1> QED
  BY <1>7, <1>8, <1>9

LEMMA DeliverKeeps ==
    ASSUME PageSound, PageIInv, Deliver
    PROVE  PageIInv'
<1> USE DEF server_vars, view_vars
<1>1. PICK raw, ups : raw = Head(updates) /\ ups = updates
  OBVIOUS
<1>2. /\ ups # <<>> /\ ups \in Seq(Snapshot) /\ Len(ups) <= MaxUpdates
      /\ \A i \in DOMAIN ups : Faithful(ups[i], session)
      /\ Newest(view, ups) = make_snapshot(session, mode)
      /\ session \in IntentSession /\ mode \in ConfirmationModes
  BY <1>1 DEF Deliver, PageIInv, SnapshotsSound, SessionSound
<1>3. /\ update(raw) /\ updates' = Tail(ups) /\ HostReacts
      /\ UNCHANGED <<session, mode, host>>
  BY <1>1 DEF Deliver
<1>4. /\ raw \in Snapshot /\ Faithful(raw, session) /\ updates' \in Seq(Snapshot)
      /\ \A i \in DOMAIN updates' : Faithful(updates'[i], session)
  <2>1. /\ raw \in Snapshot /\ raw = ups[1] /\ 1 \in DOMAIN ups
        /\ updates' \in Seq(Snapshot)
        /\ \A i \in DOMAIN updates' : i + 1 \in DOMAIN ups /\ updates'[i] = ups[i + 1]
    BY <1>1, <1>2, <1>3, TailOf
  <2> QED
    BY <1>2, <2>1
<1>5. Len(updates') <= MaxUpdates
  <2>1. PICK n \in Nat, m \in Int : n = Len(ups) /\ m = Len(updates') /\ m = n - 1
    BY <1>2, <1>3, TailOf
  <2> QED
    BY <1>2, <2>1, PageAssumption
<1>6. Newest(raw, Tail(ups)) = make_snapshot(session, mode)
  BY <1>1, <1>2, NewestDelivered
<1>7. /\ view' = raw /\ adapter' = adapter /\ mounted' = mounted
      /\ IF held \in {"live", "copy"} THEN onChange(raw) ELSE UNCHANGED <<held, copy, shown>>
  BY <1>3 DEF update
<1>8. /\ adapter \in Adapters /\ mounted \in BOOLEAN /\ held \in {"none", "null", "live", "copy"}
      /\ \A y \in {view, copy, shown} : y # Nil => Faithful(y, session)
      /\ Tracking => held # "copy" /\ shown = IF mounted /\ held = "live" THEN view ELSE Nil
  BY DEF PageIInv, ViewSound, SnapshotsSound
<1>9. /\ held' \in {"none", "null", "live", "copy"}
      /\ copy' \in {copy, raw} /\ shown' \in {Nil, copy, raw, shown}
      /\ Tracking => held' # "copy" /\ shown' = IF mounted /\ held' = "live" THEN raw ELSE Nil
  <2>1. CASE held \notin {"live", "copy"}
    BY <1>7, <1>8, <2>1
  <2>2. CASE held \in {"live", "copy"}
    <3>1. /\ IF adapter = "react" /\ held = "live"
             THEN held' = "copy" /\ copy' = raw ELSE held' = held /\ copy' = copy
          /\ shown' = IF mounted /\ adapter # "vue" THEN Rendered(held', copy', raw) ELSE shown
      BY <1>7, <2>2 DEF onChange
    <3>2. PICK h, p : h = held' /\ p = copy'
      OBVIOUS
    <3>3. h \in {"none", "null", "live", "copy"} /\ p \in {copy, raw}
      BY <1>8, <3>1, <3>2
    <3>4. Rendered(h, p, raw) = IF h = "live" THEN raw ELSE IF h = "copy" THEN p ELSE Nil
      BY <3>3, RenderedIs
    <3> QED
      BY <1>8, <2>2, <3>1, <3>2, <3>3, <3>4 DEF Tracking
  <2> QED
    BY <2>1, <2>2
<1>10. SnapshotsSound'
  <2>1. \A y \in {view', copy', shown'} : y # Nil => Faithful(y, session)
    BY <1>4, <1>7, <1>8, <1>9
  <2>2. (Newest(view, updates) = make_snapshot(session, mode))'
    BY <1>3, <1>6, <1>7 DEF Newest, make_snapshot
  <2> QED
    BY <1>3, <1>4, <1>5, <2>1, <2>2 DEF SnapshotsSound, Faithful
<1>11. ViewSound'
  BY <1>7, <1>8, <1>9 DEF ViewSound, Tracking
<1>12. Tracking' => Order(session, view', updates', commands)
  <2>1. SUFFICES ASSUME Tracking PROVE Order(session, raw, Tail(ups), commands)
    BY <1>3, <1>7 DEF Tracking
  <2>2. commands \in Seq(Command)
    BY DEF PageIInv, CommandsSound
  <2>3. \A i \in DOMAIN commands : commands[i].op = "reject_preview" => commands[i].seen # Nil
    BY DEF PageIInv, CommandsSound, CommandSound
  <2>4. PICK s, v, q : s = session /\ v = view /\ q = commands
    OBVIOUS
  <2>5. Order(s, v, ups, q)
    BY <1>1, <2>1, <2>4 DEF PageIInv, OrderSound
  <2>6. Order(s, Head(ups), Tail(ups), q)
    BY <1>2, <2>2, <2>3, <2>4, <2>5, OrderDelivered
  <2> QED
    BY <1>1, <2>4, <2>6
<1>13. CommandsSound' /\ OrderSound' /\ HostFits'
  BY <1>3, <1>10, <1>11, <1>12, ReactsKeep DEF PageIInv
<1>14. SessionSound'
  BY <1>3 DEF PageIInv, SessionSound
<1> QED
  BY <1>10, <1>11, <1>13, <1>14 DEF PageIInv

LEMMA RenderKeeps ==
    ASSUME PageSound, PageIInv, Render
    PROVE  PageIInv'
<1> USE DEF server_vars, view_vars
<1>1. HostReacts /\ UNCHANGED <<session, mode, updates, host>>
  BY DEF Render
<1>2. /\ adapter \in Adapters /\ mounted \in BOOLEAN /\ held \in {"none", "null", "live", "copy"}
      /\ \A y \in {view, copy, shown} : y # Nil => Faithful(y, session)
      /\ Tracking => held # "copy" /\ shown = IF mounted /\ held = "live" THEN view ELSE Nil
  BY DEF PageIInv, ViewSound, SnapshotsSound
<1>3. /\ view' = view /\ adapter' = adapter /\ mounted' \in BOOLEAN
      /\ held' \in {"none", "null", "live", "copy"}
      /\ copy' \in {copy, Nil} /\ shown' \in {Nil, copy, view}
      /\ Tracking => held' # "copy" /\ shown' = IF mounted' /\ held' = "live" THEN view ELSE Nil
  <2>1. CASE Mount
    <3>1. /\ mounted' = TRUE /\ held' \in {held, "null", "live"}
          /\ shown' = Rendered(held', copy, view) /\ UNCHANGED <<view, adapter, copy>>
      BY <2>1 DEF Mount
    <3>2. PICK h, p, v : h = held' /\ p = copy /\ v = view
      OBVIOUS
    <3>3. Rendered(h, p, v) = IF h = "live" THEN v ELSE IF h = "copy" THEN p ELSE Nil
      BY <1>2, <3>1, <3>2, RenderedIs
    <3> QED
      BY <1>2, <3>1, <3>2, <3>3
  <2>2. CASE Unmount
    BY <1>2, <2>2 DEF Unmount
  <2>3. CASE Rerender
    <3>1. mounted /\ shown' = Rendered(held, copy, view) /\ UNCHANGED <<view, adapter, mounted, held, copy>>
      BY <2>3 DEF Rerender
    <3>2. PICK h, p, v : h = held /\ p = copy /\ v = view
      OBVIOUS
    <3>3. Rendered(h, p, v) = IF h = "live" THEN v ELSE IF h = "copy" THEN p ELSE Nil
      BY <1>2, <3>2, RenderedIs
    <3> QED
      BY <1>2, <3>1, <3>2, <3>3
  <2> QED
    BY <2>1, <2>2, <2>3 DEF Render
<1>4. SnapshotsSound'
  <2>1. \A y \in {view', copy', shown'} : y # Nil => Faithful(y, session)
    BY <1>2, <1>3
  <2>2. (Newest(view, updates) = make_snapshot(session, mode))'
    BY <1>1, <1>3 DEF PageIInv, SnapshotsSound, Newest, make_snapshot
  <2> QED
    BY <1>1, <2>1, <2>2 DEF PageIInv, SnapshotsSound, Faithful
<1>5. ViewSound'
  BY <1>2, <1>3 DEF ViewSound, Tracking
<1>6. Tracking' => Order(session, view', updates', commands)
  BY <1>1, <1>3 DEF PageIInv, OrderSound, Tracking
<1>7. CommandsSound' /\ OrderSound' /\ HostFits'
  BY <1>1, <1>4, <1>5, <1>6, ReactsKeep DEF PageIInv
<1>8. SessionSound'
  BY <1>1 DEF PageIInv, SessionSound
<1> QED
  BY <1>4, <1>5, <1>7, <1>8 DEF PageIInv

(* The button alone changes, and stays where it is.                        *)
LEMMA ButtonKeeps ==
    ASSUME PageIInv, NEW b, ButtonOnly(b), b.connected = button.connected
    PROVE  PageIInv'
BY DEF ButtonOnly, server_vars, view_vars, PageIInv, SessionSound, SnapshotsSound, CommandsSound,
   CommandSound, ViewSound, OrderSound, Order, Tracking, HostFits, Faithful, Newest

LEMMA StutterKeeps ==
    ASSUME PageIInv, UNCHANGED vars
    PROVE  PageIInv'
BY DEF vars, server_vars, view_vars, PageIInv, SessionSound, SnapshotsSound, CommandsSound,
   CommandSound, ViewSound, OrderSound, Order, Tracking, HostFits, Faithful, Newest

-----------------------------------------------------------------------------
LEMMA InitPage == Init => PageIInv
<1> SUFFICES ASSUME Init PROVE PageIInv
  OBVIOUS
<1>1. PageSound
  BY InitSound
<1>2. mode \in ConfirmationModes /\ host.kind \in {"standing", "per_preview"}
  BY <1>1 DEF PageSound
<1>3. session \in IntentSession /\ SoundSession(session) /\ session.state = "fill"
  <2>1. PICK slots \in SlotLists, o \in Owners : session \in create(o, slots, Now, 1)
    BY DEF Init
  <2>2. slots \in Seq(SlotDraft) /\ Now \in Nat /\ 1 \in Nat
    BY PageAssumption DEF Now
  <2>3. session \in IntentSession /\ SoundSession(session)
    BY <2>1, <2>2, CreateSound
  <2> QED
    BY <2>1, <2>3 DEF create, Accepted
<1>4. PICK x : x = make_snapshot(session, mode)
  OBVIOUS
<1>5. x \in Snapshot /\ x.state = "fill" /\ Faithful(x, session)
  BY <1>2, <1>3, <1>4, SnapshotFields, SoundSnapshot
<1>6. /\ view = Nil /\ copy = Nil /\ shown = Nil /\ mounted = FALSE /\ held = "none"
      /\ adapter \in Adapters /\ updates = <<x>>
  <2>1. PICK setup \in Setups : ViewInit(setup.adapter)
    BY DEF Init
  <2>2. setup.adapter \in Adapters
    BY PageAssumption
  <2> QED
    BY <1>4, <2>1, <2>2 DEF ViewInit, Init
<1>7. updates \in Seq(Snapshot) /\ updates # <<>> /\ Len(updates) = 1 /\ DOMAIN updates = {1} /\ updates[1] = x
  <2>1. /\ <<x>> \in Seq(Snapshot) /\ <<x>> # <<>> /\ Len(<<x>>) = 1 /\ <<x>>[1] = x
        /\ DOMAIN <<x>> = {1}
    BY <1>5
  <2> QED
    BY <1>6, <2>1
<1>8. SnapshotsSound
  <2>1. Len(updates) <= MaxUpdates
    BY <1>7, PageAssumption
  <2>2. \A i \in DOMAIN updates : Faithful(updates[i], session)
    BY <1>5, <1>7
  <2>3. Newest(view, updates) = make_snapshot(session, mode)
    BY <1>4, <1>7 DEF Newest
  <2> QED
    BY <1>6, <1>7, <2>1, <2>2, <2>3 DEF SnapshotsSound
<1>9. ViewSound
  BY <1>6 DEF ViewSound
<1>10. PICK c : c = message("confirm", Nil, Nil, "button", Nil)
  OBVIOUS
<1>11. c \in Command /\ c.op = "confirm" /\ c.seen = Nil
  BY <1>10, MessageFits, NilIsNoPreview
<1>12. commands = <<>> \/ (commands = <<c>> /\ host.kind = "standing")
  BY <1>10 DEF Init, automatic
<1>13. /\ commands \in Seq(Command) /\ Len(commands) <= 1
       /\ \A i \in DOMAIN commands : commands[i] = c /\ host.kind = "standing"
  <2>1. CASE commands = <<>>
    BY <2>1
  <2>2. CASE commands = <<c>> /\ host.kind = "standing"
    <3>1. <<c>> \in Seq(Command) /\ Len(<<c>>) = 1 /\ DOMAIN <<c>> = {1} /\ <<c>>[1] = c
      BY <1>11
    <3> QED
      BY <2>2, <3>1
  <2> QED
    BY <1>12, <2>1, <2>2
<1>14. CommandsSound
  <2>1. \A i \in DOMAIN commands : CommandSound(commands[i])
    BY <1>11, <1>13 DEF CommandSound
  <2>2. Len(commands) <= MaxCommands + 1
    <3>1. PICK n \in Nat : n = Len(commands) /\ n <= 1
      BY <1>13, LenProperties
    <3> QED
      BY <3>1, PageAssumption
  <2> QED
    BY <1>13, <2>1, <2>2 DEF CommandsSound
<1>15. OrderSound
  <2>1. ~AsksThenLooks(commands)
    BY <1>11, <1>13 DEF AsksThenLooks
  <2>2. \A i \in DOMAIN updates : updates[i].state # "preview"
    BY <1>5, <1>7
  <2> QED
    BY <1>3, <1>6, <2>1, <2>2, NilIsNoPreview DEF OrderSound, Order
<1>16. HostFits
  <2>1. SUFFICES ASSUME host.kind = "per_preview" PROVE button.connected = Previewed(shown)
    BY DEF HostFits
  <2>2. button = host.element
    BY <2>1 DEF Init
  <2>3. ~button.connected /\ button.connected \in BOOLEAN
    BY <1>1, <2>2, FreshConnected DEF PageSound, ButtonSound, ButtonRecord
  <2>4. Previewed(shown) = FALSE
    BY <1>6 DEF Previewed
  <2> QED
    BY <2>3, <2>4
<1> QED
  BY <1>2, <1>3, <1>8, <1>9, <1>14, <1>15, <1>16 DEF PageIInv, SessionSound

LEMMA NextPage == PageSound /\ PageIInv /\ [Next]_vars => PageIInv'
<1> SUFFICES ASSUME PageSound, PageIInv, [Next]_vars PROVE PageIInv'
  OBVIOUS
<1>0. button \in ButtonRecord /\ ButtonSound(button) /\ Attached(button)
  BY DEF PageSound, ButtonSound
<1>1. CASE Serve
  BY <1>1, ServeKeeps
<1>2. CASE Proceed
  BY <1>2, ProceedKeeps
<1>3. CASE Deliver
  BY <1>3, DeliverKeeps
<1>4. CASE Render
  BY <1>4, RenderKeeps
<1>5. ASSUME NEW n \in SlotNames, NEW v \in Values, fillSlot(n, v) PROVE PageIInv'
  BY <1>5, SendKeeps DEF fillSlot
<1>6. CASE Continue
  BY <1>6, SendKeeps DEF Continue
<1>7. CASE Decide("confirm")
  BY <1>7, SendKeeps DEF Decide
<1>8. CASE Decide("reject_preview")
  BY <1>8, SendKeeps DEF Decide
<1>9. CASE Cancel
  BY <1>9, SendKeeps DEF Cancel
<1>10. CASE ClickConfirm
  <2>1. host.kind = "per_preview" => Previewed(shown)
    BY <1>10 DEF ClickConfirm, PageIInv, HostFits
  <2> QED
    BY <1>10, <2>1, SendKeeps DEF ClickConfirm
<1>11. CASE ClickSend
  BY <1>0, <1>11, SentConnected, ButtonKeeps DEF ClickSend
<1>12. CASE Attribute
  <2> DEFINE Kept(b) == b \in ButtonRecord /\ b.connected = button.connected
  <2>1. Kept([button EXCEPT !.disabled = ~@]) /\ Kept([button EXCEPT !.pending = ~@])
    BY <1>0 DEF ButtonRecord
  <2>2. \A p \in Phrases : Kept([button EXCEPT !.phrase = p])
    BY <1>0 DEF ButtonRecord
  <2> HIDE DEF Kept
  <2>3. PICK b : Kept(b) /\ ButtonOnly(attributeChangedCallback(button, b))
    BY <1>12, <2>1, <2>2 DEF Attribute
  <2>4. attributeChangedCallback(button, b).connected = button.connected
    BY <2>3, AttributeConnected DEF Kept
  <2> QED
    BY <2>3, <2>4, ButtonKeeps
<1>13. CASE Move
  <2>1. ButtonSound(disconnectedCallback(button))
    BY <1>0, DisconnectSound
  <2>2. ButtonSound(connectedCallback(disconnectedCallback(button)))
    BY <2>1, ConnectSound
  <2>3. /\ connectedCallback(disconnectedCallback(button)).connected = TRUE
        /\ button.connected = TRUE
    BY <1>0, <1>13, <2>1, <2>2, ConnectConnects DEF Move, ButtonSound, ButtonRecord
  <2> QED
    BY <1>13, <2>3, ButtonKeeps DEF Move
<1>14. CASE Tick
  <2>1. [ticked(button) EXCEPT !.waited = Waited].connected = button.connected
    BY <1>0, <1>14, TickedConnected DEF Tick, Attached
  <2> QED
    BY <1>14, <2>1, ButtonKeeps DEF Tick
<1>15. CASE Late
  <2>1. [button EXCEPT !.waited = Waited].connected = button.connected
    BY <1>0 DEF ButtonRecord
  <2> QED
    BY <1>15, <2>1, ButtonKeeps DEF Late
<1>16. ASSUME NEW text \in Phrases \cup {NoText}, Type(text) PROVE PageIInv'
  <2>1. typed(button, text).connected = button.connected
    BY <1>0 DEF typed, ButtonRecord
  <2> QED
    BY <1>16, <2>1, ButtonKeeps DEF Type
<1>17. CASE UNCHANGED vars
  BY <1>17, StutterKeeps
<1> QED
  BY <1>1, <1>2, <1>3, <1>4, <1>5, <1>6, <1>7, <1>8, <1>9, <1>10, <1>11, <1>12, <1>13, <1>14,
     <1>15, <1>16, <1>17 DEF Next

LEMMA AlwaysSound == Spec => [](PageSound /\ PageIInv)
<1>1. Init => PageSound /\ PageIInv
  BY InitSound, InitPage
<1>2. PageSound /\ PageIInv /\ [Next]_vars => (PageSound /\ PageIInv)'
  BY NextSound, NextPage
<1> QED
  BY <1>1, <1>2, PTL DEF Spec

LEMMA SoundPage == PageSound /\ PageIInv => PageInv
<1> SUFFICES ASSUME PageSound, PageIInv PROVE PageInv
  OBVIOUS
<1>1. button \in Button /\ UsableWorks(button)
  BY SoundButton DEF PageSound
<1>2. \A y \in {view, copy, shown} : y \in Snapshot \cup {Nil}
  BY DEF PageIInv, SnapshotsSound, Faithful
<1>3. TypeOK
  BY <1>1, <1>2 DEF TypeOK, PageIInv, SessionSound, SnapshotsSound, CommandsSound, ViewSound
<1>4. Tracking => ShowsTheSession
  BY DEF ShowsTheSession, PageIInv, ViewSound, SnapshotsSound, Newest
<1>5. ContinueIsComplete
  BY DEF ContinueIsComplete, PageIInv, CommandsSound, CommandSound
<1> QED
  BY <1>1, <1>3, <1>4, <1>5 DEF PageInv, Tracking, PageIInv, HostFits

(* Whatever the operator, the engine and the clock do, and however slow    *)
(* the connection is: once nothing is on its way, a component whose        *)
(* adapter keeps up shows the session as the server has it; the Continue   *)
(* button of the form never asks for a preview of an incomplete session;   *)
(* a button made for a preview is there exactly as long as the preview;    *)
(* and a button that looks usable works.                                   *)
THEOREM PageAlwaysSound == Spec => []PageInv
BY AlwaysSound, SoundPage, PTL

LEMMA CommitStep ==
    ASSUME PageSound, PageIInv, [Next]_vars, Tracking,
           session.state # "commit", session'.state = "commit"
    PROVE  IF Head(commands).seen = Nil THEN host.kind = "standing"
           ELSE Head(commands).seen = PreviewOf(make_snapshot(session, mode))
<1> USE DEF server_vars, view_vars
<1>1. Serve
  <2>1. session' # session
    OBVIOUS
  <2>2. ~Proceed
    <3>1. ASSUME Proceed PROVE session'.state # "commit"
      <4>1. PICK t \in UNION ({request_clarification(session, q, Now) : q \in Texts}
                              \cup {accept_clarification(session, Nil, Now),
                                    complete(session, Nil, Now), expire(session, Now)}) : t = session'
        BY <3>1 DEF Proceed, Changed
      <4>2. t.state \in {"archive", "fill", "clarification"}
        BY ProceedServes DEF PageIInv
      <4> QED
        BY <4>1, <4>2
    <3> QED
      BY <3>1
  <2>3. ~(Deliver \/ Render \/ UNCHANGED vars)
    BY <2>1 DEF Deliver, Render, vars
  <2>4. \A n \in SlotNames, v \in Values : ~fillSlot(n, v)
    BY <2>1 DEF fillSlot, send
  <2>5. ~(Continue \/ Decide("confirm") \/ Decide("reject_preview") \/ Cancel \/ ClickConfirm)
    BY <2>1 DEF Continue, Decide, Cancel, ClickConfirm, send
  <2>6. ~(ClickSend \/ Attribute \/ Move \/ Tick \/ Late)
    BY <2>1 DEF ClickSend, Attribute, Move, Tick, Late, ButtonOnly
  <2>7. \A text \in Phrases \cup {NoText} : ~Type(text)
    BY <2>1 DEF Type, ButtonOnly
  <2> QED
    BY <2>2, <2>3, <2>4, <2>5, <2>6, <2>7 DEF Next
<1>2. commands # <<>> /\ commands \in Seq(Command)
  BY <1>1 DEF Serve, PageIInv, CommandsSound
<1>3. PICK c : c = Head(commands) /\ c = commands[1] /\ 1 \in DOMAIN commands /\ c \in Command
  BY <1>2, TailOf
<1>4. CommandSound(c)
  BY <1>3 DEF PageIInv, CommandsSound
<1>5. session' \in Results(c)
  BY <1>1, <1>3 DEF Serve, Changed
<1>6. PICK t \in Results(c) : t = session'
  BY <1>5
<1>7. session.state = "preview" /\ c.op = "confirm"
  <2>1. Serves(session, t, c)
    BY <1>3, <1>4, CommandServes DEF PageIInv
  <2> QED
    BY <1>6, <2>1 DEF Serves
<1>8. c.seen = Nil => host.kind = "standing"
  BY <1>4, <1>7 DEF CommandSound, PageSound
<1>9. c.seen \in {Nil, PreviewOf(make_snapshot(session, mode))}
  BY <1>3, <1>7 DEF PageIInv, OrderSound, Order
<1> QED
  BY <1>3, <1>8, <1>9

(* A confirm takes effect only on the preview that was on screen when it   *)
(* was given: a command names no preview, but none that was given before a *)
(* rejected preview or after the next one reaches the server in between.   *)
(* Only a button that stands there without a preview confirms unseen.      *)
THEOREM CommitsWhatWasSeen == Spec => SeenIsCommitted
<1>1. PageSound /\ PageIInv /\ [Next]_vars =>
          [(/\ adapter \in {"listener", "angular"}
            /\ session.state # "commit" /\ session'.state = "commit")
           => IF Head(commands).seen = Nil THEN host.kind = "standing"
              ELSE Head(commands).seen = PreviewOf(make_snapshot(session, mode))]_vars
  BY CommitStep DEF Tracking
<1> QED
  BY <1>1, AlwaysSound, PTL DEF Spec, SeenIsCommitted
=============================================================================
