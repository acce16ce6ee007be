---------------------------- MODULE SessionView ----------------------------
(***************************************************************************)
(* One session in the browser: the AetherisSession of the client and one   *)
(* component that renders it through a framework adapter.  The adapter     *)
(* hands the component nothing, the live AetherisSession (which always     *)
(* answers with the newest snapshot), or a copy of it with the snapshot of *)
(* its time.  What is rendered stays until the component renders again.    *)
(***************************************************************************)
EXTENDS SessionSnapshot

Adapters == {"listener", "angular", "react", "vue"}

VARIABLES
    view,     \* AetherisSession._raw, Nil before session_created
    adapter,  \* "listener" is a page that listens for 'change' itself
    mounted,  \* the component is on the page
    held,     \* what it holds: "none" (never asked), "null", "live" or a "copy"
    copy,     \* the snapshot in the copy it holds, Nil without one
    shown     \* the snapshot the component shows, Nil when it has no session

view_vars == <<view, adapter, mounted, held, copy, shown>>

ViewInit(chosen) ==
    /\ view = Nil /\ copy = Nil /\ shown = Nil
    /\ adapter = chosen
    /\ mounted = FALSE
    /\ held = "none"

(* What a component makes of what it holds, when it renders.               *)
Rendered(holding, snapshot, raw) ==
    CASE holding \in {"none", "null"} -> Nil
      [] holding = "live" -> raw
      [] holding = "copy" -> snapshot

(* client.getSession() at the time of mounting decides for as long as the  *)
(* component lives whether there is a session and a subscription.  The     *)
(* Angular service asks once for all components and keeps the answer.      *)
Mount ==
    /\ ~mounted
    /\ mounted' = TRUE
    /\ held' = IF adapter = "angular" /\ held # "none" THEN held
               ELSE IF view = Nil THEN "null" ELSE "live"
    /\ shown' = Rendered(held', copy, view)
    /\ UNCHANGED <<view, adapter, copy>>

Unmount ==
    /\ mounted
    /\ mounted' = FALSE
    /\ held' = IF adapter = "angular" THEN held ELSE "none"
    /\ copy' = Nil
    /\ shown' = Nil
    /\ UNCHANGED <<view, adapter>>

(* The component renders for another reason, such as its parent's.         *)
Rerender ==
    /\ mounted
    /\ shown' = Rendered(held, copy, view)
    /\ UNCHANGED <<view, adapter, mounted, held, copy>>

(* The listener: React puts a copy of what the state holds in its place    *)
(* and renders; Vue assigns the ref what it holds, which renders nothing.  *)
onChange(raw) ==
    /\ IF adapter = "react" /\ held = "live"
       THEN held' = "copy" /\ copy' = raw
       ELSE UNCHANGED <<held, copy>>
    /\ shown' = IF mounted /\ adapter # "vue" THEN Rendered(held', copy', raw) ELSE shown

(* Faulty variant: the 'change' event is not dispatched.                   *)
update_silently(raw) ==
    /\ view' = raw
    /\ UNCHANGED <<adapter, mounted, held, copy, shown>>

(* getOrCreate and _update: the first message makes the object, later ones *)
(* change it and reach the component that subscribed to it.                *)
update(raw) ==
    /\ view' = raw
    /\ IF held \in {"live", "copy"} THEN onChange(raw) ELSE UNCHANGED <<held, copy, shown>>
    /\ UNCHANGED <<adapter, mounted>>
=============================================================================
