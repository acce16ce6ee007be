----------------------------- MODULE WebClient -----------------------------
(***************************************************************************)
(* AetherisClient of packages/core over WebSocketTransport, in an event    *)
(* loop: one message, one call of the embedding or one event of a socket   *)
(* is handled to its end before the next.  A message carries no reference  *)
(* to the request it answers; every listener of the transport sees every   *)
(* message of every socket that is still open.                             *)
(*                                                                         *)
(* The server is external: it answers each process_intent it has received  *)
(* with session_created or error, in any order, and sends newer snapshots  *)
(* of its sessions whenever it likes.  A session is named after the        *)
(* request it was created for; a snapshot is its version.                  *)
(***************************************************************************)
EXTENDS Naturals, Sequences, FiniteSets, SequencesExt

CONSTANTS
    WebCalls,     \* calls of processIntent
    MaxSockets,   \* bound on the connections the client makes
    MaxVersion,   \* bound on the snapshots of one session
    MaxRefusals,  \* bound on the commands the server refuses
    Nil           \* null, and a session nothing is known of

ASSUME ClientAssumption == MaxSockets \in Nat /\ MaxVersion \in Nat \ {0}
                            /\ MaxRefusals \in Nat /\ Nil \notin WebCalls

Sockets == 1..MaxSockets

VARIABLES
    ws,          \* the socket the transport refers to, 0 for null
    socket,      \* the readyState of every socket
    inbox,       \* messages a socket has yet to deliver, oldest first
    listening,   \* sockets whose connect() registered a handleMessage listener
    remove,      \* the listener removeListener refers to, 0 for null
    waiting,     \* requests whose one-shot listener is registered
    promise,     \* what each call of processIntent has come to
    view,        \* the snapshot in the client's AetherisSession of each session
    asked,       \* server: requests received and not yet answered, by socket
    refusals,    \* server: commands refused so far
    version,     \* server: the newest snapshot it has sent of each session
    rivals       \* history: whose session could be announced while a request waits

client_vars == <<ws, socket, inbox, listening, remove, waiting, promise, view>>
web_server_vars == <<asked, version, refusals>>
web_vars == <<client_vars, web_server_vars, rivals>>

Message == [type : {"session_created", "session_updated"}, id : WebCalls, version : 1..MaxVersion]
           \cup [type : {"error"}, id : {Nil}, version : {0}]

ErrorMessage == [type |-> "error", id |-> Nil, version |-> 0]

ClientInit ==
    /\ ws = 0 /\ remove = 0
    /\ socket = [k \in Sockets |-> "new"]
    /\ inbox = [k \in Sockets |-> <<>>]
    /\ listening = {}
    /\ waiting = {}
    /\ promise = [r \in WebCalls |-> [state |-> "none", session |-> Nil]]
    /\ view = [i \in WebCalls |-> 0]
    /\ asked = {} /\ refusals = 0
    /\ version = [i \in WebCalls |-> 0]
    /\ rivals = [r \in WebCalls |-> {}]

Pending(r) == promise[r].state = "pending"

-----------------------------------------------------------------------------
(* Connection *)

(* connect() makes a new socket whatever the old one does.  The embedding  *)
(* does not connect while it is connected or connecting.                   *)
Connect(k) ==
    /\ socket[k] = "new" /\ \A j \in 1..(k - 1) : socket[j] # "new"
    /\ ws # 0 => socket[ws] = "closed"
    /\ ws' = k
    /\ socket' = [socket EXCEPT ![k] = "connecting"]
    /\ UNCHANGED <<inbox, listening, remove, waiting, promise, view, web_server_vars, rivals>>

(* onopen resolves the promise connect() awaits; the listener is added     *)
(* before the next event.                                                  *)
Opened(k) ==
    /\ socket[k] = "connecting"
    /\ socket' = [socket EXCEPT ![k] = "open"]
    /\ listening' = listening \cup {k}
    /\ remove' = k
    /\ UNCHANGED <<ws, inbox, waiting, promise, view, web_server_vars, rivals>>

(* The connection fails or is lost: nothing in the client listens to it.   *)
Lost(k) ==
    /\ socket[k] \in {"connecting", "open"}
    /\ socket' = [socket EXCEPT ![k] = "closed"]
    /\ inbox' = [inbox EXCEPT ![k] = <<>>]
    /\ UNCHANGED <<ws, listening, remove, waiting, promise, view, web_server_vars, rivals>>

(* Faulty variant: the socket is forgotten but not closed.                 *)
disconnect_unclosed ==
    /\ ws # 0
    /\ listening' = listening \ {remove}
    /\ remove' = 0
    /\ ws' = 0
    /\ UNCHANGED <<socket, inbox, waiting, promise, view, web_server_vars, rivals>>

(* A socket that is closing delivers no messages any more.                 *)
disconnect ==
    /\ ws # 0
    /\ listening' = listening \ {remove}
    /\ remove' = 0
    /\ ws' = 0
    /\ socket' = [socket EXCEPT ![ws] = "closed"]
    /\ inbox' = [inbox EXCEPT ![ws] = <<>>]
    /\ UNCHANGED <<waiting, promise, view, web_server_vars, rivals>>

-----------------------------------------------------------------------------
(* Requests *)

(* Requests whose session may still be announced on socket k.              *)
Expected(k) == {a[1] : a \in {b \in asked : b[2] = k}}
               \cup {m.id : m \in {n \in Range(inbox[k]) : n.type = "session_created"}}

(* The one-shot listener is registered before send() is tried; when send() *)
(* throws, the promise is rejected and the listener stays.                 *)
processIntent(r) ==
    /\ promise[r].state = "none"
    /\ waiting' = waiting \cup {r}
    /\ IF ws # 0 /\ socket[ws] = "open"
       THEN /\ promise' = [promise EXCEPT ![r].state = "pending"]
            /\ asked' = asked \cup {<<r, ws>>}
            /\ rivals' = [q \in WebCalls |->
                  CASE q = r -> Expected(ws)
                    [] q # r /\ Pending(q) -> rivals[q] \cup {r}
                    [] q # r /\ ~Pending(q) -> rivals[q]]
       ELSE /\ promise' = [promise EXCEPT ![r].state = "rejected"]
            /\ UNCHANGED <<asked, rivals>>
    /\ UNCHANGED <<ws, socket, inbox, listening, remove, view, version, refusals>>

Settled(answer) ==
    [r \in WebCalls |-> IF r \in waiting /\ Pending(r) THEN answer ELSE promise[r]]

getOrCreate(m) == [view EXCEPT ![m.id] = IF @ = 0 THEN m.version ELSE @]

SessionCreated(m) ==
    /\ m.type = "session_created"
    /\ view' = IF listening = {} /\ waiting = {} THEN view ELSE getOrCreate(m)
    /\ promise' = Settled([state |-> "resolved", session |-> m.id])
    /\ waiting' = {}

(* Faulty variants: any message about a session settles the calls; a       *)
(* session not heard of before is left alone.                              *)
SessionUpdated_settling(m) ==
    /\ m.type = "session_updated"
    /\ view' = IF listening = {} THEN view ELSE [view EXCEPT ![m.id] = m.version]
    /\ promise' = Settled([state |-> "resolved", session |-> m.id])
    /\ waiting' = {}

SessionUpdated_known(m) ==
    /\ m.type = "session_updated"
    /\ view' = IF view[m.id] = 0 THEN view ELSE [view EXCEPT ![m.id] = m.version]
    /\ UNCHANGED <<promise, waiting>>

SessionUpdated(m) ==
    /\ m.type = "session_updated"
    /\ view' = IF listening = {} THEN view ELSE [view EXCEPT ![m.id] = m.version]
    /\ UNCHANGED <<promise, waiting>>

(* Faulty variant: an error is reported but settles nothing.               *)
Failed_reported(m) ==
    /\ m.type = "error"
    /\ UNCHANGED <<promise, waiting, view>>

Failed(m) ==
    /\ m.type = "error"
    /\ promise' = Settled([state |-> "rejected", session |-> Nil])
    /\ waiting' = {}
    /\ UNCHANGED view

(* onmessage hands a message to every listener.                            *)
Deliver(k) ==
    /\ socket[k] = "open" /\ inbox[k] # <<>>
    /\ inbox' = [inbox EXCEPT ![k] = Tail(@)]
    /\ LET m == Head(inbox[k])
       IN  SessionCreated(m) \/ SessionUpdated(m) \/ Failed(m)
    /\ UNCHANGED <<ws, socket, listening, remove, web_server_vars, rivals>>

-----------------------------------------------------------------------------
(* Server *)

Send(k, m) ==
    inbox' = IF socket[k] = "open" THEN [inbox EXCEPT ![k] = Append(@, m)] ELSE inbox

Answer(r, k) ==
    /\ <<r, k>> \in asked
    /\ asked' = asked \ {<<r, k>>}
    /\ \/ /\ version' = [version EXCEPT ![r] = 1]
          /\ Send(k, [type |-> "session_created", id |-> r, version |-> 1])
       \/ Send(k, ErrorMessage) /\ UNCHANGED version
    /\ UNCHANGED <<ws, socket, listening, remove, waiting, promise, view, refusals, rivals>>

(* A newer snapshot, to whichever client connection is open by then.       *)
Update(i, k) ==
    /\ version[i] \in 1..(MaxVersion - 1)
    /\ socket[k] = "open"
    /\ version' = [version EXCEPT ![i] = @ + 1]
    /\ Send(k, [type |-> "session_updated", id |-> i, version |-> version[i] + 1])
    /\ UNCHANGED <<ws, socket, listening, remove, waiting, promise, view, asked, refusals, rivals>>

(* A command of the embedding (fillSlot, preview, confirm, ...) goes out    *)
(* without a listener of its own; its refusal is an error like any other.  *)
Refuse(k) ==
    /\ refusals < MaxRefusals
    /\ ws = k /\ socket[k] = "open"
    /\ refusals' = refusals + 1
    /\ Send(k, ErrorMessage)
    /\ UNCHANGED <<ws, socket, listening, remove, waiting, promise, view, asked, version, rivals>>

ClientNext ==
    \/ \E k \in Sockets : Connect(k) \/ Opened(k) \/ Lost(k) \/ Deliver(k) \/ Refuse(k)
    \/ disconnect
    \/ \E r \in WebCalls : processIntent(r)
    \/ \E r \in WebCalls, k \in Sockets : Answer(r, k) \/ Update(r, k)

ClientSpec == ClientInit /\ [][ClientNext]_web_vars

(* Sockets deliver what they received, and the server answers.             *)
ClientFairness ==
    /\ \A k \in Sockets : WF_web_vars(Deliver(k))
    /\ \A r \in WebCalls, k \in Sockets : WF_web_vars(Answer(r, k))

FairClientSpec == ClientSpec /\ ClientFairness

-----------------------------------------------------------------------------
TypeOK ==
    /\ ws \in 0..MaxSockets /\ remove \in 0..MaxSockets
    /\ socket \in [Sockets -> {"new", "connecting", "open", "closed"}]
    /\ inbox \in [Sockets -> Seq(Message)]
    /\ listening \subseteq Sockets
    /\ waiting \subseteq WebCalls
    /\ promise \in [WebCalls -> [state : {"none", "pending", "rejected", "resolved"},
                                 session : WebCalls \cup {Nil}]]
    /\ view \in [WebCalls -> 0..MaxVersion] /\ version \in [WebCalls -> 0..MaxVersion]
    /\ asked \subseteq WebCalls \X Sockets /\ refusals \in 0..MaxRefusals

(* A session the embedding looks at never falls back to an older snapshot, *)
(* through any number of lost connections and reconnects.                  *)
ViewNeverGoesBack == [][\A i \in WebCalls : view[i] <= view'[i]]_web_vars

(* Without a correlation id the client can promise this much: a call that  *)
(* had no other request beside it gets its own session, and no call gets a *)
(* session that is neither its own nor of a request it competed with.      *)
AnswerIsOwnOrRivals ==
    \A r \in WebCalls : promise[r].state = "resolved" => promise[r].session \in {r} \cup rivals[r]

(* The transport and the listeners agree: only the socket it refers to can *)
(* be open, somebody listens while it is, and a pending call has its       *)
(* one-shot listener.  With that, answers go where they may.               *)
ClientInv ==
    /\ TypeOK
    /\ \A k \in Sockets : socket[k] \in {"connecting", "open"} => k = ws
    /\ ws # 0 /\ socket[ws] = "open" => remove \in listening
    /\ \A r \in WebCalls : Pending(r) => r \in waiting
    /\ AnswerIsOwnOrRivals

(* While the connection a request was sent on lasts, the call is settled.  *)
CallsSettle ==
    \A r \in WebCalls, k \in Sockets :
        Pending(r) /\ <<r, k>> \in asked ~> ~Pending(r) \/ socket[k] = "closed"

(* What the server sent on a connection that lasts is what is shown.       *)
ViewCatchesUp ==
    \A i \in WebCalls, k \in Sockets, n \in 1..MaxVersion :
        (\E m \in Range(inbox[k]) : m.id = i /\ m.version = n)
            ~> view[i] >= n \/ socket[k] = "closed"
=============================================================================
