--------------------------- MODULE Clients_proofs ----------------------------
(***************************************************************************)
(* The clients, for any number of calls, processes and connections.  The   *)
(* TypeScript client: the transport, its listeners and the calls agree, no *)
(* view goes back, and no call gets the session of a request it did not    *)
(* compete with.  The Node.js and Python bindings: what is in the pipes of *)
(* the stdio server matches what the client waits for, so that every       *)
(* answer reaches its call.                                                *)
(***************************************************************************)
EXTENDS WebClient, Bindings, SequenceTheorems, TLAPS

(* Only the socket the transport refers to is alive, its connect() was the *)
(* last to register a listener, and no other has anything to deliver.      *)
TransportSound ==
    /\ \A k \in Sockets : socket[k] \in {"connecting", "open"} => k = ws
    /\ \A k \in Sockets : socket[k] = "open" => remove = k /\ k \in listening
    /\ \A k \in Sockets : socket[k] # "open" => inbox[k] = <<>>

(* The server answers a request once, on the socket it came from, and has  *)
(* sent nothing of its session before.                                     *)
ServerSound ==
    /\ \A r \in WebCalls : promise[r].state = "none" => version[r] = 0
    /\ \A r \in WebCalls, k \in Sockets : <<r, k>> \in asked =>
           /\ version[r] = 0 /\ promise[r].state # "none"
           /\ socket[k] \in {"open", "closed"}
           /\ \A l \in Sockets : <<r, l>> \in asked => l = k

Snapshot(m) == m.type # "error"

(* The messages q, oldest first, are no older than what is shown, no newer *)
(* than what the server has, and in the order of their snapshots.          *)
InOrder(q, shown, newest) ==
    /\ \A j \in DOMAIN q : Snapshot(q[j]) =>
           shown[q[j].id] <= q[j].version /\ q[j].version <= newest[q[j].id]
    /\ \A j, l \in DOMAIN q :
           Snapshot(q[j]) /\ Snapshot(q[l]) /\ q[j].id = q[l].id /\ j < l
               => q[j].version <= q[l].version

(* Whose session can still be announced to r.                              *)
Competitors(r) == {r} \cup rivals[r]

CallsSound == \A r \in WebCalls : Pending(r) => r \in waiting

OrderSound ==
    /\ \A i \in WebCalls : view[i] <= version[i]
    /\ \A k \in Sockets : InOrder(inbox[k], view, version)

(* A pending call has recorded everybody whose session can be announced on *)
(* the connection there is.                                                *)
RivalsSound ==
    \A r \in WebCalls, k \in Sockets : Pending(r) /\ socket[k] = "open" =>
        /\ \A q \in WebCalls : <<q, k>> \in asked => q \in Competitors(r)
        /\ \A j \in DOMAIN inbox[k] :
               inbox[k][j].type = "session_created" => inbox[k][j].id \in Competitors(r)

(* The inductive invariant.                                                *)
ClientSound ==
    /\ TypeOK
    /\ TransportSound /\ ServerSound /\ CallsSound
    /\ OrderSound
    /\ RivalsSound /\ AnswerIsOwnOrRivals

-----------------------------------------------------------------------------
(* Queues of messages *)

LEMMA MessageTyped ==
    ASSUME NEW q \in Seq(Message), NEW j \in DOMAIN q
    PROVE  /\ q[j] \in Message
           /\ Snapshot(q[j]) => q[j].id \in WebCalls /\ q[j].version \in 1..MaxVersion
<1>1. q[j] \in Message
  BY ElementOfSeq, LenProperties
<1> QED
  BY <1>1 DEF Message, Snapshot

LEMMA SnapshotIsMessage ==
    ASSUME NEW type \in {"session_created", "session_updated"}, NEW i \in WebCalls,
           NEW v \in 1..MaxVersion
    PROVE  [type |-> type, id |-> i, version |-> v] \in Message
BY DEF Message

LEMMA ErrorIsMessage ==
    ErrorMessage \in Message /\ ~Snapshot(ErrorMessage) /\ ErrorMessage.type # "session_created"
BY DEF Message, ErrorMessage, Snapshot

LEMMA EmptyInOrder ==
    ASSUME NEW q, q = <<>>, NEW shown, NEW newest
    PROVE  InOrder(q, shown, newest)
BY DEF InOrder

LEMMA TailShape ==
    ASSUME NEW q \in Seq(Message), q # <<>>
    PROVE  /\ Tail(q) \in Seq(Message)
           /\ 1 \in DOMAIN q /\ Head(q) = q[1]
           /\ \A j \in DOMAIN Tail(q) : /\ j \in Nat /\ j + 1 \in DOMAIN q /\ 1 < j + 1
                                        /\ Tail(q)[j] = q[j + 1]
<1>1. Len(q) \in Nat /\ Len(q) # 0 /\ DOMAIN q = 1..Len(q)
  BY LenProperties, EmptySeq
<1>2. /\ Tail(q) \in Seq(Message) /\ Len(Tail(q)) = Len(q) - 1
      /\ Head(q) = q[1]
      /\ \A j \in 1..Len(Tail(q)) : Tail(q)[j] = q[j + 1]
  BY HeadTailProperties
<1>3. DOMAIN Tail(q) = 1..Len(Tail(q))
  BY <1>2, LenProperties
<1> QED
  BY <1>1, <1>2, <1>3

LEMMA AppendShape ==
    ASSUME NEW q \in Seq(Message), NEW m \in Message
    PROVE  /\ Append(q, m) \in Seq(Message)
           /\ \A j \in DOMAIN Append(q, m) :
                  /\ j \in Nat
                  /\ \/ j \in DOMAIN q /\ Append(q, m)[j] = q[j]
                     \/ j \notin DOMAIN q /\ Append(q, m)[j] = m /\ \A l \in DOMAIN q : l < j
<1>1. /\ Append(q, m) \in Seq(Message) /\ Len(Append(q, m)) = Len(q) + 1
      /\ \A j \in 1..Len(q) : Append(q, m)[j] = q[j]
      /\ Append(q, m)[Len(q) + 1] = m
  BY AppendProperties
<1>2. Len(q) \in Nat /\ DOMAIN q = 1..Len(q) /\ DOMAIN Append(q, m) = 1..(Len(q) + 1)
  BY <1>1, LenProperties
<1> QED
  BY <1>1, <1>2

(* What is delivered may be shown, and what is behind it stays in order.   *)
LEMMA TailInOrder ==
    ASSUME NEW q \in Seq(Message), q # <<>>,
           NEW shown \in [WebCalls -> Nat], NEW newest \in [WebCalls -> Nat],
           InOrder(q, shown, newest),
           NEW later \in [WebCalls -> Nat],
           \A i \in WebCalls : \/ later[i] = shown[i]
                               \/ Snapshot(q[1]) /\ i = q[1].id /\ later[i] <= q[1].version
    PROVE  InOrder(Tail(q), later, newest)
<1>1. \A j \in DOMAIN Tail(q) : /\ j \in Nat /\ j + 1 \in DOMAIN q /\ 1 < j + 1
                                /\ Tail(q)[j] = q[j + 1] /\ 1 \in DOMAIN q
  BY TailShape
<1>2. ASSUME NEW j \in DOMAIN Tail(q), Snapshot(Tail(q)[j])
      PROVE  /\ later[Tail(q)[j].id] <= Tail(q)[j].version
             /\ Tail(q)[j].version <= newest[Tail(q)[j].id]
  <2>1. PICK k \in DOMAIN q : k = j + 1 /\ 1 < k /\ Tail(q)[j] = q[k]
    BY <1>1
  <2>2. q[k].id \in WebCalls /\ q[k].version \in Nat
    BY <1>2, <2>1, MessageTyped
  <2>3. shown[q[k].id] <= q[k].version /\ q[k].version <= newest[q[k].id]
    BY <1>2, <2>1 DEF InOrder
  <2>4. CASE later[q[k].id] = shown[q[k].id]
    BY <2>1, <2>3, <2>4
  <2>5. CASE Snapshot(q[1]) /\ q[k].id = q[1].id /\ later[q[k].id] <= q[1].version
    <3>1. 1 \in DOMAIN q
      BY <1>1, <1>2
    <3>2. q[1].version <= q[k].version
      BY <1>2, <2>1, <2>5, <3>1 DEF InOrder
    <3>3. q[1].version \in Nat
      BY <2>5, <3>1, MessageTyped
    <3> QED
      BY <2>1, <2>2, <2>3, <2>5, <3>2, <3>3
  <2> QED
    BY <2>2, <2>4, <2>5
<1>3. ASSUME NEW j \in DOMAIN Tail(q), NEW l \in DOMAIN Tail(q), Snapshot(Tail(q)[j]),
             Snapshot(Tail(q)[l]), Tail(q)[j].id = Tail(q)[l].id, j < l
      PROVE  Tail(q)[j].version <= Tail(q)[l].version
  <2>1. PICK k \in DOMAIN q, n \in DOMAIN q :
            k = j + 1 /\ n = l + 1 /\ k < n /\ Tail(q)[j] = q[k] /\ Tail(q)[l] = q[n]
    BY <1>1, <1>3
  <2> QED
    BY <1>3, <2>1 DEF InOrder
<1> QED
  BY <1>2, <1>3 DEF InOrder

(* A snapshot newer than all before, or an error, goes to the end.         *)
LEMMA AppendInOrder ==
    ASSUME NEW q \in Seq(Message),
           NEW shown \in [WebCalls -> Nat], NEW newest \in [WebCalls -> Nat],
           InOrder(q, shown, newest),
           NEW m \in Message, NEW later \in [WebCalls -> Nat],
           \A i \in WebCalls : newest[i] <= later[i],
           Snapshot(m) => /\ shown[m.id] <= m.version /\ newest[m.id] <= m.version
                          /\ m.version <= later[m.id]
    PROVE  InOrder(Append(q, m), shown, later) /\ InOrder(q, shown, later)
<1>1. \A j \in DOMAIN Append(q, m) :
          /\ j \in Nat
          /\ \/ j \in DOMAIN q /\ Append(q, m)[j] = q[j]
             \/ j \notin DOMAIN q /\ Append(q, m)[j] = m /\ \A l \in DOMAIN q : l < j
  BY AppendShape
<1>2. ASSUME NEW j \in DOMAIN q, Snapshot(q[j])
      PROVE  /\ q[j].id \in WebCalls /\ q[j].version \in Nat
             /\ shown[q[j].id] <= q[j].version /\ q[j].version <= newest[q[j].id]
             /\ q[j].version <= later[q[j].id]
  <2>1. q[j].id \in WebCalls /\ q[j].version \in Nat
    BY <1>2, MessageTyped
  <2>2. shown[q[j].id] <= q[j].version /\ q[j].version <= newest[q[j].id]
    BY <1>2 DEF InOrder
  <2> QED
    BY <2>1, <2>2
<1>3. ASSUME NEW j \in DOMAIN Append(q, m), Snapshot(Append(q, m)[j])
      PROVE  /\ shown[Append(q, m)[j].id] <= Append(q, m)[j].version
             /\ Append(q, m)[j].version <= later[Append(q, m)[j].id]
  BY <1>1, <1>2, <1>3
<1>4. ASSUME NEW j \in DOMAIN Append(q, m), NEW l \in DOMAIN Append(q, m),
             Snapshot(Append(q, m)[j]), Snapshot(Append(q, m)[l]),
             Append(q, m)[j].id = Append(q, m)[l].id, j < l
      PROVE  Append(q, m)[j].version <= Append(q, m)[l].version
  <2>1. CASE j \in DOMAIN q /\ l \in DOMAIN q
    <3>1. Append(q, m)[j] = q[j] /\ Append(q, m)[l] = q[l]
      BY <1>1, <2>1
    <3> QED
      BY <1>4, <2>1, <3>1 DEF InOrder
  <2>2. CASE j \in DOMAIN q /\ l \notin DOMAIN q
    <3>1. Append(q, m)[j] = q[j] /\ Append(q, m)[l] = m
      BY <1>1, <2>2
    <3>2. q[j].version \in Nat /\ q[j].id \in WebCalls /\ q[j].version <= newest[q[j].id]
      BY <1>2, <1>4, <2>2, <3>1
    <3>3. newest[m.id] <= m.version /\ q[j].id = m.id
      BY <1>4, <3>1
    <3>4. m.version \in Nat
      BY <1>4, <3>1 DEF Message, Snapshot
    <3> QED
      BY <3>1, <3>2, <3>3, <3>4
  <2>3. CASE j \notin DOMAIN q
    <3>1. l \in DOMAIN q => l < j
      BY <1>1, <2>3
    <3>2. j \in DOMAIN q \/ l \in DOMAIN q
      <4>1. l \notin DOMAIN q => j = l
        BY <2>3, AppendProperties, LenProperties
      <4> QED
        BY <1>1, <1>4, <4>1
    <3> QED
      BY <1>1, <1>4, <2>3, <3>1, <3>2
  <2> QED
    BY <2>1, <2>2, <2>3
<1>5. \A j, l \in DOMAIN q :
           Snapshot(q[j]) /\ Snapshot(q[l]) /\ q[j].id = q[l].id /\ j < l
               => q[j].version <= q[l].version
  BY DEF InOrder
<1> QED
  BY <1>2, <1>3, <1>4, <1>5 DEF InOrder

-----------------------------------------------------------------------------
(* Connection *)

LEMMA ClientHolds == ClientInit => ClientSound
<1> SUFFICES ASSUME ClientInit PROVE ClientSound
  OBVIOUS
<1> USE ClientAssumption DEF ClientInit, Sockets
<1>1. TypeOK
  BY DEF TypeOK
<1>2. TransportSound /\ ServerSound /\ CallsSound
  BY DEF TransportSound, ServerSound, CallsSound, Pending
<1>3. OrderSound
  BY EmptyInOrder DEF OrderSound
<1>4. RivalsSound /\ AnswerIsOwnOrRivals
  BY DEF RivalsSound, AnswerIsOwnOrRivals, Pending
<1> QED
  BY <1>1, <1>2, <1>3, <1>4 DEF ClientSound

(* No socket is open that was not open before, and none has lost messages  *)
(* but those that are closed.                                              *)
LEMMA ConnectionKeeps ==
    ASSUME ClientSound,
           UNCHANGED <<waiting, promise, view, asked, version, rivals>>,
           NEW k \in Sockets, NEW state \in {"connecting", "open", "closed"},
           socket' = [socket EXCEPT ![k] = state],
           \/ state = "closed"
           \/ socket[k] = "new" /\ state = "connecting"
           \/ socket[k] = "connecting" /\ state = "open",
           \/ inbox' = inbox /\ socket[k] # "open"
           \/ inbox' = [inbox EXCEPT ![k] = <<>>]
    PROVE  /\ ServerSound' /\ CallsSound' /\ OrderSound' /\ RivalsSound' /\ AnswerIsOwnOrRivals'
           /\ socket' \in [Sockets -> {"new", "connecting", "open", "closed"}]
           /\ inbox' \in [Sockets -> Seq(Message)]
           /\ \A l \in Sockets : socket'[l] # "open" => inbox'[l] = <<>>
<1>1. /\ socket \in [Sockets -> {"new", "connecting", "open", "closed"}]
      /\ inbox \in [Sockets -> Seq(Message)]
  BY DEF ClientSound, TypeOK
<1>2. inbox'[k] = <<>> /\ \A l \in Sockets \ {k} : inbox'[l] = inbox[l] /\ socket'[l] = socket[l]
  BY <1>1 DEF ClientSound, TransportSound
<1>3. inbox' \in [Sockets -> Seq(Message)]
  <2>1. <<>> \in Seq(Message)
    OBVIOUS
  <2> QED
    BY <1>1, <2>1
<1>4. socket'[k] = state
  BY <1>1
<1>5. ServerSound'
  BY <1>1, <1>2, <1>4 DEF ClientSound, ServerSound
<1>6. CallsSound' /\ AnswerIsOwnOrRivals'
  BY DEF ClientSound, CallsSound, Pending, AnswerIsOwnOrRivals
<1>7. OrderSound'
  BY <1>2, EmptyInOrder DEF ClientSound, OrderSound
<1>8. RivalsSound'
  <2>1. SUFFICES ASSUME NEW r \in WebCalls, NEW l \in Sockets, Pending(r), socket'[l] = "open"
                 PROVE  /\ \A q \in WebCalls : <<q, l>> \in asked => q \in Competitors(r)
                        /\ \A j \in DOMAIN inbox'[l] : inbox'[l][j].type = "session_created"
                               => inbox'[l][j].id \in Competitors(r)
    BY DEF RivalsSound, Pending, Competitors
  <2>2. CASE l = k
    <3>1. \A q \in WebCalls : <<q, l>> \notin asked
      BY <1>4, <2>1, <2>2 DEF ClientSound, ServerSound
    <3>2. DOMAIN inbox'[l] = {}
      BY <1>2, <2>2
    <3> QED
      BY <3>1, <3>2
  <2>3. CASE l # k
    BY <1>2, <2>1, <2>3 DEF ClientSound, RivalsSound
  <2> QED
    BY <2>2, <2>3
<1>9. ASSUME NEW l \in Sockets, socket'[l] # "open" PROVE inbox'[l] = <<>>
  BY <1>2, <1>9 DEF ClientSound, TransportSound
<1> QED
  BY <1>1, <1>3, <1>5, <1>6, <1>7, <1>8, <1>9

LEMMA ConnectKeeps ==
    ASSUME ClientSound, NEW k \in Sockets, Connect(k)
    PROVE  ClientSound'
<1>1. /\ ws \in 0..MaxSockets /\ socket \in [Sockets -> {"new", "connecting", "open", "closed"}]
      /\ k \in 1..MaxSockets
  BY DEF ClientSound, TypeOK, Sockets
<1>2. /\ ServerSound' /\ CallsSound' /\ OrderSound' /\ RivalsSound' /\ AnswerIsOwnOrRivals'
      /\ socket' \in [Sockets -> {"new", "connecting", "open", "closed"}]
      /\ inbox' \in [Sockets -> Seq(Message)]
      /\ \A l \in Sockets : socket'[l] # "open" => inbox'[l] = <<>>
  BY ConnectionKeeps DEF Connect, web_server_vars
<1>3. TypeOK'
  BY <1>1, <1>2, ClientAssumption DEF Connect, ClientSound, TypeOK, web_server_vars
<1>4. \A l \in Sockets : socket[l] \notin {"connecting", "open"}
  BY <1>1 DEF Connect, ClientSound, TransportSound, Sockets
<1>5. TransportSound'
  BY <1>1, <1>2, <1>4 DEF Connect, TransportSound
<1> QED
  BY <1>2, <1>3, <1>5 DEF ClientSound

LEMMA OpenedKeeps ==
    ASSUME ClientSound, NEW k \in Sockets, Opened(k)
    PROVE  ClientSound'
<1>1. /\ ws \in 0..MaxSockets /\ socket \in [Sockets -> {"new", "connecting", "open", "closed"}]
      /\ k \in 1..MaxSockets
  BY DEF ClientSound, TypeOK, Sockets
<1>2. /\ ServerSound' /\ CallsSound' /\ OrderSound' /\ RivalsSound' /\ AnswerIsOwnOrRivals'
      /\ socket' \in [Sockets -> {"new", "connecting", "open", "closed"}]
      /\ inbox' \in [Sockets -> Seq(Message)]
      /\ \A l \in Sockets : socket'[l] # "open" => inbox'[l] = <<>>
  BY ConnectionKeeps DEF Opened, web_server_vars
<1>3. TypeOK'
  BY <1>1, <1>2, ClientAssumption DEF Opened, ClientSound, TypeOK, web_server_vars
<1>4. TransportSound'
  BY <1>1, <1>2 DEF Opened, ClientSound, TransportSound
<1> QED
  BY <1>2, <1>3, <1>4 DEF ClientSound

LEMMA LostKeeps ==
    ASSUME ClientSound, NEW k \in Sockets, Lost(k)
    PROVE  ClientSound'
<1>1. /\ ws \in 0..MaxSockets /\ socket \in [Sockets -> {"new", "connecting", "open", "closed"}]
      /\ k \in 1..MaxSockets
  BY DEF ClientSound, TypeOK, Sockets
<1>2. /\ ServerSound' /\ CallsSound' /\ OrderSound' /\ RivalsSound' /\ AnswerIsOwnOrRivals'
      /\ socket' \in [Sockets -> {"new", "connecting", "open", "closed"}]
      /\ inbox' \in [Sockets -> Seq(Message)]
      /\ \A l \in Sockets : socket'[l] # "open" => inbox'[l] = <<>>
  BY ConnectionKeeps DEF Lost, web_server_vars
<1>3. TypeOK'
  BY <1>1, <1>2, ClientAssumption DEF Lost, ClientSound, TypeOK, web_server_vars
<1>4. TransportSound'
  BY <1>1, <1>2 DEF Lost, ClientSound, TransportSound
<1> QED
  BY <1>2, <1>3, <1>4 DEF ClientSound

LEMMA DisconnectKeeps ==
    ASSUME ClientSound, disconnect
    PROVE  ClientSound'
<1>1. /\ ws \in 0..MaxSockets /\ socket \in [Sockets -> {"new", "connecting", "open", "closed"}]
  BY DEF ClientSound, TypeOK
<1>2. PICK k \in Sockets : k = ws
  BY <1>1, ClientAssumption DEF disconnect, Sockets
<1>3. /\ ServerSound' /\ CallsSound' /\ OrderSound' /\ RivalsSound' /\ AnswerIsOwnOrRivals'
      /\ socket' \in [Sockets -> {"new", "connecting", "open", "closed"}]
      /\ inbox' \in [Sockets -> Seq(Message)]
      /\ \A l \in Sockets : socket'[l] # "open" => inbox'[l] = <<>>
  BY <1>2, ConnectionKeeps DEF disconnect, web_server_vars
<1>4. TypeOK'
  BY <1>1, <1>3, ClientAssumption DEF disconnect, ClientSound, TypeOK, web_server_vars
<1>5. TransportSound'
  BY <1>1, <1>2, <1>3 DEF disconnect, ClientSound, TransportSound
<1> QED
  BY <1>3, <1>4, <1>5 DEF ClientSound

-----------------------------------------------------------------------------
(* WebCalls and messages *)

LEMMA ProcessIntentKeeps ==
    ASSUME ClientSound, NEW r \in WebCalls, processIntent(r)
    PROVE  ClientSound'
<1>1. UNCHANGED <<ws, socket, inbox, listening, remove, view, version, refusals>>
  BY DEF processIntent
<1>2. /\ ws \in 0..MaxSockets /\ promise[r].state = "none"
      /\ promise \in [WebCalls -> [state : {"none", "pending", "rejected", "resolved"},
                                   session : WebCalls \cup {Nil}]]
  BY DEF processIntent, ClientSound, TypeOK
<1>3. waiting' = waiting \cup {r}
  BY DEF processIntent
<1>4. TransportSound' /\ OrderSound'
  BY <1>1 DEF ClientSound, TransportSound, OrderSound
<1>5. CASE ws # 0 /\ socket[ws] = "open"
  <2>1. PICK k \in Sockets : k = ws /\ socket[k] = "open"
    BY <1>2, <1>5, ClientAssumption DEF Sockets
  <2>2. /\ promise' = [promise EXCEPT ![r].state = "pending"]
        /\ asked' = asked \cup {<<r, k>>}
        /\ rivals' = [q \in WebCalls |->
              CASE q = r -> Expected(k)
                [] q # r /\ Pending(q) -> rivals[q] \cup {r}
                [] q # r /\ ~Pending(q) -> rivals[q]]
    BY <1>5, <2>1 DEF processIntent
  <2>3. promise'[r].state = "pending" /\ \A q \in WebCalls \ {r} : promise'[q] = promise[q]
    BY <1>2, <2>2
  <2>4. TypeOK'
    <3>1. promise' \in [WebCalls -> [state : {"none", "pending", "rejected", "resolved"},
                                     session : WebCalls \cup {Nil}]]
      BY <1>2, <2>2
    <3>2. asked' \subseteq WebCalls \X Sockets
      BY <2>2 DEF ClientSound, TypeOK
    <3> QED
      BY <1>1, <1>3, <3>1, <3>2 DEF ClientSound, TypeOK
  <2>5. \A l \in Sockets : <<r, l>> \notin asked
    BY <1>2 DEF ClientSound, ServerSound
  <2>6. version[r] = 0
    BY <1>2 DEF ClientSound, ServerSound
  <2>7. ServerSound'
    BY <1>1, <2>1, <2>2, <2>3, <2>5, <2>6 DEF ClientSound, ServerSound
  <2>8. CallsSound'
    BY <1>3, <2>3 DEF ClientSound, CallsSound, Pending
  <2>9. /\ rivals'[r] = Expected(k)
        /\ \A q \in WebCalls : Pending(q) => rivals'[q] = rivals[q] \cup {r}
        /\ \A q \in WebCalls \ {r} : ~Pending(q) => rivals'[q] = rivals[q]
    BY <1>2, <2>2 DEF Pending
  <2>10. AnswerIsOwnOrRivals'
    BY <2>3, <2>9 DEF ClientSound, AnswerIsOwnOrRivals, Pending
  <2>11. ASSUME NEW q \in WebCalls, NEW l \in Sockets, Pending(q)', socket'[l] = "open"
         PROVE  /\ \A o \in WebCalls : <<o, l>> \in asked' => o \in Competitors(q)'
                /\ \A j \in DOMAIN inbox[l] : inbox[l][j].type = "session_created"
                       => inbox[l][j].id \in Competitors(q)'
    <3>1. l = k
      BY <1>1, <2>1, <2>11 DEF ClientSound, TransportSound
    <3>2. CASE q = r
      <4>1. Competitors(q)' = {r} \cup Expected(k)
        BY <2>9, <3>2 DEF Competitors
      <4>2. ASSUME NEW o \in WebCalls, <<o, k>> \in asked PROVE o \in Expected(k)
        BY <4>2 DEF Expected
      <4>3. ASSUME NEW j \in DOMAIN inbox[k], inbox[k][j].type = "session_created"
            PROVE  inbox[k][j].id \in Expected(k)
        BY <4>3 DEF Expected, Range
      <4> QED
        BY <2>2, <3>1, <4>1, <4>2, <4>3
    <3>3. CASE q # r
      <4>1. Pending(q)
        BY <2>3, <2>11, <3>3 DEF Pending
      <4>2. Competitors(q)' = Competitors(q) \cup {r}
        BY <2>9, <4>1 DEF Competitors
      <4> QED
        BY <1>1, <2>2, <2>11, <4>1, <4>2 DEF ClientSound, RivalsSound
    <3> QED
      BY <3>2, <3>3
  <2>12. RivalsSound'
    BY <1>1, <2>11 DEF RivalsSound
  <2> QED
    BY <1>4, <2>4, <2>7, <2>8, <2>10, <2>12 DEF ClientSound
<1>6. CASE ~(ws # 0 /\ socket[ws] = "open")
  <2>1. promise' = [promise EXCEPT ![r].state = "rejected"] /\ UNCHANGED <<asked, rivals>>
    BY <1>6 DEF processIntent
  <2>2. promise'[r].state = "rejected" /\ \A q \in WebCalls \ {r} : promise'[q] = promise[q]
    BY <1>2, <2>1
  <2>3. TypeOK'
    BY <1>1, <1>2, <1>3, <2>1 DEF ClientSound, TypeOK
  <2>4. ServerSound' /\ CallsSound' /\ AnswerIsOwnOrRivals'
    BY <1>1, <1>3, <2>1, <2>2
    DEF ClientSound, ServerSound, CallsSound, AnswerIsOwnOrRivals, Pending
  <2>5. RivalsSound'
    BY <1>1, <2>1, <2>2 DEF ClientSound, RivalsSound, Pending, Competitors
  <2> QED
    BY <1>4, <2>3, <2>4, <2>5 DEF ClientSound
<1> QED
  BY <1>5, <1>6

(* Whoever was waiting gets the answer, and nobody waits any more.         *)
LEMMA SettledShape ==
    ASSUME CallsSound, NEW state \in {"resolved", "rejected"}, NEW i,
           promise' = Settled([state |-> state, session |-> i])
    PROVE  \A r \in WebCalls : IF Pending(r) THEN promise'[r] = [state |-> state, session |-> i]
                                             ELSE promise'[r] = promise[r]
BY DEF CallsSound, Settled

(* What a message does to calls and views.                                 *)
LEMMA Delivered ==
    ASSUME ClientSound, NEW k \in Sockets, Deliver(k), NEW m \in Message, m = Head(inbox[k]),
           Snapshot(m) => m.id \in WebCalls /\ m.version \in Nat
    PROVE  /\ view' \in [WebCalls -> 0..MaxVersion]
           /\ \A i \in WebCalls : \/ view'[i] = view[i]
                                  \/ Snapshot(m) /\ i = m.id /\ view'[i] = m.version
           /\ waiting' \subseteq waiting
           /\ promise' \in [WebCalls -> [state : {"none", "pending", "rejected", "resolved"},
                                         session : WebCalls \cup {Nil}]]
           /\ \A r \in WebCalls :
                  \/ promise'[r] = promise[r] /\ (Pending(r) => waiting' = waiting)
                  \/ /\ Pending(r) /\ promise'[r].state = "resolved"
                     /\ m.type = "session_created" /\ promise'[r].session = m.id
                  \/ Pending(r) /\ promise'[r].state = "rejected"
<1>1. /\ view \in [WebCalls -> 0..MaxVersion] /\ waiting \subseteq WebCalls
      /\ promise \in [WebCalls -> [state : {"none", "pending", "rejected", "resolved"},
                                   session : WebCalls \cup {Nil}]]
      /\ CallsSound
  BY DEF ClientSound, TypeOK
<1>2. SessionCreated(m) \/ SessionUpdated(m) \/ Failed(m)
  BY DEF Deliver
<1>3. Snapshot(m) => m.version \in 0..MaxVersion
  BY DEF Message, Snapshot
<1>4. CASE SessionCreated(m)
  <2>1. m.id \in WebCalls /\ m.version \in 0..MaxVersion
    BY <1>3, <1>4 DEF SessionCreated, Snapshot
  <2>2. /\ view' \in [WebCalls -> 0..MaxVersion]
        /\ \A i \in WebCalls : view'[i] = view[i] \/ (i = m.id /\ view'[i] = m.version)
    BY <1>1, <1>4, <2>1 DEF SessionCreated, getOrCreate
  <2>3. waiting' = {} /\ promise' = Settled([state |-> "resolved", session |-> m.id])
    BY <1>4 DEF SessionCreated
  <2>4. promise' \in [WebCalls -> [state : {"none", "pending", "rejected", "resolved"},
                                   session : WebCalls \cup {Nil}]]
    BY <1>1, <2>1, <2>3 DEF Settled
  <2>5. \A r \in WebCalls : IF Pending(r)
                            THEN promise'[r] = [state |-> "resolved", session |-> m.id]
                            ELSE promise'[r] = promise[r]
    BY <1>1, <2>3, SettledShape
  <2> QED
    BY <1>4, <2>2, <2>3, <2>4, <2>5 DEF SessionCreated, Snapshot
<1>5. CASE SessionUpdated(m)
  <2>1. m.id \in WebCalls /\ m.version \in 0..MaxVersion /\ Snapshot(m)
    BY <1>3, <1>5 DEF SessionUpdated, Snapshot
  <2>2. /\ view' \in [WebCalls -> 0..MaxVersion]
        /\ \A i \in WebCalls : view'[i] = view[i] \/ (i = m.id /\ view'[i] = m.version)
    BY <1>1, <1>5, <2>1 DEF SessionUpdated
  <2> QED
    BY <1>1, <1>5, <2>1, <2>2 DEF SessionUpdated
<1>6. CASE Failed(m)
  <2>1. waiting' = {} /\ promise' = Settled([state |-> "rejected", session |-> Nil])
    BY <1>6 DEF Failed
  <2>2. promise' \in [WebCalls -> [state : {"none", "pending", "rejected", "resolved"},
                                   session : WebCalls \cup {Nil}]]
    BY <1>1, <2>1 DEF Settled
  <2>3. \A r \in WebCalls : IF Pending(r)
                            THEN promise'[r] = [state |-> "rejected", session |-> Nil]
                            ELSE promise'[r] = promise[r]
    BY <1>1, <2>1, SettledShape
  <2> QED
    BY <1>1, <1>6, <2>1, <2>2, <2>3 DEF Failed
<1> QED
  BY <1>2, <1>4, <1>5, <1>6

LEMMA DeliverKeeps ==
    ASSUME ClientSound, NEW k \in Sockets, Deliver(k)
    PROVE  ClientSound' /\ \A i \in WebCalls : view[i] <= view'[i]
<1>1. /\ inbox \in [Sockets -> Seq(Message)] /\ socket[k] = "open" /\ inbox[k] # <<>>
      /\ inbox' = [inbox EXCEPT ![k] = Tail(inbox[k])]
      /\ UNCHANGED <<ws, socket, listening, remove, asked, version, refusals, rivals>>
  BY DEF Deliver, ClientSound, TypeOK, web_server_vars
<1>2. PICK q \in Seq(Message) : q = inbox[k] /\ q # <<>>
  BY <1>1
<1>3. /\ Tail(q) \in Seq(Message) /\ 1 \in DOMAIN q /\ Head(q) = q[1]
      /\ \A j \in DOMAIN Tail(q) : j + 1 \in DOMAIN q /\ Tail(q)[j] = q[j + 1]
  BY <1>2, TailShape
<1>4. PICK m \in Message : /\ m = Head(inbox[k]) /\ m = q[1]
                           /\ Snapshot(m) => m.id \in WebCalls /\ m.version \in Nat
  BY <1>2, <1>3, MessageTyped
<1>5. /\ view' \in [WebCalls -> 0..MaxVersion]
      /\ \A i \in WebCalls : \/ view'[i] = view[i]
                             \/ Snapshot(m) /\ i = m.id /\ view'[i] = m.version
      /\ waiting' \subseteq waiting
      /\ promise' \in [WebCalls -> [state : {"none", "pending", "rejected", "resolved"},
                                    session : WebCalls \cup {Nil}]]
      /\ \A r \in WebCalls :
             \/ promise'[r] = promise[r] /\ (Pending(r) => waiting' = waiting)
             \/ /\ Pending(r) /\ promise'[r].state = "resolved"
                /\ m.type = "session_created" /\ promise'[r].session = m.id
             \/ Pending(r) /\ promise'[r].state = "rejected"
  BY <1>4, Delivered
<1>6. /\ inbox'[k] = Tail(q) /\ \A l \in Sockets \ {k} : inbox'[l] = inbox[l]
      /\ inbox' \in [Sockets -> Seq(Message)]
  BY <1>1, <1>2, <1>3
<1>7. TypeOK'
  BY <1>1, <1>5, <1>6 DEF ClientSound, TypeOK
<1>8. TransportSound'
  BY <1>1, <1>6 DEF ClientSound, TransportSound
<1>9. ServerSound'
  BY <1>1, <1>5 DEF ClientSound, ServerSound, Pending
<1>10. CallsSound'
  BY <1>5 DEF ClientSound, CallsSound, Pending
<1>11. AnswerIsOwnOrRivals'
  <2>1. ASSUME NEW r \in WebCalls, Pending(r), m.type = "session_created"
        PROVE  m.id \in Competitors(r)
    BY <1>1, <1>2, <1>3, <1>4, <2>1 DEF ClientSound, RivalsSound
  <2> QED
    BY <1>1, <1>5, <2>1 DEF ClientSound, AnswerIsOwnOrRivals, Competitors, Pending
<1>12. RivalsSound'
  <2>1. SUFFICES ASSUME NEW r \in WebCalls, NEW l \in Sockets, Pending(r)', socket[l] = "open"
                 PROVE  /\ \A o \in WebCalls : <<o, l>> \in asked => o \in Competitors(r)
                        /\ \A j \in DOMAIN inbox'[l] : inbox'[l][j].type = "session_created"
                               => inbox'[l][j].id \in Competitors(r)
    BY <1>1 DEF RivalsSound, Competitors
  <2>2. Pending(r)
    BY <1>5, <2>1 DEF Pending
  <2>3. /\ \A o \in WebCalls : <<o, l>> \in asked => o \in Competitors(r)
        /\ \A j \in DOMAIN inbox[l] : inbox[l][j].type = "session_created"
               => inbox[l][j].id \in Competitors(r)
    BY <2>1, <2>2 DEF ClientSound, RivalsSound
  <2>4. CASE l = k
    <3>1. inbox'[l] = Tail(q) /\ inbox[l] = q
      BY <1>2, <1>6, <2>4
    <3>2. ASSUME NEW j \in DOMAIN Tail(q), Tail(q)[j].type = "session_created"
          PROVE  Tail(q)[j].id \in Competitors(r)
      <4>1. PICK n \in DOMAIN q : Tail(q)[j] = q[n]
        BY <1>3
      <4> QED
        BY <2>3, <3>1, <3>2, <4>1
    <3> QED
      BY <2>3, <3>1, <3>2
  <2>5. CASE l # k
    BY <1>6, <2>3, <2>5
  <2> QED
    BY <2>4, <2>5
<1>13. /\ view \in [WebCalls -> Nat] /\ view' \in [WebCalls -> Nat] /\ version \in [WebCalls -> Nat]
  BY <1>5 DEF ClientSound, TypeOK
<1>14. Snapshot(m) => view[m.id] <= m.version /\ m.version <= version[m.id]
  BY <1>2, <1>3, <1>4 DEF ClientSound, OrderSound, InOrder
<1>15. ASSUME NEW i \in WebCalls PROVE view[i] <= view'[i] /\ view'[i] <= version[i]
  BY <1>5, <1>13, <1>14 DEF ClientSound, OrderSound
<1>16. OrderSound'
  <2>1. InOrder(q, view, version)
    BY <1>2 DEF ClientSound, OrderSound
  <2>2. \A i \in WebCalls : \/ view'[i] = view[i]
                            \/ Snapshot(q[1]) /\ i = q[1].id /\ view'[i] <= q[1].version
    BY <1>4, <1>5
  <2>3. InOrder(Tail(q), view', version)
    BY <1>2, <1>13, <2>1, <2>2, TailInOrder
  <2>4. ASSUME NEW l \in Sockets \ {k} PROVE InOrder(inbox'[l], view', version)
    BY <1>1, <1>6, EmptyInOrder DEF ClientSound, TransportSound
  <2> QED
    BY <1>1, <1>6, <1>15, <2>3, <2>4 DEF OrderSound
<1> QED
  BY <1>7, <1>8, <1>9, <1>10, <1>11, <1>12, <1>15, <1>16 DEF ClientSound

-----------------------------------------------------------------------------
(* The server *)

(* A message that may be sent reaches the open connection, or nobody.      *)
LEMMA SentKeeps ==
    ASSUME ClientSound, NEW k \in Sockets, NEW m \in Message, Send(k, m),
           UNCHANGED <<ws, socket, listening, remove, waiting, promise, view, rivals>>,
           version' \in [WebCalls -> 0..MaxVersion],
           \A i \in WebCalls : version[i] <= version'[i],
           Snapshot(m) => version[m.id] <= m.version /\ m.version <= version'[m.id],
           asked' \subseteq asked,
           \A r \in WebCalls : m.type = "session_created" /\ socket[k] = "open" /\ Pending(r)
                                   => m.id \in Competitors(r)
    PROVE  /\ inbox' \in [Sockets -> Seq(Message)]
           /\ TransportSound' /\ CallsSound' /\ OrderSound' /\ RivalsSound' /\ AnswerIsOwnOrRivals'
<1>1. /\ inbox \in [Sockets -> Seq(Message)]
      /\ view \in [WebCalls -> Nat] /\ version \in [WebCalls -> Nat]
      /\ version' \in [WebCalls -> Nat]
  BY DEF ClientSound, TypeOK
<1>2. PICK q \in Seq(Message) : q = inbox[k]
  BY <1>1
<1>3. /\ Append(q, m) \in Seq(Message)
      /\ \A j \in DOMAIN Append(q, m) :
             (\E n \in DOMAIN q : Append(q, m)[j] = q[n]) \/ Append(q, m)[j] = m
  BY AppendShape
<1>4. /\ \A l \in Sockets \ {k} : inbox'[l] = inbox[l]
      /\ inbox'[k] = IF socket[k] = "open" THEN Append(q, m) ELSE q
      /\ inbox' \in [Sockets -> Seq(Message)]
  BY <1>1, <1>2, <1>3 DEF Send
<1>5. TransportSound'
  BY <1>2, <1>4 DEF ClientSound, TransportSound
<1>6. CallsSound' /\ AnswerIsOwnOrRivals'
  BY DEF ClientSound, CallsSound, AnswerIsOwnOrRivals, Pending
<1>7. OrderSound'
  <2>1. ASSUME NEW i \in WebCalls PROVE view[i] <= version'[i]
    BY <1>1 DEF ClientSound, OrderSound
  <2>2. Snapshot(m) => m.id \in WebCalls /\ m.version \in Nat
    BY DEF Message, Snapshot
  <2>3. Snapshot(m) => view[m.id] <= m.version
    BY <1>1, <2>2 DEF ClientSound, OrderSound
  <2>4. InOrder(q, view, version)
    BY <1>2 DEF ClientSound, OrderSound
  <2>5. InOrder(Append(q, m), view, version') /\ InOrder(q, view, version')
    BY <1>1, <2>3, <2>4, AppendInOrder
  <2>6. ASSUME NEW l \in Sockets \ {k} PROVE InOrder(inbox'[l], view, version')
    <3>1. PICK o \in Seq(Message) : o = inbox[l]
      BY <1>1
    <3>2. InOrder(o, view, version)
      BY <3>1 DEF ClientSound, OrderSound
    <3>3. InOrder(o, view, version')
      BY <1>1, <3>2, ErrorIsMessage, AppendInOrder
    <3> QED
      BY <1>4, <3>1, <3>3
  <2> QED
    BY <1>4, <2>1, <2>5, <2>6 DEF OrderSound
<1>8. RivalsSound'
  <2>1. SUFFICES ASSUME NEW r \in WebCalls, NEW l \in Sockets, Pending(r), socket[l] = "open"
                 PROVE  /\ \A o \in WebCalls : <<o, l>> \in asked' => o \in Competitors(r)
                        /\ \A j \in DOMAIN inbox'[l] : inbox'[l][j].type = "session_created"
                               => inbox'[l][j].id \in Competitors(r)
    BY DEF RivalsSound, Competitors, Pending
  <2>2. /\ \A o \in WebCalls : <<o, l>> \in asked => o \in Competitors(r)
        /\ \A j \in DOMAIN inbox[l] : inbox[l][j].type = "session_created"
               => inbox[l][j].id \in Competitors(r)
    BY <2>1 DEF ClientSound, RivalsSound
  <2>3. CASE l = k
    <3>1. inbox'[l] = Append(q, m) /\ inbox[l] = q
      BY <1>2, <1>4, <2>1, <2>3
    <3>2. ASSUME NEW j \in DOMAIN Append(q, m), Append(q, m)[j].type = "session_created"
          PROVE  Append(q, m)[j].id \in Competitors(r)
      <4>1. CASE \E n \in DOMAIN q : Append(q, m)[j] = q[n]
        BY <2>2, <3>1, <3>2, <4>1
      <4>2. CASE Append(q, m)[j] = m
        BY <2>1, <2>3, <3>2, <4>2
      <4> QED
        BY <1>3, <4>1, <4>2
    <3> QED
      BY <2>2, <3>1, <3>2
  <2>4. CASE l # k
    BY <1>4, <2>2, <2>4
  <2> QED
    BY <2>3, <2>4
<1> QED
  BY <1>4, <1>5, <1>6, <1>7, <1>8

LEMMA AnswerKeeps ==
    ASSUME ClientSound, NEW r \in WebCalls, NEW k \in Sockets, Answer(r, k)
    PROVE  ClientSound'
<1>1. /\ <<r, k>> \in asked /\ asked' = asked \ {<<r, k>>}
      /\ UNCHANGED <<ws, socket, listening, remove, waiting, promise, view, refusals, rivals>>
  BY DEF Answer
<1>2. version \in [WebCalls -> 0..MaxVersion] /\ asked \subseteq WebCalls \X Sockets
  BY DEF ClientSound, TypeOK
<1>3. version[r] = 0 /\ promise[r].state # "none" /\ \A l \in Sockets : <<r, l>> \in asked => l = k
  BY <1>1 DEF ClientSound, ServerSound
<1>4. ASSUME NEW q \in WebCalls, socket[k] = "open", Pending(q) PROVE r \in Competitors(q)
  BY <1>1, <1>4 DEF ClientSound, RivalsSound
<1> DEFINE Sound == /\ inbox' \in [Sockets -> Seq(Message)]
                    /\ version' \in [WebCalls -> 0..MaxVersion]
                    /\ \A q \in WebCalls : q # r => version'[q] = version[q]
                    /\ TransportSound' /\ CallsSound' /\ OrderSound' /\ RivalsSound'
                    /\ AnswerIsOwnOrRivals'
<1>5. ASSUME version' = [version EXCEPT ![r] = 1],
             Send(k, [type |-> "session_created", id |-> r, version |-> 1])
      PROVE  Sound
  <2>1. PICK m \in Message : m = [type |-> "session_created", id |-> r, version |-> 1]
    <3>1. 1 \in 1..MaxVersion
      BY ClientAssumption
    <3>2. [type |-> "session_created", id |-> r, version |-> 1] \in Message
      BY <3>1, SnapshotIsMessage
    <3> QED
      BY <3>2
  <2>2. /\ version' \in [WebCalls -> 0..MaxVersion] /\ version'[r] = 1
        /\ \A q \in WebCalls : q # r => version'[q] = version[q]
    BY <1>2, <1>5, ClientAssumption
  <2>3. /\ \A q \in WebCalls : version[q] <= version'[q]
        /\ version[m.id] <= m.version /\ m.version <= version'[m.id]
    BY <1>2, <1>3, <2>1, <2>2
  <2>4. Send(k, m)
    BY <1>5, <2>1
  <2>5. \A q \in WebCalls : m.type = "session_created" /\ socket[k] = "open" /\ Pending(q)
                               => m.id \in Competitors(q)
    BY <1>4, <2>1
  <2>6. asked' \subseteq asked
    BY <1>1
  <2>7. /\ inbox' \in [Sockets -> Seq(Message)]
        /\ TransportSound' /\ CallsSound' /\ OrderSound' /\ RivalsSound' /\ AnswerIsOwnOrRivals'
    BY <1>1, <2>2, <2>3, <2>4, <2>5, <2>6, SentKeeps
  <2> QED
    BY <2>2, <2>7
<1>6. ASSUME Send(k, ErrorMessage), UNCHANGED version PROVE Sound
  <2>1. PICK m \in Message : m = ErrorMessage /\ ~Snapshot(m) /\ m.type # "session_created"
    BY ErrorIsMessage
  <2>2. Send(k, m)
    BY <1>6, <2>1
  <2>3. version' \in [WebCalls -> 0..MaxVersion] /\ \A q \in WebCalls : version[q] <= version'[q]
    BY <1>2, <1>6
  <2>4. asked' \subseteq asked
    BY <1>1
  <2>5. /\ inbox' \in [Sockets -> Seq(Message)]
        /\ TransportSound' /\ CallsSound' /\ OrderSound' /\ RivalsSound' /\ AnswerIsOwnOrRivals'
    BY <1>1, <2>1, <2>2, <2>3, <2>4, SentKeeps
  <2> QED
    BY <1>6, <2>3, <2>5
<1>7. Sound
  BY <1>5, <1>6 DEF Answer
<1>8. TypeOK'
  BY <1>1, <1>2, <1>7 DEF ClientSound, TypeOK
<1>9. ServerSound'
  BY <1>1, <1>3, <1>7 DEF ClientSound, ServerSound
<1> QED
  BY <1>7, <1>8, <1>9 DEF ClientSound

LEMMA UpdateKeeps ==
    ASSUME ClientSound, NEW i \in WebCalls, NEW k \in Sockets, Update(i, k)
    PROVE  ClientSound'
<1>1. UNCHANGED <<ws, socket, listening, remove, waiting, promise, view, asked, refusals, rivals>>
  BY DEF Update
<1>2. /\ version \in [WebCalls -> 0..MaxVersion]
      /\ version[i] >= 1 /\ version[i] + 1 \in 1..MaxVersion
  BY ClientAssumption DEF Update, ClientSound, TypeOK
<1>3. PICK m \in Message : m = [type |-> "session_updated", id |-> i, version |-> version[i] + 1]
  BY <1>2, SnapshotIsMessage
<1>4. Send(k, m)
  BY <1>3 DEF Update
<1>5. /\ version' \in [WebCalls -> 0..MaxVersion]
      /\ version'[i] = version[i] + 1
      /\ \A q \in WebCalls : q # i => version'[q] = version[q]
  BY <1>2, ClientAssumption DEF Update
<1>6. /\ \A q \in WebCalls : version[q] <= version'[q]
      /\ version[m.id] <= m.version /\ m.version <= version'[m.id]
      /\ m.type # "session_created"
  BY <1>2, <1>3, <1>5
<1>7. /\ inbox' \in [Sockets -> Seq(Message)]
      /\ TransportSound' /\ CallsSound' /\ OrderSound' /\ RivalsSound' /\ AnswerIsOwnOrRivals'
  BY <1>1, <1>4, <1>5, <1>6, SentKeeps
<1>8. TypeOK'
  BY <1>1, <1>5, <1>7 DEF ClientSound, TypeOK
<1>9. ServerSound'
  BY <1>1, <1>2, <1>5 DEF ClientSound, ServerSound
<1> QED
  BY <1>7, <1>8, <1>9 DEF ClientSound

LEMMA RefuseKeeps ==
    ASSUME ClientSound, NEW k \in Sockets, Refuse(k)
    PROVE  ClientSound'
<1>1. /\ UNCHANGED <<ws, socket, listening, remove, waiting, promise, view, asked, version, rivals>>
      /\ refusals' \in 0..MaxRefusals
  BY ClientAssumption DEF Refuse, ClientSound, TypeOK
<1>2. PICK m \in Message : m = ErrorMessage /\ ~Snapshot(m) /\ m.type # "session_created"
  BY ErrorIsMessage
<1>3. Send(k, m)
  BY <1>2 DEF Refuse
<1>4. version' \in [WebCalls -> 0..MaxVersion] /\ \A q \in WebCalls : version[q] <= version'[q]
  BY <1>1 DEF ClientSound, TypeOK
<1>5. /\ inbox' \in [Sockets -> Seq(Message)]
      /\ TransportSound' /\ CallsSound' /\ OrderSound' /\ RivalsSound' /\ AnswerIsOwnOrRivals'
  BY <1>1, <1>2, <1>3, <1>4, SentKeeps
<1>6. TypeOK' /\ ServerSound'
  BY <1>1, <1>4, <1>5 DEF ClientSound, TypeOK, ServerSound
<1> QED
  BY <1>5, <1>6 DEF ClientSound

-----------------------------------------------------------------------------
(* The theorems *)

LEMMA ClientStays == ClientSound /\ [ClientNext]_web_vars => ClientSound'
<1> SUFFICES ASSUME ClientSound, [ClientNext]_web_vars PROVE ClientSound'
  OBVIOUS
<1>1. CASE UNCHANGED web_vars
  BY <1>1 DEF web_vars, client_vars, web_server_vars, ClientSound, TypeOK, TransportSound, ServerSound,
         CallsSound, OrderSound, InOrder, RivalsSound, Competitors, AnswerIsOwnOrRivals, Pending
<1>2. ASSUME NEW k \in Sockets, Connect(k) \/ Opened(k) \/ Lost(k) \/ Deliver(k) \/ Refuse(k)
      PROVE  ClientSound'
  BY <1>2, ConnectKeeps, OpenedKeeps, LostKeeps, DeliverKeeps, RefuseKeeps
<1>3. ASSUME NEW r \in WebCalls, NEW k \in Sockets, Answer(r, k) \/ Update(r, k)
      PROVE  ClientSound'
  BY <1>3, AnswerKeeps, UpdateKeeps
<1> QED
  BY <1>1, <1>2, <1>3, DisconnectKeeps, ProcessIntentKeeps DEF ClientNext

LEMMA ClientStaysSound == ClientSpec => []ClientSound
BY ClientHolds, ClientStays, PTL DEF ClientSpec

(* WebClient.ClientInv: the transport and the listeners agree, a pending   *)
(* call has its one-shot listener, and no call of processIntent resolves   *)
(* to the session of a request it did not compete with.                    *)
THEOREM AnswersGoWhereTheyMay == ClientSpec => []ClientInv
<1>1. ClientSound => ClientInv
  <2> SUFFICES ASSUME ClientSound PROVE ClientInv
    OBVIOUS
  <2>1. ws # 0 /\ socket[ws] = "open" => remove \in listening
    BY ClientAssumption DEF ClientSound, TypeOK, TransportSound, Sockets
  <2> QED
    BY <2>1 DEF ClientSound, ClientInv, TransportSound, CallsSound
<1> QED
  BY <1>1, ClientStaysSound, PTL

(* WebClient.ViewNeverGoesBack: no snapshot the client shows is replaced   *)
(* by an older one, through any number of lost connections.                *)
THEOREM ViewsOnlyAdvance == ClientSpec => ViewNeverGoesBack
<1>1. ClientSound /\ [ClientNext]_web_vars => [\A i \in WebCalls : view[i] <= view'[i]]_web_vars
  <2> SUFFICES ASSUME ClientSound, ClientNext PROVE \A i \in WebCalls : view[i] <= view'[i]
    OBVIOUS
  <2>1. \A i \in WebCalls : view[i] \in Nat
    BY DEF ClientSound, TypeOK
  <2>2. CASE view' = view
    BY <2>1, <2>2
  <2>3. ASSUME NEW k \in Sockets, Deliver(k) PROVE \A i \in WebCalls : view[i] <= view'[i]
    BY <2>3, DeliverKeeps
  <2> QED
    BY <2>2, <2>3
    DEF ClientNext, Connect, Opened, Lost, Refuse, disconnect, processIntent, Answer, Update
<1> QED
  BY <1>1, ClientStaysSound, PTL DEF ClientSpec, ViewNeverGoesBack

-----------------------------------------------------------------------------
(* The stdio server and its bindings.                                      *)

(* The queue q holds the calls whose lines are in out, then those in in.   *)
Queued(q, out, in) ==
    /\ Len(q) = Len(out) + Len(in)
    /\ \A n \in DOMAIN q : q[n] = IF n <= Len(out) THEN out[n] ELSE in[n - Len(out)]

(* The queue begins with the calls whose lines are in out.                 *)
Begins(out, q) == Len(out) <= Len(q) /\ \A n \in DOMAIN out : q[n] = out[n]

(* Processes are used one after the other; one that is followed by another *)
(* is gone, and its output was read.                                       *)
ProcessesSound ==
    \A p \in Processes :
        /\ p > proc => process[p] = "none" /\ stdin[p] = <<>> /\ stdout[p] = <<>> /\ p \notin eof
        /\ p < proc => process[p] \in {"exited", "crashed"} /\ stdout[p] = <<>>
        /\ p <= proc => process[p] # "none"
        /\ process[p] # "leaving"
        /\ process[p] = "exited" => stdin[p] = <<>> /\ p \in eof
        /\ process[p] = "failed" => stdout[p] = <<>>
        /\ stdin[p] \in Seq(Requests)

ClosingSound ==
    /\ connected => proc # 0 /\ closing = "no" /\ proc \notin eof
    /\ proc = 0 => closing = "no"
    /\ ~connected /\ closing = "no" /\ proc # 0 =>
           process[proc] \in {"exited", "crashed"} /\ stdout[proc] = <<>>

(* As long as no earlier process crashed, the queue is what the pipes of   *)
(* the current one hold, and more only if that one is gone.                *)
QueueSound ==
    (\A p \in 1..(proc - 1) : process[p] # "crashed") =>
        /\ proc = 0 => pending = <<>>
        /\ proc # 0 => IF process[proc] \in {"running", "exited"}
                       THEN Queued(pending, stdout[proc], stdin[proc])
                       ELSE Begins(stdout[proc], pending)

NodeSound ==
    ServerTypeOK /\ NodeTypeOK /\ ProcessesSound /\ ClosingSound /\ QueueSound /\ NodeAnswers

(* At most one line is under way, that of the call that holds the lock.    *)
PythonSound ==
    /\ ServerTypeOK
    /\ \A p \in Processes \ {1} : process[p] = "none"
    /\ \A c \in Calls : Answered(c) => result[c] = c
    /\ \A c \in Calls : result[c] = "pending" => lock = c
    /\ lock = "free" => /\ stdout[1] = <<>>
                        /\ process[1] \in {"exited", "crashed"} \/ stdin[1] = <<>>
    /\ lock # "free" => /\ lock \in Calls /\ result[lock] = "pending"
                        /\ \/ stdin[1] = <<lock>> /\ stdout[1] = <<>>
                           \/ stdin[1] = <<>> /\ stdout[1] = <<lock>>

(* The inductive invariant; each binding leaves the other's variables.     *)
BindingSound ==
    /\ binding \in {"node", "python"}
    /\ binding = "node" => NodeSound /\ lock = "free"
    /\ binding = "python" => PythonSound /\ NodeInit

-----------------------------------------------------------------------------
(* Queues of calls *)

LEMMA FirstAndRest ==
    ASSUME NEW S, NEW q \in Seq(S), q # <<>>
    PROVE  /\ Len(q) \in Nat /\ Len(q) >= 1 /\ DOMAIN q = 1..Len(q)
           /\ Head(q) = q[1] /\ Head(q) \in S
           /\ Tail(q) \in Seq(S) /\ Len(Tail(q)) = Len(q) - 1 /\ DOMAIN Tail(q) = 1..(Len(q) - 1)
           /\ \A n \in 1..(Len(q) - 1) : Tail(q)[n] = q[n + 1]
<1>1. Len(q) \in Nat /\ Len(q) # 0 /\ DOMAIN q = 1..Len(q)
  BY LenProperties, EmptySeq
<1>2. /\ Head(q) \in S /\ Tail(q) \in Seq(S) /\ Len(Tail(q)) = Len(q) - 1
      /\ \A n \in 1..Len(Tail(q)) : Tail(q)[n] = q[n + 1]
  BY HeadTailProperties
<1>3. DOMAIN Tail(q) = 1..Len(Tail(q))
  BY <1>2, LenProperties
<1> QED
  BY <1>1, <1>2, <1>3

LEMMA OneMore ==
    ASSUME NEW S, NEW q \in Seq(S), NEW c \in S
    PROVE  /\ Len(q) \in Nat /\ DOMAIN q = 1..Len(q)
           /\ Append(q, c) \in Seq(S) /\ Append(q, c) # <<>> /\ Len(Append(q, c)) = Len(q) + 1
           /\ DOMAIN Append(q, c) = 1..(Len(q) + 1)
           /\ \A n \in 1..Len(q) : Append(q, c)[n] = q[n]
           /\ Append(q, c)[Len(q) + 1] = c
<1>1. /\ Append(q, c) \in Seq(S) /\ Append(q, c) # <<>> /\ Len(Append(q, c)) = Len(q) + 1
      /\ \A n \in 1..Len(q) : Append(q, c)[n] = q[n]
      /\ Append(q, c)[Len(q) + 1] = c
  BY AppendProperties
<1> QED
  BY <1>1, LenProperties

LEMMA NothingQueued ==
    ASSUME NEW S, NEW q \in Seq(S)
    PROVE  /\ Begins(<<>>, q)
           /\ Queued(q, <<>>, <<>>) <=> q = <<>>
<1>1. PICK e : e = <<>> /\ e \in Seq(S) /\ Len(e) = 0 /\ DOMAIN e = {}
  <2>1. <<>> \in Seq(S) /\ Len(<<>>) = 0 /\ DOMAIN <<>> = {}
    BY EmptySeq
  <2> QED
    BY <2>1
<1>2. Len(q) \in Nat /\ DOMAIN q = 1..Len(q) /\ (q = <<>> <=> Len(q) = 0)
  BY LenProperties, EmptySeq
<1>3. Begins(e, q)
  BY <1>1, <1>2 DEF Begins
<1>4. Queued(q, e, e) <=> q = <<>>
  BY <1>1, <1>2 DEF Queued
<1> QED
  BY <1>1, <1>3, <1>4

LEMMA QueuedBegins ==
    ASSUME NEW S, NEW q \in Seq(S), NEW out \in Seq(S), NEW in \in Seq(S), Queued(q, out, in)
    PROVE  Begins(out, q)
BY LenProperties DEF Queued, Begins

(* The server answers the first line it has not read.                      *)
LEMMA QueuedHandled ==
    ASSUME NEW S, NEW q \in Seq(S), NEW out \in Seq(S), NEW in \in Seq(S), Queued(q, out, in),
           in # <<>>
    PROVE  Queued(q, Append(out, Head(in)), Tail(in))
<1>1. PICK c \in S : c = Head(in) /\ c = in[1]
  BY FirstAndRest
<1>2. /\ Len(q) \in Nat /\ DOMAIN q = 1..Len(q)
      /\ Len(q) = Len(out) + Len(in)
      /\ \A n \in DOMAIN q : q[n] = IF n <= Len(out) THEN out[n] ELSE in[n - Len(out)]
  BY LenProperties DEF Queued
<1>3. /\ Len(in) \in Nat /\ Len(in) >= 1 /\ Len(Tail(in)) = Len(in) - 1
      /\ \A n \in 1..(Len(in) - 1) : Tail(in)[n] = in[n + 1]
  BY FirstAndRest
<1>4. PICK o \in Seq(S) : /\ o = Append(out, c) /\ Len(out) \in Nat /\ Len(o) = Len(out) + 1
                          /\ \A n \in 1..Len(out) : o[n] = out[n]
                          /\ o[Len(out) + 1] = c
  BY OneMore
<1>5. ASSUME NEW n \in DOMAIN q
      PROVE  q[n] = IF n <= Len(o) THEN o[n] ELSE Tail(in)[n - Len(o)]
  <2>1. CASE n <= Len(out)
    BY <1>2, <1>4, <1>5, <2>1
  <2>2. CASE n = Len(out) + 1
    BY <1>1, <1>2, <1>4, <1>5, <2>2
  <2>3. CASE n > Len(out) + 1
    <3>1. PICK j \in 1..(Len(in) - 1) : j = n - Len(o) /\ j + 1 = n - Len(out)
      BY <1>2, <1>3, <1>4, <1>5, <2>3
    <3> QED
      BY <1>2, <1>3, <1>4, <1>5, <2>3, <3>1
  <2> QED
    BY <1>2, <1>4, <1>5, <2>1, <2>2, <2>3
<1> QED
  BY <1>1, <1>2, <1>3, <1>4, <1>5 DEF Queued

(* A call is queued and its line written.                                  *)
LEMMA QueuedAsked ==
    ASSUME NEW S, NEW q \in Seq(S), NEW out \in Seq(S), NEW in \in Seq(S), Queued(q, out, in),
           NEW c \in S
    PROVE  Queued(Append(q, c), out, Append(in, c))
<1>1. /\ Len(q) \in Nat /\ DOMAIN q = 1..Len(q) /\ Len(out) \in Nat /\ Len(in) \in Nat
      /\ Len(q) = Len(out) + Len(in)
      /\ \A n \in DOMAIN q : q[n] = IF n <= Len(out) THEN out[n] ELSE in[n - Len(out)]
  BY LenProperties DEF Queued
<1>2. PICK a \in Seq(S) : /\ a = Append(q, c) /\ Len(a) = Len(q) + 1 /\ DOMAIN a = 1..(Len(q) + 1)
                          /\ \A n \in 1..Len(q) : a[n] = q[n]
                          /\ a[Len(q) + 1] = c
  BY OneMore
<1>3. PICK b \in Seq(S) : /\ b = Append(in, c) /\ Len(b) = Len(in) + 1
                          /\ \A n \in 1..Len(in) : b[n] = in[n]
                          /\ b[Len(in) + 1] = c
  BY OneMore
<1>4. ASSUME NEW n \in DOMAIN a PROVE a[n] = IF n <= Len(out) THEN out[n] ELSE b[n - Len(out)]
  <2>1. CASE n \in DOMAIN q
    BY <1>1, <1>2, <1>3, <2>1
  <2>2. CASE n = Len(q) + 1
    BY <1>1, <1>2, <1>3, <2>2
  <2> QED
    BY <1>1, <1>2, <1>4, <2>1, <2>2
<1> QED
  BY <1>1, <1>2, <1>3, <1>4 DEF Queued

LEMMA BeginsAsked ==
    ASSUME NEW S, NEW q \in Seq(S), NEW out \in Seq(S), Begins(out, q), NEW c \in S
    PROVE  Begins(out, Append(q, c))
<1>1. /\ Len(q) \in Nat /\ Len(Append(q, c)) = Len(q) + 1
      /\ \A n \in 1..Len(q) : Append(q, c)[n] = q[n]
  BY OneMore
<1>2. Len(out) \in Nat /\ DOMAIN out = 1..Len(out)
  BY LenProperties
<1> QED
  BY <1>1, <1>2 DEF Begins

(* The first line is taken for the first call of the queue.                *)
LEMMA BeginsRead ==
    ASSUME NEW S, NEW q \in Seq(S), NEW out \in Seq(S), Begins(out, q), out # <<>>
    PROVE  q # <<>> /\ Head(q) = Head(out) /\ Begins(Tail(out), Tail(q))
<1>1. /\ Len(out) \in Nat /\ Len(out) >= 1 /\ DOMAIN out = 1..Len(out) /\ Head(out) = out[1]
      /\ Len(Tail(out)) = Len(out) - 1 /\ DOMAIN Tail(out) = 1..(Len(out) - 1)
      /\ \A n \in 1..(Len(out) - 1) : Tail(out)[n] = out[n + 1]
  BY FirstAndRest
<1>2. Len(q) \in Nat /\ Len(q) >= 1 /\ q # <<>>
  BY <1>1, LenProperties, EmptySeq DEF Begins
<1>3. /\ Head(q) = q[1] /\ Len(Tail(q)) = Len(q) - 1
      /\ \A n \in 1..(Len(q) - 1) : Tail(q)[n] = q[n + 1]
  BY <1>2, FirstAndRest
<1> QED
  BY <1>1, <1>2, <1>3 DEF Begins

LEMMA QueuedRead ==
    ASSUME NEW S, NEW q \in Seq(S), NEW out \in Seq(S), NEW in \in Seq(S), Queued(q, out, in),
           out # <<>>
    PROVE  Queued(Tail(q), Tail(out), in)
<1>1. /\ Len(out) \in Nat /\ Len(out) >= 1 /\ Len(Tail(out)) = Len(out) - 1
      /\ \A n \in 1..(Len(out) - 1) : Tail(out)[n] = out[n + 1]
  BY FirstAndRest
<1>2. Len(q) \in Nat /\ Len(q) >= 1 /\ q # <<>> /\ Len(in) \in Nat
  BY <1>1, LenProperties, EmptySeq DEF Queued
<1>3. /\ DOMAIN q = 1..Len(q) /\ Len(Tail(q)) = Len(q) - 1 /\ DOMAIN Tail(q) = 1..(Len(q) - 1)
      /\ \A n \in 1..(Len(q) - 1) : Tail(q)[n] = q[n + 1]
  BY <1>2, FirstAndRest
<1>4. ASSUME NEW n \in DOMAIN Tail(q)
      PROVE  Tail(q)[n] = IF n <= Len(Tail(out)) THEN Tail(out)[n] ELSE in[n - Len(Tail(out))]
  <2>1. PICK j \in DOMAIN q : j = n + 1 /\ Tail(q)[n] = q[j]
    BY <1>2, <1>3, <1>4
  <2>2. q[j] = IF j <= Len(out) THEN out[j] ELSE in[j - Len(out)]
    BY DEF Queued
  <2>3. n \in Nat /\ n >= 1 /\ j - Len(out) = n - Len(Tail(out))
    BY <1>1, <1>2, <1>3, <1>4, <2>1
  <2> QED
    BY <1>1, <2>1, <2>2, <2>3
<1> QED
  BY <1>1, <1>2, <1>3, <1>4 DEF Queued

-----------------------------------------------------------------------------
(* The Node.js binding *)

LEMMA CallsTyped ==
    /\ Requests \subseteq Calls /\ Quit \in Calls
    /\ \A c \in Requests : c # Quit
    /\ {"unasked", "waiting", "pending", "failed", "free"} \cap Calls = {}
    /\ \A c \in Calls : c # Quit => c \in Requests
BY ServerAssumption DEF Calls

LEMMA PipesTyped ==
    ASSUME ServerTypeOK, NEW p \in Processes
    PROVE  /\ stdout \in [Processes -> Seq(Calls)] /\ stdin \in [Processes -> Seq(Calls)]
           /\ stdout[p] \in Seq(Calls) /\ stdin[p] \in Seq(Calls)
BY DEF ServerTypeOK

LEMMA NodeTyped ==
    ASSUME NodeSound
    PROVE  /\ process \in [Processes -> {"none", "failed", "running", "leaving", "exited", "crashed"}]
           /\ stdin \in [Processes -> Seq(Calls)] /\ stdout \in [Processes -> Seq(Calls)]
           /\ eof \subseteq Processes
           /\ result \in [Calls -> Calls \cup {"unasked", "waiting", "pending", "failed"}]
           /\ proc \in Nat /\ (proc # 0 => proc \in Processes)
           /\ pending \in Seq(Requests) /\ pending \in Seq(Calls)
<1>1. Requests \subseteq Calls
  BY CallsTyped
<1>2. pending \in Seq(Calls)
  BY <1>1, SeqMonotonic DEF NodeSound, NodeTypeOK
<1> QED
  BY <1>2, ServerAssumption DEF NodeSound, NodeTypeOK, ServerTypeOK, Processes

LEMMA EarlierStays ==
    ASSUME NEW n \in Nat, NEW m \in Nat, n <= m, NEW p \in 1..(n - 1)
    PROVE  p \in 1..(m - 1)
OBVIOUS

(* A crash that was does not go away.                                      *)
LEMMA AnswersKept ==
    ASSUME NodeAnswers, proc \in Nat, proc' \in Nat, proc <= proc',
           \A p \in 1..(proc - 1) : process[p] = "crashed" => process'[p] = "crashed",
           \A c \in Calls : result'[c] \in Calls /\ result'[c] # c
                            => result'[c] = result[c] \/ \E p \in 1..(proc - 1) : process[p] = "crashed"
    PROVE  NodeAnswers'
<1> SUFFICES ASSUME NEW c \in Calls, result'[c] \in Calls, result'[c] # c
             PROVE  \E p \in 1..(proc' - 1) : process'[p] = "crashed"
  BY DEF NodeAnswers, Answered
<1>1. \E p \in 1..(proc - 1) : process[p] = "crashed"
  BY DEF NodeAnswers, Answered
<1>2. PICK n \in Nat, m \in Nat : n = proc /\ m = proc' /\ n <= m
  OBVIOUS
<1>3. PICK p \in 1..(n - 1) : process[p] = "crashed"
  BY <1>1, <1>2
<1>4. p \in 1..(m - 1)
  BY <1>2, <1>3, EarlierStays
<1>5. process'[p] = "crashed"
  BY <1>2, <1>3
<1> QED
  BY <1>2, <1>4, <1>5

LEMMA ConnectSound ==
    ASSUME NodeSound, connect
    PROVE  NodeSound'
<1>1. /\ ~connected /\ closing = "no" /\ proc < MaxProcesses
      /\ proc' = proc + 1 /\ connected' = TRUE
      /\ UNCHANGED <<stdin, eof, stdout, result, pending, closing, closed>>
  BY DEF connect
<1>2. PICK state \in {"running", "failed"} : process' = [process EXCEPT ![proc + 1] = state]
  BY DEF connect
<1>3. PICK new \in Processes : new = proc + 1 /\ new # proc /\ proc \in Nat
  BY <1>1, NodeTyped, ServerAssumption DEF Processes
<1>0. \A p \in 1..(proc - 1) : p \in Processes /\ p # new /\ p \in 1..(new - 1)
  BY <1>1, <1>3, ServerAssumption DEF Processes
<1>4. /\ process'[new] = state /\ \A p \in Processes \ {new} : process'[p] = process[p]
      /\ process' \in [Processes -> {"none", "failed", "running", "leaving", "exited", "crashed"}]
  BY <1>2, <1>3, NodeTyped
<1>5. stdin[new] = <<>> /\ stdout[new] = <<>> /\ new \notin eof
  BY <1>3 DEF NodeSound, ProcessesSound, Processes
<1>6. ServerTypeOK' /\ NodeTypeOK'
  BY <1>1, <1>3, <1>4 DEF NodeSound, ServerTypeOK, NodeTypeOK, Processes
<1>7. proc # 0 => process[proc] \in {"exited", "crashed"} /\ stdout[proc] = <<>>
  BY <1>1 DEF NodeSound, ClosingSound
<1>8. ASSUME NEW p \in Processes
      PROVE  /\ p > new => process'[p] = "none" /\ stdin[p] = <<>> /\ stdout[p] = <<>> /\ p \notin eof
             /\ p < new => process'[p] \in {"exited", "crashed"} /\ stdout[p] = <<>>
             /\ p <= new => process'[p] # "none"
             /\ process'[p] # "leaving"
             /\ process'[p] = "exited" => stdin[p] = <<>> /\ p \in eof
             /\ process'[p] = "failed" => stdout[p] = <<>>
             /\ stdin[p] \in Seq(Requests)
  <2>1. p \in Nat
    BY DEF Processes
  <2>2. CASE p = new
    BY <1>3, <1>4, <1>5, <2>1, <2>2 DEF NodeSound, ProcessesSound
  <2>3. CASE p > new \/ p < proc
    BY <1>3, <1>4, <2>1, <2>3 DEF NodeSound, ProcessesSound
  <2>4. CASE p = proc
    <3>1. proc # 0 /\ process'[p] = process[p]
      BY <1>3, <1>4, <2>4 DEF Processes
    <3> QED
      BY <1>3, <1>7, <2>1, <2>4, <3>1 DEF NodeSound, ProcessesSound
  <2> QED
    BY <1>3, <2>1, <2>2, <2>3, <2>4
<1>9. ProcessesSound'
  BY <1>1, <1>3, <1>8 DEF ProcessesSound
<1>10. ClosingSound'
  BY <1>1, <1>3, <1>5 DEF ClosingSound
<1>11. ASSUME \A p \in 1..(new - 1) : process'[p] # "crashed" PROVE pending = <<>>
  <2>1. CASE proc = 0
    BY <1>3, <2>1 DEF NodeSound, QueueSound
  <2>2. CASE proc # 0
    <3>1. proc \in Processes /\ proc \in 1..(new - 1) /\ proc # new
      BY <1>3, <2>2, NodeTyped
    <3>2. process[proc] = "exited"
      BY <1>4, <1>7, <1>11, <2>2, <3>1
    <3>3. \A p \in 1..(proc - 1) : process[p] # "crashed"
      BY <1>0, <1>4, <1>11
    <3>4. Queued(pending, stdout[proc], stdin[proc])
      BY <2>2, <3>2, <3>3 DEF NodeSound, QueueSound
    <3>5. stdout[proc] = <<>> /\ stdin[proc] = <<>>
      BY <1>7, <2>2, <3>1, <3>2 DEF NodeSound, ProcessesSound
    <3> QED
      BY <3>4, <3>5, NodeTyped, NothingQueued
  <2> QED
    BY <2>1, <2>2
<1>12. QueueSound'
  <2>1. SUFFICES ASSUME \A p \in 1..(new - 1) : process'[p] # "crashed"
                 PROVE  IF process'[new] \in {"running", "exited"}
                        THEN Queued(pending, stdout[new], stdin[new])
                        ELSE Begins(stdout[new], pending)
    BY <1>1, <1>3 DEF QueueSound
  <2>2. Queued(pending, <<>>, <<>>) /\ Begins(<<>>, pending)
    BY <1>11, <2>1, NodeTyped, NothingQueued
  <2> QED
    BY <1>5, <2>2
<1>13. NodeAnswers'
  <2>1. \A p \in 1..(proc - 1) : process[p] = "crashed" => process'[p] = "crashed"
    BY <1>0, <1>4
  <2> QED
    BY <1>1, <1>3, <2>1, AnswersKept DEF NodeSound
<1> QED
  BY <1>6, <1>9, <1>10, <1>12, <1>13 DEF NodeSound

LEMMA OnlyCurrent ==
    ASSUME NodeSound, NEW p \in Processes,
           process[p] \in {"running", "failed"} \/ stdout[p] # <<>>
    PROVE  p = proc /\ proc # 0
BY NodeTyped DEF NodeSound, ProcessesSound, Processes

LEMMA EarlierProcesses ==
    ASSUME NodeSound
    PROVE  \A q \in 1..(proc - 1) : q \in Processes /\ q # proc
<1>1. PICK n \in 0..MaxProcesses : n = proc
  BY DEF NodeSound, NodeTypeOK
<1>2. \A q \in 1..(n - 1) : q \in Processes /\ q # n
  BY ServerAssumption DEF Processes
<1> QED
  BY <1>1, <1>2

LEMMA HandleSound ==
    ASSUME NodeSound, NEW p \in Processes, handle(p), UNCHANGED node_vars
    PROVE  NodeSound'
<1>1. /\ process[p] = "running" /\ stdin[p] # <<>>
      /\ stdin' = [stdin EXCEPT ![p] = Tail(stdin[p])]
      /\ stdout' = [stdout EXCEPT ![p] = Append(stdout[p], Head(stdin[p]))]
      /\ UNCHANGED <<eof, result, proc, connected, pending, closing, closed>>
  BY DEF handle, node_vars
<1>2. p = proc /\ proc # 0
  BY <1>1, OnlyCurrent
<1>3. stdin[p] \in Seq(Requests) /\ stdin[p] \in Seq(Calls) /\ stdout[p] \in Seq(Calls)
  BY NodeTyped DEF NodeSound, ProcessesSound
<1>4. /\ Head(stdin[p]) \in Requests /\ Tail(stdin[p]) \in Seq(Requests)
      /\ Tail(stdin[p]) \in Seq(Calls)
  BY <1>1, <1>3, FirstAndRest
<1>5. process' = process
  <2>1. Head(stdin[p]) # Quit
    BY <1>4, CallsTyped
  <2>2. process' = [process EXCEPT ![p] = process[p]]
    BY <2>1 DEF handle
  <2> QED
    BY <2>2, NodeTyped
<1>6. Append(stdout[p], Head(stdin[p])) \in Seq(Calls)
  BY <1>3, <1>4, CallsTyped, OneMore
<1>7. /\ stdin'[p] = Tail(stdin[p]) /\ stdout'[p] = Append(stdout[p], Head(stdin[p]))
      /\ \A q \in Processes \ {p} : stdin'[q] = stdin[q] /\ stdout'[q] = stdout[q]
      /\ stdin' \in [Processes -> Seq(Calls)] /\ stdout' \in [Processes -> Seq(Calls)]
  BY <1>1, <1>4, <1>6, NodeTyped
<1>8. ServerTypeOK' /\ NodeTypeOK'
  BY <1>1, <1>5, <1>7 DEF NodeSound, ServerTypeOK, NodeTypeOK
<1>9. ProcessesSound'
  <2>1. SUFFICES ASSUME NEW q \in Processes
                 PROVE  /\ q > proc => process[q] = "none" /\ stdin'[q] = <<>> /\ stdout'[q] = <<>> /\ q \notin eof
                        /\ q < proc => process[q] \in {"exited", "crashed"} /\ stdout'[q] = <<>>
                        /\ q <= proc => process[q] # "none"
                        /\ process[q] # "leaving"
                        /\ process[q] = "exited" => stdin'[q] = <<>> /\ q \in eof
                        /\ process[q] = "failed" => stdout'[q] = <<>>
                        /\ stdin'[q] \in Seq(Requests)
    BY <1>1, <1>5 DEF ProcessesSound
  <2>2. CASE q = p
    <3>1. q \in Nat /\ ~(q > proc) /\ ~(q < proc)
      BY <1>2, <2>2 DEF Processes
    <3> QED
      BY <1>1, <1>4, <1>7, <2>2, <3>1
  <2>3. CASE q # p
    BY <1>7, <2>3 DEF NodeSound, ProcessesSound
  <2> QED
    BY <2>2, <2>3
<1>10. ClosingSound'
  BY <1>1, <1>2, <1>5 DEF NodeSound, ClosingSound
<1>11. QueueSound'
  <2>1. SUFFICES ASSUME \A q \in 1..(proc - 1) : process[q] # "crashed"
                 PROVE  Queued(pending, stdout'[p], stdin'[p])
    BY <1>1, <1>2, <1>5 DEF QueueSound
  <2>2. Queued(pending, stdout[p], stdin[p])
    BY <1>1, <1>2, <2>1 DEF NodeSound, QueueSound
  <2>3. pending \in Seq(Calls) /\ stdin[p] # <<>>
    BY <1>1, NodeTyped
  <2>4. Queued(pending, Append(stdout[p], Head(stdin[p])), Tail(stdin[p]))
    BY <1>3, <2>2, <2>3, QueuedHandled
  <2> QED
    BY <1>7, <2>4
<1>12. NodeAnswers'
  BY <1>1, <1>5 DEF NodeSound, NodeAnswers, Answered
<1> QED
  BY <1>8, <1>9, <1>10, <1>11, <1>12 DEF NodeSound

(* The current process goes, at the end of its input or by a crash.        *)
LEMMA GoneSound ==
    ASSUME NodeSound, NEW p \in Processes, Leave(p) \/ Crash(p), UNCHANGED node_vars
    PROVE  NodeSound'
<1>1. /\ process[p] = "running"
      /\ UNCHANGED <<stdin, eof, stdout, result, proc, connected, pending, closing, closed>>
  BY DEF Leave, Crash, node_vars, NodeSound, ProcessesSound
<1>2. PICK gone \in {"exited", "crashed"} :
          /\ process' = [process EXCEPT ![p] = gone]
          /\ gone = "exited" => stdin[p] = <<>> /\ p \in eof
  BY <1>1 DEF Leave, Crash
<1>3. p = proc /\ proc # 0
  BY <1>1, OnlyCurrent
<1>4. /\ process'[p] = gone /\ \A q \in Processes \ {p} : process'[q] = process[q]
      /\ process' \in [Processes -> {"none", "failed", "running", "leaving", "exited", "crashed"}]
  BY <1>2, NodeTyped
<1>5. ServerTypeOK' /\ NodeTypeOK'
  BY <1>1, <1>4 DEF NodeSound, ServerTypeOK, NodeTypeOK
<1>6. ProcessesSound'
  <2>1. SUFFICES ASSUME NEW q \in Processes
                 PROVE  /\ q > proc => process'[q] = "none" /\ stdin[q] = <<>> /\ stdout[q] = <<>> /\ q \notin eof
                        /\ q < proc => process'[q] \in {"exited", "crashed"} /\ stdout[q] = <<>>
                        /\ q <= proc => process'[q] # "none"
                        /\ process'[q] # "leaving"
                        /\ process'[q] = "exited" => stdin[q] = <<>> /\ q \in eof
                        /\ process'[q] = "failed" => stdout[q] = <<>>
                        /\ stdin[q] \in Seq(Requests)
    BY <1>1 DEF ProcessesSound
  <2>2. CASE q = p
    <3>1. q \in Nat /\ ~(q > proc) /\ ~(q < proc)
      BY <1>3, <2>2 DEF Processes
    <3>2. stdin[q] \in Seq(Requests)
      BY DEF NodeSound, ProcessesSound
    <3> QED
      BY <1>2, <1>4, <2>2, <3>1, <3>2
  <2>3. CASE q # p
    BY <1>4, <2>3 DEF NodeSound, ProcessesSound
  <2> QED
    BY <2>2, <2>3
<1>7. ClosingSound'
  <2>1. /\ connected => proc \notin eof
        /\ connected \/ closing # "no"
        /\ connected => closing = "no"
    BY <1>1, <1>3 DEF NodeSound, ClosingSound
  <2> QED
    BY <1>1, <1>3, <2>1 DEF ClosingSound
<1>8. \A q \in 1..(proc - 1) : q \in Processes /\ q # p
  BY <1>3, EarlierProcesses
<1>9. QueueSound'
  <2>1. SUFFICES ASSUME \A q \in 1..(proc - 1) : process'[q] # "crashed"
                 PROVE  IF gone = "exited" THEN Queued(pending, stdout[p], stdin[p])
                                           ELSE Begins(stdout[p], pending)
    BY <1>1, <1>3, <1>4 DEF QueueSound
  <2>2. Queued(pending, stdout[p], stdin[p])
    BY <1>1, <1>3, <1>4, <1>8, <2>1 DEF NodeSound, QueueSound
  <2> QED
    BY <2>2, NodeTyped, QueuedBegins
<1>10. NodeAnswers'
  BY <1>1, <1>4, <1>8 DEF NodeSound, NodeAnswers, Answered
<1> QED
  BY <1>5, <1>6, <1>7, <1>9, <1>10 DEF NodeSound

LEMMA RequestSound ==
    ASSUME NodeSound, NEW c \in Calls, request(c)
    PROVE  NodeSound'
<1>1. c \in Requests /\ UNCHANGED <<process, eof, stdout, proc, connected, closing, closed>>
  BY CallsTyped DEF request
<1>2. ClosingSound'
  BY <1>1 DEF NodeSound, ClosingSound
<1>3. ASSUME result' = [result EXCEPT ![c] = "pending"] \/ result' = [result EXCEPT ![c] = "failed"]
      PROVE  /\ NodeAnswers'
             /\ result' \in [Calls -> Calls \cup {"unasked", "waiting", "pending", "failed"}]
  <2>1. /\ \A d \in Calls : result'[d] \in Calls => result'[d] = result[d]
        /\ result' \in [Calls -> Calls \cup {"unasked", "waiting", "pending", "failed"}]
    BY <1>3, NodeTyped, CallsTyped
  <2> QED
    BY <1>1, <2>1, NodeTyped, AnswersKept DEF NodeSound
<1>4. CASE connected
  <2>1. /\ pending' = Append(pending, c)
        /\ result' = [result EXCEPT ![c] = "pending"]
        /\ IF process[proc] = "running" THEN stdin' = [stdin EXCEPT ![proc] = Append(stdin[proc], c)]
                                        ELSE stdin' = stdin
    BY <1>4 DEF request
  <2>2. proc # 0 /\ proc \in Processes
    BY <1>4, NodeTyped DEF NodeSound, ClosingSound
  <2>3. /\ stdin[proc] \in Seq(Requests) /\ stdin[proc] \in Seq(Calls) /\ stdout[proc] \in Seq(Calls)
        /\ pending \in Seq(Requests) /\ pending \in Seq(Calls)
    BY <2>2, NodeTyped DEF NodeSound, ProcessesSound
  <2>4. /\ Append(stdin[proc], c) \in Seq(Requests) /\ Append(stdin[proc], c) \in Seq(Calls)
        /\ Append(pending, c) \in Seq(Requests)
    BY <1>1, <2>3, OneMore
  <2>5. /\ \A q \in Processes \ {proc} : stdin'[q] = stdin[q]
        /\ stdin'[proc] = IF process[proc] = "running" THEN Append(stdin[proc], c) ELSE stdin[proc]
        /\ stdin' \in [Processes -> Seq(Calls)]
    BY <2>1, <2>2, <2>4, NodeTyped
  <2>6. ServerTypeOK' /\ NodeTypeOK'
    BY <1>1, <1>3, <2>1, <2>4, <2>5 DEF NodeSound, ServerTypeOK, NodeTypeOK
  <2>7. proc \notin eof
    BY <1>4 DEF NodeSound, ClosingSound
  <2>8. ProcessesSound'
    <3>1. SUFFICES ASSUME NEW q \in Processes
                   PROVE  /\ q > proc => stdin'[q] = <<>>
                          /\ process[q] = "exited" => stdin'[q] = <<>>
                          /\ stdin'[q] \in Seq(Requests)
      BY <1>1 DEF NodeSound, ProcessesSound
    <3>2. CASE q = proc
      <4>1. ~(q > proc) /\ process[q] # "exited"
        BY <2>2, <2>7, <3>2 DEF NodeSound, ProcessesSound, Processes
      <4> QED
        BY <2>3, <2>4, <2>5, <3>2, <4>1
    <3>3. CASE q # proc
      BY <2>5, <3>3 DEF NodeSound, ProcessesSound
    <3> QED
      BY <3>2, <3>3
  <2>9. QueueSound'
    <3>1. SUFFICES ASSUME \A q \in 1..(proc - 1) : process[q] # "crashed"
                   PROVE  IF process[proc] \in {"running", "exited"}
                          THEN Queued(Append(pending, c), stdout[proc], stdin'[proc])
                          ELSE Begins(stdout[proc], Append(pending, c))
      BY <1>1, <2>1, <2>2 DEF QueueSound
    <3>2. IF process[proc] \in {"running", "exited"}
          THEN Queued(pending, stdout[proc], stdin[proc])
          ELSE Begins(stdout[proc], pending)
      BY <2>2, <3>1 DEF NodeSound, QueueSound
    <3>3. CASE process[proc] = "running"
      <4>1. Queued(Append(pending, c), stdout[proc], Append(stdin[proc], c))
        <5>1. Queued(pending, stdout[proc], stdin[proc])
          BY <3>2, <3>3
        <5> QED
          BY <2>3, <5>1, QueuedAsked
      <4> QED
        BY <2>5, <3>3, <4>1
    <3>4. CASE process[proc] # "running"
      <4>1. process[proc] # "exited"
        BY <2>2, <2>7 DEF NodeSound, ProcessesSound
      <4>2. Begins(stdout[proc], pending)
        BY <3>2, <3>4, <4>1
      <4>3. Begins(stdout[proc], Append(pending, c))
        BY <2>3, <4>2, BeginsAsked
      <4> QED
        BY <3>4, <4>1, <4>3
    <3> QED
      BY <3>3, <3>4
  <2> QED
    BY <1>2, <1>3, <2>1, <2>6, <2>8, <2>9 DEF NodeSound
<1>5. CASE ~connected
  <2>1. result' = [result EXCEPT ![c] = "failed"] /\ UNCHANGED <<pending, stdin>>
    BY <1>5 DEF request
  <2>2. ServerTypeOK' /\ NodeTypeOK'
    BY <1>1, <1>3, <2>1 DEF NodeSound, ServerTypeOK, NodeTypeOK
  <2>3. ProcessesSound' /\ QueueSound'
    BY <1>1, <2>1 DEF NodeSound, ProcessesSound, QueueSound
  <2> QED
    BY <1>2, <1>3, <2>1, <2>2, <2>3 DEF NodeSound
<1> QED
  BY <1>4, <1>5

LEMMA LineSound ==
    ASSUME NodeSound, NEW p \in Processes, line(p)
    PROVE  NodeSound'
<1>1. /\ stdout[p] # <<>>
      /\ stdout' = [stdout EXCEPT ![p] = Tail(stdout[p])]
      /\ UNCHANGED <<process, stdin, eof, proc, connected, closing, closed>>
      /\ pending = <<>> => UNCHANGED <<pending, result>>
      /\ pending # <<>> => /\ pending' = Tail(pending)
                           /\ result' = [result EXCEPT ![Head(pending)] = Head(stdout[p])]
  BY DEF line
<1>2. p = proc /\ proc # 0
  BY <1>1, OnlyCurrent
<1>3. /\ stdin[p] \in Seq(Calls) /\ stdout[p] \in Seq(Calls)
      /\ pending \in Seq(Requests) /\ pending \in Seq(Calls)
  BY NodeTyped
<1>4. Head(stdout[p]) \in Calls /\ Tail(stdout[p]) \in Seq(Calls)
  BY <1>1, <1>3, FirstAndRest
<1>5. pending # <<>> => Head(pending) \in Calls /\ Tail(pending) \in Seq(Requests)
  BY <1>3, FirstAndRest
<1>6. /\ stdout'[p] = Tail(stdout[p])
      /\ \A q \in Processes \ {p} : stdout'[q] = stdout[q]
      /\ stdout' \in [Processes -> Seq(Calls)]
  BY <1>1, <1>4, NodeTyped
<1>7. ServerTypeOK' /\ NodeTypeOK'
  <2>1. result' \in [Calls -> Calls \cup {"unasked", "waiting", "pending", "failed"}]
    BY <1>1, <1>4, <1>5, NodeTyped
  <2> QED
    BY <1>1, <1>5, <1>6, <2>1 DEF NodeSound, ServerTypeOK, NodeTypeOK
<1>8. process[p] \in {"running", "exited", "crashed"}
  <2>1. p <= proc
    BY <1>2 DEF Processes
  <2>2. process[p] # "none" /\ process[p] # "leaving" /\ process[p] # "failed"
    BY <1>1, <2>1 DEF NodeSound, ProcessesSound
  <2> QED
    BY <2>2, NodeTyped
<1>9. ProcessesSound'
  <2>1. SUFFICES ASSUME NEW q \in Processes
                 PROVE  (q # proc \/ process[q] = "failed") /\ stdout[q] = <<>> => stdout'[q] = <<>>
    <3>1. \A q \in Processes : (q > proc \/ q < proc) => q # proc
      BY NodeTyped DEF Processes
    <3> QED
      BY <1>1, <2>1, <3>1 DEF NodeSound, ProcessesSound
  <2> QED
    BY <1>2, <1>6, <1>8
<1>10. ClosingSound'
  BY <1>1, <1>2 DEF NodeSound, ClosingSound
(* What the line is taken for.                                             *)
<1>11. ASSUME \A q \in 1..(proc - 1) : process[q] # "crashed"
       PROVE  /\ pending # <<>> /\ Head(pending) = Head(stdout[p])
              /\ IF process[p] \in {"running", "exited"}
                 THEN Queued(Tail(pending), Tail(stdout[p]), stdin[p])
                 ELSE Begins(Tail(stdout[p]), Tail(pending))
  <2>1. IF process[p] \in {"running", "exited"}
        THEN Queued(pending, stdout[p], stdin[p])
        ELSE Begins(stdout[p], pending)
    BY <1>2, <1>11 DEF NodeSound, QueueSound
  <2>2. Begins(stdout[p], pending)
    BY <1>3, <2>1, QueuedBegins
  <2>3. pending # <<>> /\ Head(pending) = Head(stdout[p]) /\ Begins(Tail(stdout[p]), Tail(pending))
    BY <1>1, <1>3, <2>2, BeginsRead
  <2>4. Queued(pending, stdout[p], stdin[p]) => Queued(Tail(pending), Tail(stdout[p]), stdin[p])
    BY <1>1, <1>3, QueuedRead
  <2> QED
    BY <2>1, <2>3, <2>4
<1>12. QueueSound'
  <2>1. SUFFICES ASSUME \A q \in 1..(proc - 1) : process[q] # "crashed"
                 PROVE  IF process[p] \in {"running", "exited"}
                        THEN Queued(pending', stdout'[p], stdin[p])
                        ELSE Begins(stdout'[p], pending')
    BY <1>1, <1>2 DEF QueueSound
  <2> QED
    BY <1>1, <1>6, <1>11, <2>1
<1>13. NodeAnswers'
  <2>1. ASSUME NEW c \in Calls, result'[c] \in Calls, result'[c] # c
        PROVE  result'[c] = result[c] \/ \E q \in 1..(proc - 1) : process[q] = "crashed"
    <3>1. CASE pending = <<>>
      BY <1>1, <3>1
    <3>2. CASE pending # <<>> /\ c # Head(pending)
      BY <1>1, <1>5, <3>2, NodeTyped
    <3>3. CASE pending # <<>> /\ c = Head(pending)
      <4>1. result'[c] = Head(stdout[p])
        BY <1>1, <1>5, <3>3, NodeTyped
      <4> QED
        BY <1>11, <2>1, <3>3, <4>1
    <3> QED
      BY <3>1, <3>2, <3>3
  <2> QED
    BY <1>1, <2>1, NodeTyped, AnswersKept DEF NodeSound
<1> QED
  BY <1>7, <1>9, <1>10, <1>12, <1>13 DEF NodeSound

LEMMA ErrorSound ==
    ASSUME NodeSound, NEW p \in Processes, process_error(p)
    PROVE  NodeSound'
<1>1. /\ process[p] = "failed"
      /\ process' = [process EXCEPT ![p] = "crashed"]
      /\ pending' = <<>>
      /\ result' = [c \in Calls |-> IF c \in Range(pending) THEN "failed" ELSE result[c]]
      /\ UNCHANGED <<stdin, eof, stdout, proc, connected, closing, closed>>
  BY DEF process_error
<1>2. p = proc /\ proc # 0 /\ stdout[p] = <<>>
  BY <1>1, OnlyCurrent DEF NodeSound, ProcessesSound
<1>3. /\ process'[p] = "crashed" /\ \A q \in Processes \ {p} : process'[q] = process[q]
      /\ process' \in [Processes -> {"none", "failed", "running", "leaving", "exited", "crashed"}]
  BY <1>1, NodeTyped
<1>4. <<>> \in Seq(Requests) /\ Begins(<<>>, <<>>)
  BY EmptySeq, NothingQueued
<1>5. /\ result' \in [Calls -> Calls \cup {"unasked", "waiting", "pending", "failed"}]
      /\ \A c \in Calls : result'[c] \in Calls => result'[c] = result[c]
  BY <1>1, NodeTyped, CallsTyped
<1>6. ServerTypeOK' /\ NodeTypeOK'
  BY <1>1, <1>3, <1>4, <1>5 DEF NodeSound, ServerTypeOK, NodeTypeOK
<1>7. ProcessesSound'
  <2>1. SUFFICES ASSUME NEW q \in Processes
                 PROVE  /\ q > proc => process'[q] = "none"
                        /\ q < proc => process'[q] \in {"exited", "crashed"}
                        /\ q <= proc => process'[q] # "none"
                        /\ process'[q] # "leaving"
                        /\ process'[q] = "exited" => process[q] = "exited"
                        /\ process'[q] = "failed" => process[q] = "failed"
    BY <1>1 DEF NodeSound, ProcessesSound
  <2>2. CASE q = p
    <3>1. ~(q > proc) /\ ~(q < proc)
      BY <1>2, <2>2 DEF Processes
    <3> QED
      BY <1>3, <2>2, <3>1
  <2>3. CASE q # p
    BY <1>3, <2>3 DEF NodeSound, ProcessesSound
  <2> QED
    BY <2>2, <2>3
<1>8. ClosingSound'
  BY <1>1, <1>2, <1>3 DEF NodeSound, ClosingSound
<1>9. QueueSound'
  BY <1>1, <1>2, <1>3, <1>4 DEF QueueSound
<1>10. NodeAnswers'
  <2>1. \A q \in 1..(proc - 1) : process[q] = "crashed" => process'[q] = "crashed"
    BY <1>2, <1>3, EarlierProcesses
  <2> QED
    BY <1>1, <1>5, <2>1, NodeTyped, AnswersKept DEF NodeSound
<1> QED
  BY <1>6, <1>7, <1>8, <1>9, <1>10 DEF NodeSound

LEMMA CloseSound ==
    ASSUME NodeSound, close \/ close_input \/ \E p \in Processes : process_close(p)
    PROVE  NodeSound'
<1>1. /\ UNCHANGED <<process, stdin, stdout, result, proc, pending>>
      /\ closing' \in {"no", "quit", "waiting"} /\ connected' \in BOOLEAN
      /\ closed' \subseteq Processes
  BY DEF close, close_input, process_close, server_vars, NodeSound, NodeTypeOK
<1>2. QueueSound' /\ NodeAnswers'
  BY <1>1 DEF NodeSound, QueueSound, NodeAnswers, Answered
<1>3. CASE close
  <2>1. connected /\ ~connected' /\ closing' = "quit" /\ eof' = eof
    BY <1>3 DEF close, server_vars
  <2>2. ProcessesSound' /\ ClosingSound' /\ ServerTypeOK' /\ NodeTypeOK'
    BY <1>1, <2>1 DEF NodeSound, ProcessesSound, ClosingSound, ServerTypeOK, NodeTypeOK
  <2> QED
    BY <1>2, <2>2 DEF NodeSound
<1>4. CASE close_input
  <2>1. closing = "quit" /\ closing' = "waiting" /\ eof' = eof \cup {proc} /\ connected' = connected
    BY <1>4 DEF close_input
  <2>2. proc # 0 /\ ~connected /\ proc \in Processes
    BY <2>1, NodeTyped DEF NodeSound, ClosingSound
  <2>3. ServerTypeOK' /\ NodeTypeOK' /\ ClosingSound'
    BY <1>1, <2>1, <2>2 DEF NodeSound, ServerTypeOK, NodeTypeOK, ClosingSound
  <2>4. \A q \in Processes : q > proc => q # proc
    BY <2>2 DEF Processes
  <2>5. ProcessesSound'
    BY <1>1, <2>1, <2>4 DEF NodeSound, ProcessesSound
  <2> QED
    BY <1>2, <2>3, <2>5 DEF NodeSound
<1>5. ASSUME NEW p \in Processes, process_close(p) PROVE NodeSound'
  <2>1. /\ process[p] \in {"exited", "crashed"} /\ stdout[p] = <<>>
        /\ closing' = (IF p = proc /\ closing = "waiting" THEN "no" ELSE closing)
        /\ eof' = eof /\ connected' = connected
    BY <1>5 DEF process_close, server_vars
  <2>2. ProcessesSound' /\ ClosingSound' /\ ServerTypeOK' /\ NodeTypeOK'
    BY <1>1, <2>1 DEF NodeSound, ProcessesSound, ClosingSound, ServerTypeOK, NodeTypeOK
  <2> QED
    BY <1>2, <2>2 DEF NodeSound
<1> QED
  BY <1>3, <1>4, <1>5

LEMMA NodeStays ==
    ASSUME NodeSound, NodeNext
    PROVE  NodeSound'
<1>1. CASE ServerNext /\ UNCHANGED node_vars
  BY <1>1, HandleSound, GoneSound DEF ServerNext
<1>2. CASE \E c \in Calls : request(c)
  BY <1>2, RequestSound
<1>3. CASE \E p \in Processes : line(p)
  BY <1>3, LineSound
<1>4. CASE \E p \in Processes : process_error(p)
  BY <1>4, ErrorSound
<1> QED
  BY <1>1, <1>2, <1>3, <1>4, ConnectSound, CloseSound DEF NodeNext

(* What the run checks of the Node.js binding.                             *)
LEMMA NodePromise ==
    ASSUME NodeSound
    PROVE  NodeTypeOK /\ NodeAnswers /\ CloseDrains
<1>1. SUFFICES ASSUME ~connected, closing = "no", \A p \in Processes : process[p] # "crashed"
               PROVE  pending = <<>>
  BY DEF NodeSound, CloseDrains
<1>2. \A p \in 1..(proc - 1) : process[p] # "crashed"
  BY <1>1, EarlierProcesses
<1>3. CASE proc = 0
  BY <1>2, <1>3 DEF NodeSound, QueueSound
<1>4. CASE proc # 0
  <2>1. proc \in Processes
    BY <1>4, NodeTyped
  <2>2. process[proc] = "exited" /\ stdout[proc] = <<>>
    BY <1>1, <1>4, <2>1 DEF NodeSound, ClosingSound
  <2>3. stdin[proc] = <<>>
    BY <2>1, <2>2 DEF NodeSound, ProcessesSound
  <2>4. Queued(pending, <<>>, <<>>)
    BY <1>2, <1>4, <2>2, <2>3 DEF NodeSound, QueueSound
  <2> QED
    BY <2>4, NodeTyped, NothingQueued
<1> QED
  BY <1>3, <1>4

-----------------------------------------------------------------------------
(* The Python binding *)

LEMMA OneLine ==
    ASSUME NEW S, NEW c \in S
    PROVE  /\ <<>> \in Seq(S) /\ <<c>> \in Seq(S)
           /\ <<c>> # <<>> /\ Head(<<c>>) = c /\ Tail(<<c>>) = <<>> /\ Append(<<>>, c) = <<c>>
           /\ Range(<<>>) = {} /\ Range(<<c>>) = {c}
BY DEF Range

LEMMA PythonTyped ==
    ASSUME PythonSound
    PROVE  /\ 1 \in Processes
           /\ process \in [Processes -> {"none", "failed", "running", "leaving", "exited", "crashed"}]
           /\ stdin \in [Processes -> Seq(Calls)] /\ stdout \in [Processes -> Seq(Calls)]
           /\ result \in [Calls -> Calls \cup {"unasked", "waiting", "pending", "failed"}]
<1>1. 1 \in 1..MaxProcesses
  BY ServerAssumption
<1> QED
  BY <1>1 DEF PythonSound, ServerTypeOK, Processes

LEMMA PythonHandleSound ==
    ASSUME PythonSound, NEW p \in Processes, handle(p), UNCHANGED lock
    PROVE  PythonSound'
<1>1. /\ process[p] = "running" /\ stdin[p] # <<>>
      /\ stdin' = [stdin EXCEPT ![p] = Tail(stdin[p])]
      /\ stdout' = [stdout EXCEPT ![p] = Append(stdout[p], Head(stdin[p]))]
      /\ process' = [process EXCEPT ![p] = IF Head(stdin[p]) = Quit THEN "leaving" ELSE process[p]]
      /\ UNCHANGED <<eof, result, lock>>
  BY DEF handle
<1>2. p = 1
  BY <1>1 DEF PythonSound
<1>3. lock \in Calls /\ lock # "free" /\ result[lock] = "pending" /\ stdin[1] = <<lock>> /\ stdout[1] = <<>>
  BY <1>1, <1>2 DEF PythonSound
<1>4. stdin' = [stdin EXCEPT ![1] = <<>>] /\ stdout' = [stdout EXCEPT ![1] = <<lock>>]
  BY <1>1, <1>2, <1>3, OneLine
<1>5. stdin'[1] = <<>> /\ stdout'[1] = <<lock>>
  BY <1>4, PythonTyped
<1>6. ServerTypeOK'
  <2>1. <<>> \in Seq(Calls) /\ <<lock>> \in Seq(Calls)
    BY <1>3, OneLine
  <2>2. process' \in [Processes -> {"none", "failed", "running", "leaving", "exited", "crashed"}]
    BY <1>1, PythonTyped
  <2> QED
    BY <1>1, <1>4, <2>1, <2>2 DEF PythonSound, ServerTypeOK
<1>7. \A q \in Processes \ {1} : process'[q] = "none"
  BY <1>1, <1>2, PythonTyped DEF PythonSound
<1> QED
  BY <1>1, <1>3, <1>5, <1>6, <1>7 DEF PythonSound, Answered

(* The process starts, or goes.                                            *)
LEMMA PythonProcessSound ==
    ASSUME PythonSound, start \/ (UNCHANGED lock /\ \E p \in Processes : Leave(p) \/ Crash(p))
    PROVE  PythonSound'
<1>1. UNCHANGED <<stdin, eof, stdout, result, lock>>
  BY DEF start, Leave, Crash
<1>2. PICK state \in {"running", "exited", "crashed"} :
          /\ process' = [process EXCEPT ![1] = state]
          /\ process[1] \notin {"exited", "crashed"}
  <2>1. CASE start
    BY <2>1 DEF start
  <2>2. CASE \E p \in Processes : Leave(p) \/ Crash(p)
    BY <2>2 DEF Leave, Crash, PythonSound
  <2> QED
    BY <2>1, <2>2
<1>3. process' \in [Processes -> {"none", "failed", "running", "leaving", "exited", "crashed"}]
  BY <1>2, PythonTyped
<1>4. \A q \in Processes \ {1} : process'[q] = "none"
  BY <1>2, PythonTyped DEF PythonSound
<1>5. lock = "free" => stdin[1] = <<>>
  BY <1>2 DEF PythonSound
<1>6. ServerTypeOK'
  BY <1>1, <1>3 DEF PythonSound, ServerTypeOK
<1> QED
  BY <1>1, <1>4, <1>5, <1>6 DEF PythonSound, Answered

LEMMA PythonCallSound ==
    ASSUME PythonSound, NEW c \in Calls, call(c)
    PROVE  PythonSound'
<1>1. /\ result[c] = "unasked" /\ result' = [result EXCEPT ![c] = "waiting"]
      /\ UNCHANGED <<process, stdin, eof, stdout, lock>>
  BY DEF call
<1>2. /\ result'[c] = "waiting" /\ \A d \in Calls \ {c} : result'[d] = result[d]
      /\ result' \in [Calls -> Calls \cup {"unasked", "waiting", "pending", "failed"}]
  BY <1>1, PythonTyped
<1>3. ServerTypeOK'
  BY <1>1, <1>2 DEF PythonSound, ServerTypeOK
<1>4. \A d \in Calls : /\ result'[d] \in Calls => result'[d] = d
                       /\ result'[d] = "pending" => lock = d
  BY <1>2, CallsTyped DEF PythonSound, Answered
<1>5. lock # "free" => lock # c
  BY <1>1 DEF PythonSound
<1> QED
  BY <1>1, <1>2, <1>3, <1>4, <1>5 DEF PythonSound, Answered

LEMMA PythonWriteSound ==
    ASSUME PythonSound, NEW c \in Calls, write(c)
    PROVE  PythonSound'
<1>1. /\ lock = "free" /\ result[c] = "waiting" /\ UNCHANGED <<process, eof, stdout>>
  BY DEF write
<1>2. stdout[1] = <<>> /\ c # "free" /\ \A d \in Calls : result[d] # "pending"
  BY <1>1, CallsTyped DEF PythonSound
<1>3. CASE 1 \notin eof /\ process[1] \in {"running", "leaving"}
  <2>1. stdin[1] = <<>>
    BY <1>1, <1>3 DEF PythonSound
  <2>2. /\ lock' = c /\ stdin' = [stdin EXCEPT ![1] = <<c>>]
        /\ result' = [result EXCEPT ![c] = "pending"]
    <3>1. lock' = c /\ stdin' = [stdin EXCEPT ![1] = Append(stdin[1], c)]
          /\ result' = [result EXCEPT ![c] = "pending"]
      BY <1>3 DEF write, written
    <3> QED
      BY <2>1, <3>1, OneLine
  <2>3. /\ stdin'[1] = <<c>> /\ result'[c] = "pending" /\ \A d \in Calls \ {c} : result'[d] = result[d]
        /\ result' \in [Calls -> Calls \cup {"unasked", "waiting", "pending", "failed"}]
    BY <2>2, PythonTyped
  <2>4. stdin' \in [Processes -> Seq(Calls)]
    BY <2>2, PythonTyped, OneLine
  <2>5. ServerTypeOK'
    BY <1>1, <2>3, <2>4 DEF PythonSound, ServerTypeOK
  <2>6. \A d \in Calls : /\ result'[d] \in Calls => result'[d] = d
                         /\ result'[d] = "pending" => lock' = d
    BY <1>2, <2>2, <2>3, CallsTyped DEF PythonSound, Answered
  <2> QED
    BY <1>1, <1>2, <2>2, <2>3, <2>5, <2>6 DEF PythonSound, Answered
<1>4. CASE ~(1 \notin eof /\ process[1] \in {"running", "leaving"})
  <2>1. result' = [result EXCEPT ![c] = "failed"] /\ UNCHANGED <<lock, stdin>>
    BY <1>4 DEF write, written
  <2>2. /\ result'[c] = "failed" /\ \A d \in Calls \ {c} : result'[d] = result[d]
        /\ result' \in [Calls -> Calls \cup {"unasked", "waiting", "pending", "failed"}]
    BY <2>1, PythonTyped
  <2>3. ServerTypeOK'
    BY <1>1, <2>1, <2>2 DEF PythonSound, ServerTypeOK
  <2>4. \A d \in Calls : /\ result'[d] \in Calls => result'[d] = d
                         /\ result'[d] # "pending"
    BY <1>2, <2>2, CallsTyped DEF PythonSound, Answered
  <2> QED
    BY <1>1, <2>1, <2>3, <2>4 DEF PythonSound, Answered
<1> QED
  BY <1>3, <1>4

LEMMA PythonReadSound ==
    ASSUME PythonSound, NEW c \in Calls, readline(c)
    PROVE  PythonSound'
<1>1. result[c] = "pending" /\ lock' = "free" /\ UNCHANGED <<process, stdin, eof>>
  BY DEF readline
<1>2. lock = c /\ lock # "free" /\ \A d \in Calls \ {c} : result[d] # "pending"
  BY <1>1, CallsTyped DEF PythonSound
<1>3. /\ stdout' \in [Processes -> Seq(Calls)] /\ stdout'[1] = <<>>
      /\ process[1] \in {"exited", "crashed"} \/ stdin[1] = <<>>
      /\ \E a \in {c, "failed"} : result' = [result EXCEPT ![c] = a]
  <2>1. CASE stdout[1] # <<>>
    <3>1. stdout[1] = <<c>> /\ stdin[1] = <<>>
      BY <1>2, <2>1 DEF PythonSound
    <3>2. stdout' = [stdout EXCEPT ![1] = Tail(stdout[1])] /\ result' = [result EXCEPT ![c] = Head(stdout[1])]
      BY <2>1 DEF readline
    <3>3. stdout' = [stdout EXCEPT ![1] = <<>>] /\ result' = [result EXCEPT ![c] = c]
      BY <3>1, <3>2, OneLine
    <3>4. <<>> \in Seq(Calls)
      BY EmptySeq
    <3> QED
      BY <3>1, <3>3, <3>4, PythonTyped
  <2>2. CASE stdout[1] = <<>>
    <3>1. stdout' = stdout /\ process[1] \in {"exited", "crashed"} /\ result' = [result EXCEPT ![c] = "failed"]
      BY <2>2 DEF readline
    <3> QED
      BY <2>2, <3>1, PythonTyped
  <2> QED
    BY <2>1, <2>2
<1>4. /\ result'[c] \in {c, "failed"} /\ \A d \in Calls \ {c} : result'[d] = result[d]
      /\ result' \in [Calls -> Calls \cup {"unasked", "waiting", "pending", "failed"}]
  BY <1>3, PythonTyped
<1>5. ServerTypeOK'
  BY <1>1, <1>3, <1>4 DEF PythonSound, ServerTypeOK
<1>6. \A d \in Calls : /\ result'[d] \in Calls => result'[d] = d
                       /\ result'[d] # "pending"
  BY <1>2, <1>4, CallsTyped DEF PythonSound, Answered
<1> QED
  BY <1>1, <1>3, <1>5, <1>6 DEF PythonSound, Answered

LEMMA PythonStays ==
    ASSUME PythonSound, PythonNext
    PROVE  PythonSound'
<1>1. CASE ServerNext /\ UNCHANGED lock
  BY <1>1, PythonHandleSound, PythonProcessSound DEF ServerNext
<1>2. CASE close_stdin
  <2>1. eof' = eof \cup {1} /\ UNCHANGED <<process, stdin, stdout, result, lock>>
    BY <1>2 DEF close_stdin
  <2>2. ServerTypeOK'
    BY <2>1, PythonTyped DEF PythonSound, ServerTypeOK
  <2> QED
    BY <2>1, <2>2 DEF PythonSound, Answered
<1> QED
  BY <1>1, <1>2, PythonProcessSound, PythonCallSound, PythonWriteSound, PythonReadSound DEF PythonNext

(* What the run checks of the Python binding.                              *)
LEMMA PythonPromise ==
    ASSUME PythonSound
    PROVE  PythonTypeOK /\ PythonAnswers
<1>1. CASE lock = "free"
  BY <1>1, OneLine DEF PythonSound, PythonTypeOK, PythonAnswers
<1>2. CASE lock # "free"
  <2>1. lock \in Calls /\ result[lock] = "pending" /\ Range(stdin[1]) \cup Range(stdout[1]) = {lock}
    BY <1>2, OneLine DEF PythonSound
  <2> QED
    BY <2>1 DEF PythonSound, PythonTypeOK, PythonAnswers
<1> QED
  BY <1>1, <1>2

-----------------------------------------------------------------------------
LEMMA BindingHolds == Init => BindingSound
<1> SUFFICES ASSUME Init PROVE BindingSound
  OBVIOUS
<1> USE DEF Init, ServerInit, NodeInit, PythonInit
<1>1. <<>> \in Seq(Calls) /\ <<>> \in Seq(Requests)
  BY EmptySeq
<1>2. ServerTypeOK /\ NodeTypeOK
  <2>1. 0 \in 0..MaxProcesses
    BY ServerAssumption
  <2> QED
    BY <1>1, <2>1 DEF ServerTypeOK, NodeTypeOK
<1>3. \A c \in Calls : ~Answered(c) /\ result[c] # "pending"
  BY CallsTyped DEF Answered
<1>4. \A p \in Processes : p > 0 /\ ~(p < 0) /\ ~(p <= 0)
  BY DEF Processes
<1>5. ProcessesSound
  BY <1>1, <1>4 DEF ProcessesSound
<1>6. ClosingSound /\ QueueSound /\ NodeAnswers
  BY <1>3 DEF ClosingSound, QueueSound, NodeAnswers
<1>7. 1 \in Processes
  BY ServerAssumption DEF Processes
<1>8. PythonSound
  BY <1>2, <1>3, <1>7 DEF PythonSound
<1> QED
  BY <1>2, <1>5, <1>6, <1>8 DEF BindingSound, NodeSound

LEMMA BindingStays == BindingSound /\ [Next]_vars => BindingSound'
<1> SUFFICES ASSUME BindingSound, [Next]_vars PROVE BindingSound'
  OBVIOUS
<1>1. CASE Node
  BY <1>1, NodeStays DEF Node, BindingSound
<1>2. CASE Python
  <2>1. UNCHANGED node_vars /\ binding' = binding
    BY <1>2 DEF Python
  <2>2. NodeInit'
    BY <1>2, <2>1 DEF Python, BindingSound, NodeInit, node_vars
  <2> QED
    BY <1>2, <2>1, <2>2, PythonStays DEF Python, BindingSound
<1>3. CASE UNCHANGED vars
  <2>1. UNCHANGED <<process, stdin, eof, stdout, result, proc, connected, pending, closing, closed, lock, binding>>
    BY <1>3 DEF vars, server_vars, node_vars
  <2>2. NodeSound => NodeSound'
    BY <2>1 DEF NodeSound, ServerTypeOK, NodeTypeOK, ProcessesSound, ClosingSound, QueueSound,
                NodeAnswers, Answered
  <2>3. (PythonSound => PythonSound') /\ (NodeInit => NodeInit')
    BY <2>1 DEF PythonSound, ServerTypeOK, NodeInit, Answered
  <2> QED
    BY <2>1, <2>2, <2>3 DEF BindingSound
<1> QED
  BY <1>1, <1>2, <1>3 DEF Next

(* Every answer reaches the call it belongs to, in the Python binding      *)
(* whatever happens, in the Node.js binding unless a server crashed and    *)
(* the client was connected again; close() leaves no call open.            *)
THEOREM AnswersMatchCalls == Spec => []BindingInv
<1>1. BindingSound => BindingInv
  <2> SUFFICES ASSUME BindingSound PROVE BindingInv
    OBVIOUS
  <2>1. CASE binding = "node"
    BY <2>1, NodePromise DEF BindingSound, BindingInv, NodeSound, PythonTypeOK
  <2>2. CASE binding = "python"
    <3>1. NodeTypeOK
      <4>1. <<>> \in Seq(Requests)
        BY EmptySeq
      <4>2. 0 \in 0..MaxProcesses
        BY ServerAssumption
      <4> QED
        BY <2>2, <4>1, <4>2 DEF BindingSound, NodeInit, NodeTypeOK
    <3> QED
      BY <2>2, <3>1, PythonPromise DEF BindingSound, BindingInv, PythonSound
  <2> QED
    BY <2>1, <2>2 DEF BindingSound
<1> QED
  BY <1>1, BindingHolds, BindingStays, PTL DEF Spec
=============================================================================
