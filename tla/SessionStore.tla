---------------------------- MODULE SessionStore ----------------------------
(***************************************************************************)
(* InMemorySessionRepository and the code that uses it.  The repository    *)
(* hands out and takes back whole IntentSession values: a caller loads a   *)
(* copy, calls operations on the copy and saves it.  Each repository       *)
(* operation holds the mutex; nothing spans a load and the save that       *)
(* follows it.  The sweeper is the clean-up pass the port describes: list  *)
(* the expired ids, load each, expire() it, then save or remove it.        *)
(*                                                                         *)
(* Serialised = TRUE is an embedding that runs one request or one sweep    *)
(* entry to its end before the next (a single-threaded host); FALSE is the *)
(* multi-threaded use the repository's mutex is there for.                 *)
(***************************************************************************)
EXTENDS SessionAggregate

CONSTANTS
    Ids,         \* session ids
    Callers,     \* request handlers
    OwnerOf,     \* the (operator, tenant) a handler acts for
    SlotLists,   \* slot vectors of new sessions
    Ttl,         \* lifetime of a session
    MaxTime,     \* bound on the clock
    MaxCalls,    \* bound on the operations a caller makes on one copy
    Serialised,
    ByListing    \* handlers take ids from list_active_for() only

ASSUME StoreAssumption ==
    /\ Nil \notin IntentSession
    /\ OwnerOf \in [Callers -> Owners]
    /\ SlotLists \subseteq Seq(SlotDraft)
    /\ Ttl \in Nat /\ MaxTime \in Nat /\ MaxCalls \in Nat
    /\ Serialised \in BOOLEAN /\ ByListing \in BOOLEAN
    /\ ByListing => Serialised  \* listing and loading is then one turn

VARIABLES
    store,   \* the map of the repository: id -> session, or Nil
    issued,  \* the ids an owner's generator has already produced
    held,    \* the copy a caller works on, or Nil
    due,     \* ids of the current sweep still to be visited
    swept,   \* the expired copy the sweeper is about to write back, or Nil
    now

vars == <<store, issued, held, due, swept, now>>

Copy == [id : Ids, session : IntentSession, calls : 0..MaxCalls]

Init ==
    /\ store = [i \in Ids |-> Nil]
    /\ issued = {}
    /\ held = [c \in Callers |-> Nil]
    /\ due = {}
    /\ swept = Nil
    /\ now = 0

NobodyHolds == (\A c \in Callers : held[c] = Nil) /\ swept = Nil

MayStart == Serialised => NobodyHolds

-----------------------------------------------------------------------------
(* Repository operations *)

(* Faulty variant: save() overwrites whatever has the id.                  *)
id_conflict_ignored(i, s) == FALSE

id_conflict(i, s) == store[i] # Nil /\ store[i].owner # s.owner

save(i, s) == store' = IF id_conflict(i, s) THEN store ELSE [store EXCEPT ![i] = s]

remove(i) == store' = [store EXCEPT ![i] = Nil]

(* Faulty variants: the lifetime is not looked at; a session in commit is  *)
(* left alone.                                                             *)
list_unfinished(t) == {i \in Ids : store[i] # Nil /\ ~is_terminal(store[i].state)}

list_expired_uncommitted(t) ==
    {i \in Ids : /\ store[i] # Nil
                 /\ store[i].state \notin {"commit", "archive"}
                 /\ is_expired(store[i], t)}

list_expired(t) ==
    {i \in Ids : /\ store[i] # Nil
                 /\ ~is_terminal(store[i].state)
                 /\ is_expired(store[i], t)}

(* Faulty variant: every operator's sessions are listed.                   *)
list_active_all(owner) == {i \in Ids : store[i] # Nil /\ ~is_terminal(store[i].state)}

list_active_for(owner) ==
    {i \in Ids : /\ store[i] # Nil
                 /\ ~is_terminal(store[i].state)
                 /\ store[i].owner = owner}

-----------------------------------------------------------------------------
(* Callers *)

(* A handler creates a session for its owner.  An owner's id generator     *)
(* does not repeat itself; two owners' generators may collide, which is    *)
(* what the id_conflict check of save() is for.                            *)
Begin(c, i) ==
    /\ held[c] = Nil /\ MayStart
    /\ <<OwnerOf[c], i>> \notin issued
    /\ now + Ttl <= MaxTime
    /\ \E slots \in SlotLists :
           \E s \in create(OwnerOf[c], slots, now, Ttl) :
               held' = [held EXCEPT ![c] = [id |-> i, session |-> s, calls |-> 0]]
    /\ issued' = issued \cup {<<OwnerOf[c], i>>}
    /\ UNCHANGED <<store, due, swept, now>>

(* load() takes an id and nothing else; whose session it is depends on     *)
(* where the handler has the id from.                                      *)
Load(c, i) ==
    /\ held[c] = Nil /\ MayStart
    /\ store[i] # Nil
    /\ ByListing => i \in list_active_for(OwnerOf[c])
    /\ held' = [held EXCEPT ![c] = [id |-> i, session |-> store[i], calls |-> 0]]
    /\ UNCHANGED <<store, issued, due, swept, now>>

(* The outcomes of one successful call on a session.                       *)
Outcomes(s) ==
    (UNION {request_clarification(s, q, now) : q \in Texts})
    \cup (UNION {accept_clarification(s, a, now) : a \in Texts \cup {Nil}})
    \cup (UNION {fill_slot(s, n, v, now) : n \in SlotNames, v \in Values})
    \cup preview(s, Params(s.slots), now)
    \cup reject_preview(s, now)
    \cup confirm(s, now)
    \cup (UNION {complete(s, r, now) : r \in Texts})
    \cup (UNION {cancel(s, n, now) : n \in Texts})

Call(c) ==
    /\ held[c] # Nil
    /\ held[c].calls < MaxCalls
    /\ \E s \in Outcomes(held[c].session) :
           held' = [held EXCEPT ![c].session = s, ![c].calls = @ + 1]
    /\ UNCHANGED <<store, issued, due, swept, now>>

(* Whether save() accepts or reports id_conflict, the handler is done.     *)
Save(c) ==
    /\ held[c] # Nil
    /\ save(held[c].id, held[c].session)
    /\ held' = [held EXCEPT ![c] = Nil]
    /\ UNCHANGED <<issued, due, swept, now>>

-----------------------------------------------------------------------------
(* Sweeper *)

SweepList ==
    /\ due = {} /\ swept = Nil
    /\ list_expired(now) # {}
    /\ due' = list_expired(now)
    /\ UNCHANGED <<store, issued, held, swept, now>>

(* An id that has vanished (not_found) or that expire() refuses (already   *)
(* archived) is skipped.                                                   *)
SweepVisit(i) ==
    /\ i \in due /\ swept = Nil /\ MayStart
    /\ due' = due \ {i}
    /\ LET expired == IF store[i] = Nil THEN {} ELSE expire(store[i], now)
       IN  \/ \E s \in expired : swept' = [id |-> i, session |-> s]
           \/ expired = {} /\ swept' = Nil
    /\ UNCHANGED <<store, issued, held, now>>

SweepSave ==
    /\ swept # Nil
    /\ save(swept.id, swept.session)
    /\ swept' = Nil
    /\ UNCHANGED <<issued, held, due, now>>

SweepRemove ==
    /\ swept # Nil
    /\ remove(swept.id)
    /\ swept' = Nil
    /\ UNCHANGED <<issued, held, due, now>>

Tick ==
    /\ now < MaxTime
    /\ now' = now + 1
    /\ UNCHANGED <<store, issued, held, due, swept>>

Next ==
    \/ \E c \in Callers :
           \/ \E i \in Ids : Begin(c, i) \/ Load(c, i)
           \/ Call(c) \/ Save(c)
    \/ SweepList \/ (\E i \in Ids : SweepVisit(i)) \/ SweepSave \/ SweepRemove
    \/ Tick

Spec == Init /\ [][Next]_vars

(* A handler that holds a copy ends its turn, the clock runs, and the      *)
(* sweeper keeps being scheduled although handlers come in between.        *)
Fairness ==
    /\ WF_vars(Tick)
    /\ \A c \in Callers : WF_vars(Save(c))
    /\ WF_vars(SweepList)
    /\ \A i \in Ids : SF_vars(SweepVisit(i))
    /\ WF_vars(SweepSave \/ SweepRemove)

FairSpec == Spec /\ Fairness

-----------------------------------------------------------------------------
TypeOK ==
    /\ store \in [Ids -> IntentSession \cup {Nil}]
    /\ issued \subseteq Owners \X Ids
    /\ held \in [Callers -> Copy \cup {Nil}]
    /\ due \subseteq Ids
    /\ swept \in [id : Ids, session : IntentSession] \cup {Nil}
    /\ now \in 0..MaxTime

(* Copies that overtake each other can lose updates but never produce a    *)
(* session the aggregate could not be in, in the store or in a handler.    *)
StoredSessionsSound ==
    /\ \A i \in Ids : store[i] # Nil => SoundSession(store[i])
    /\ \A c \in Callers : held[c] # Nil => SoundSession(held[c].session)

(* The store and every copy of a session are of their types and sound.     *)
StoreInv == TypeOK /\ StoredSessionsSound

(* No session is archived as expired before its lifetime is over, although *)
(* expire() does not look at the clock and the sweeper's list is stale by  *)
(* the time an id is visited.                                              *)
NeverExpiredEarly ==
    \A i \in Ids : store[i] # Nil /\ store[i].reason = "expired"
                       => is_expired(store[i], store[i].updated_at)

(* A stored session is never replaced by another owner's (id_conflict).    *)
OwnerIsStable ==
    [][\A i \in Ids : store[i] # Nil /\ store'[i] # Nil
                          => store'[i].owner = store[i].owner]_vars

(* session.hpp:43: "archive - terminal, no further transitions", seen in   *)
(* the repository: an archived session stays exactly as it is until it is  *)
(* removed.                                                                *)
ArchivedStaysArchived ==
    [][\A i \in Ids : store[i] # Nil /\ is_terminal(store[i].state)
                          => store'[i] \in {store[i], Nil}]_vars

(* in_memory_session_repository.hpp:26: "Attempting to load another        *)
(* operator's session by ID returns not_found".                            *)
LoadsOwnSessions ==
    \A c \in Callers : held[c] # Nil => held[c].session.owner = OwnerOf[c]

(* Every stored session is closed for good, at the latest by the sweeper.  *)
SessionsCloseForGood ==
    \A i \in Ids : store[i] # Nil
        ~> [](store[i] = Nil \/ is_terminal(store[i].state))
=============================================================================
