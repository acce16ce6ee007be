# Formal models of aetheris-iui

TLA+ models of the core of aetheris-iui (C++ domain, application and
infrastructure layers, the clients and the web page), the TLC runs that check them
on small instances, and TLAPS proofs, for every instance, of what the session
aggregate (with and without restarts), the session repository and its handlers,
the rules and the JSON form of action schemas, the rate limiter, the audit chain
with its two sinks, the TypeScript, Node.js and Python clients and the web page
promise. `PROJECT.json` maps every definition to the source lines it stands
for, lists the runs, the mutants that show each property can fail, the hazards and
the theorems.

    tlasany M.tla                        parse
    tlc -workers 2 -config X.cfg M       model-check (M and X from the table of runs)
    tlapm SessionJson_proofs.tla         check the proofs

Paths below are relative to the repository.

## 1. The system

An operator states an intent in words; the engine turns it into a validated,
previewed and confirmed call of a registered action, and records the decision.

    text --> intent engine --> IntentSession --> validation pipeline --> dry run
              |    |              |   ^              |        |
      knowledge  classifier   repository, sweeper  rate     budget
                   |                              limiter   controller
             schema registry                         |
                                             audit chain --> sink (memory, file)
    node / python binding <--json lines--> stdio server
    web page: components <-- adapter <-- TypeScript client <--web socket--> server

Nothing in the C++ library starts a thread. The in-memory repository, rate
limiter and budget controller lock a mutex per operation, so that an embedding
may call them from several threads; the clean-up of expired sessions is left to
the embedding as well (`session_repository_port.hpp`).

### Components

**IntentSession aggregate** (`domain/session.hpp`). State: slots, state
(`fill`, `clarification`, `preview`, `commit`, `archive`), pending question,
preview result, archive reason, result, note, timestamps. Operations: create,
request/accept_clarification, fill_slot, preview, reject_preview, confirm,
complete, cancel, expire, and the queries. Called by the engine, the JSON
parser, request handlers and the sweeper; calls nobody. Hard: the legal
*sequences* of calls - what survives a rejected preview, which slots can change
after the operator has seen them. Correct when: required slots are filled
whenever the session is shown or later; what is committed is what was shown;
nothing outlives the state it belongs to; the transition table of
`session.hpp:38-43` is followed; an archive is frozen.

**Session repository** (`in_memory_session_repository.hpp`), **handlers and
sweeper**. State: map id -> session. Operations: load (a copy), save
(id_conflict for another owner's id), remove, list_active_for, list_expired.
Hard: load, operations on the copy and save are not one atomic step, so copies
overtake each other; the sweeper's list is stale when it acts on it. Correct
when: stored sessions are always sound, owners never change, nothing is expired
early, an archived session stays archived, every session is closed eventually.

**Action schema** (`action_schema.hpp`). Pure validation of a draft: rollback,
confirmation, dry-run and example rules, first error wins. Correct when: exactly
the drafts the specification document admits are accepted.

**Action schema JSON** (`action_schema_json.hpp/.cpp`). Parse a document into a
schema, write a schema as a document. No state. Hard: numbers and embedded texts
that the domain admits and JSON cannot carry. Correct when: what was read can be
written and read again, and it is known which schemas cannot.

**Schema registry** (`schema_registry.hpp`). State: a `std::vector` of schemas.
Operations: register_schema, find, latest_for, versions_for; the look-ups return
raw pointers. Hard: pointers across a reallocation. Correct when: (action,
version) is unique, latest_for is the newest, pointers keep their meaning.

**Rate limiter** (`in_memory_rate_limiter.hpp`). State: per (operator, class) a
count and a window start. Operations: check_and_record, reset. Hard: the clock
is read before the mutex is taken; window boundaries; reset in between. Correct
when: counts are exact, windows never overlap, rejections are justified, bursts
are bounded.

**Budget controller** (`in_memory_budget_controller.hpp`). State: ledger per
(operator, session, class) of `uint64_t`. Operations: consume, reset_operator.
Hard: unsigned arithmetic at the ceiling. Correct when: exactly the requests
that would overrun the ceiling are refused.

**Validation pipeline** (`validation_pipeline.hpp`, `capability.hpp`,
`safety.hpp`). Stateless; six stages in order: schema, permission,
blast radius, rate, budget, dry run. Hard: several requests in flight on shared
counters; a late stage failing after an early one has charged. Correct when:
whatever is validated has passed every check, the shared counters hold exactly
what was let through.

**Audit chain** (`audit_chain.hpp/.cpp`), **memory sink**. State: builder
(next sequence, last hash), list of nodes. Operations: build, append, verify.
Hard: which alterations or omissions verification can tell. Correct when: a
trail verifies iff it is what was built, up to its end.

**File sink** (`file_audit_sink.hpp/.cpp`) and **audit-verify**
(`tools/audit_verify.cpp`). State: a descriptor; the file. Operations: open,
append (write until done, fsync). Hard: partial writes, errors, retries,
crashes, restarts, ownership of the descriptor. Correct when: an acknowledged
node is durable, synced lines never change, a clean file is readable.

**Session JSON** (`session_json.cpp`). serialize; parse replays transitions on a
new aggregate. Hard: the replay reproduces states, not histories. Correct when:
no session is refused, and it comes back with everything that later operations
and the record of its outcome depend on, its deadline included.

**Intent engine** (`application/intent_engine.hpp`). No state. process: knowledge,
classify, latest schema, scope check, slots, session id, create, save. Hard: one
collaborator of many failing; schemas registered between two looks at the
registry. Correct when: a session exists only for an action the operator's scopes
admit, with the slots its schema declares.

**Classifier and slot extractor** (`llm_intent_classifier.cpp`,
`schema_slot_extractor.cpp`). Prompt text out, untrusted JSON back; a second call
when required parameters are missing. Hard: candidates in any order, with ties;
the second answer failing, or contradicting the first. Correct when: the chosen
action was named with enough confidence and enough distance, and every slot value
is one the backend gave for that action. The **prompt builder** formats text and
is not modelled.

**Knowledge orchestrator** (`knowledge_orchestrator.hpp`) and **sources**
(`schema_`, `glossary_`, `vector_knowledge_source.hpp`, `in_memory_vector_index.hpp`).
The sources are asked in the order of their priorities; the orchestrator collects,
tolerates failing ones, ranks, removes copies and truncates. Hard: every source
stops at the limit by itself, before anything is ranked. Correct when: no entry is
left out for a worse one, a matching schema only for earlier ones, a word is
explained in one language. How well texts match and how similar vectors are is a
constant. The index is searched over every set of entries; upsert and remove,
which assign to a map under a mutex, are not actions.

**Stdio server** (`stdio_server.cpp`) and the **bindings** that start it (node
`index.mjs`, python `client.py`). State: two pipes, a queue of promises in the one,
a lock in the other. Operations: connect, request, close, quit. Hard: answers carry
no reference to their request; a server that goes down, or is closed, with
requests under way. Correct when: a call gets its own answer; calls and close()
end. The **C API** (text in, text out, over a projection modelled elsewhere) is not
modelled.

**TypeScript client** (`packages/core/src/client.ts`, `transport.ts`). State:
pending promises, listeners, sessions, the socket. Operations: connect,
disconnect, processIntent, the session commands, one handler per message. Hard:
answers carry no correlation id; connections are lost with requests pending;
listeners outlive connections. Correct when: a call settles while its connection
lasts, with an answer it may have; what is shown never goes back and catches up.

**Session snapshots** (`session_snapshot.cpp`), **web components**
(`packages/web-components/src`) and **framework adapters** (`packages/react`,
`vue`, `angular`). State: the client's newest snapshot of a session; what a mounted
component holds of it and shows; the confirm button's mode, phrase, countdown and
input. Operations: snapshot, mount, unmount, re-render, change, the commands;
attribute changes, attach, detach, typing, clicks, the timer. Hard: the page, the
commands and the session are at different times; attributes that change, and
elements that move, under a running countdown. Correct when: the page shows the
session, what is committed is what was on screen, no confirmation is earned too
early, a countdown ends. The **diff view** renders the difference of two values,
keeps and sends nothing, and is not modelled.

**Out of scope**: SHA-256, UUIDs, identifiers (functions on bytes and text; hashes
appear as terms, ids as model values), command-line tools other than audit-verify,
evaluation, benchmarks (I/O and formatting).

## 2. The modules

| Module | Extends | Models |
|---|---|---|
| `SessionAggregate` | - | every operation of `IntentSession` as an operator that returns the set of successful outcomes (empty: the call is refused and changes nothing), and the invariants of a sound session |
| `OperatorApproval` | - | abstract: an offer is made of filled parameters, approved, and executed exactly as offered |
| `SessionLifecycle` | `SessionAggregate` | one session, any caller, any order of calls, a clock; refines `OperatorApproval` |
| `SessionJson` | `SessionLifecycle` | serialize, the replaying parser, and a restart between any two operations |
| `SessionStore` | `SessionAggregate` | the repository, handlers working on copies, the sweeper, a clock |
| `ActionSchema` | - | the construction rules, and the document's rules beside them |
| `ActionSchemaJson` | `ActionSchema` | the parser and the writer of schema documents |
| `SchemaRegistry` | `ActionSchemaJson` | the vector, its reallocations and the pointers into it, filled from code and documents |
| `RateLimiter` | - | the buckets and check_and_record / reset on them |
| `RateLimiterThreads` | `RateLimiter` | threads delayed between clock and mutex |
| `BudgetController` | - | the ledger in unsigned arithmetic |
| `ValidationPipeline` | `RateLimiter`, `BudgetController` | concurrent requests through the six stages, counters reset under them |
| `AuditChain` | - | hashes as injective terms, the builder, verify |
| `AuditTrail` | `AuditChain` | builder and memory sink, nodes handed over in any order, trails altered |
| `AuditLog` | `AuditChain` | builder and file sink, system calls one by one, errors, crashes, restarts, the reader |
| `AuditSinks` | `AuditTrail`, `AuditLog` | a process that records in either sink |
| `KnowledgeOrchestrator` | - | merge, stable ranking, removal of copies, truncation |
| `KnowledgeSources` | `SchemaRegistry`, `KnowledgeOrchestrator` | what registry, glossary and vector index answer to a query |
| `IntentEngine` | `SessionAggregate`, `KnowledgeSources` | classifier, extractor and process() over a registry that grows and sessions in use |
| `WebClient` | - | client and WebSocket transport in an event loop; the server is external |
| `StdioServer` | - | the request loop of a server process between its pipes |
| `NodeBinding`, `PythonBinding` | `StdioServer` | the queue and close() of the one, the lock and quit() of the other |
| `Bindings` | both | a client of either kind |
| `SessionSnapshot` | `SessionAggregate` | the projection a client receives, and what form and preview make of it |
| `ConfirmButton` | - | the button as a record, and its callbacks, listeners and timer |
| `SessionView` | `SessionSnapshot` | one session in the browser and a component behind each adapter |
| `OperatorPage` | `SessionView`, `ConfirmButton` | the page before an operator, bound to a session on a server |
| `SessionAggregate_proofs`, `SessionJson_proofs` (with `SessionLifecycle`), `SessionStore_proofs`, `IntentEngine_proofs` (with `ActionSchema`, `ActionSchemaJson`, `SchemaRegistry`, `KnowledgeSources`, `KnowledgeOrchestrator`), `Limits_proofs` (`RateLimiterThreads`, `ValidationPipeline`, `BudgetController`), `AuditSinks_proofs`, `Clients_proofs` (`WebClient`, `Bindings`), `OperatorPage_proofs` | the modules named | the theorems of section 5 |

`MC*` modules only give constants their values and name symmetry sets.
Definitions described as a *faulty variant* are what a plausible mistake in the
code would be; nothing uses them except the mutants of `PROJECT.json`, each of
which replaces a definition by its faulty variant and is caught by the property
it is listed for.

### Conventions and abstractions

- An operation that returns `Result<>` is modelled with its early returns as
  guards. A refused call leaves the object alone, as it does in the code, so a
  refusal is not a step, except where something else changes (a rejected request
  restarts an expired window; a refused append leaves bytes behind).
- Texts, values, names and ids are model values; `Nil` is the empty string, the
  empty JSON value or an absent optional. Only "empty or not" and equality matter
  to the code modelled.
- Clocks are integers that only grow, as with `steady_clock` or a system clock
  that is not set back. A rate limiter's clock starts at `Window`: the default
  bucket's window began at the epoch, long before any real reading.
- A dry run's result is represented by the parameters it ran on, so "the preview
  is current" means "it was computed from the slots as they are now". That a
  caller runs the action on the session's own parameters is an assumption about
  the embedding (`preview()` takes any JSON).
- `SessionJson`: `Micro` clock ticks are one microsecond, the resolution of the
  JSON; times are not negative. Only JSON that serialize wrote is parsed; errors
  of malformed JSON are left out. A session saved now and restored later is one
  that restarts at once and waits, because the parser does not look at the clock.
- `SessionStore`: an id generator does not repeat an id for its own owner; two
  owners may get the same id (what `id_conflict` is for). `Serialised` restricts
  the environment to one request or sweep entry at a time; `ByListing` makes
  handlers take ids only from `list_active_for` of their own owner.
- `ActionSchemaJson`: a field of a document is `Bad` when it is missing, of another
  type or refused by its own parser; which error is reported is left out, and so
  are texts that are copied. `Half` stands for 2^63, so that limits and numbers on
  both sides of the signed range occur. An embedded JSON text is an object, other
  JSON, or no JSON.
- `KnowledgeSources`: every query has the same text; scores are integers (tenths), so
  that they can be compared: a source that answers a NaN would break what
  std::stable_sort and std::partial_sort demand of their comparisons, and nothing is
  claimed then. A `word` is a term in lower case, and it is found in the text or not
  whatever its entry, as `to_lower` and `find` compute both from the term alone.
  Entries of equal similarity come in any order. The embedding has one source of its
  own, which answers anything of a set, or fails.
- `SchemaRegistry`: the capacity of the vector doubles from 1, as libstdc++ and
  libc++ do.
- `ValidationPipeline`: the registry is filled before requests arrive. Stages 1
  to 3 read nothing shared that changes and are one step, together with the clock
  reading of stage 4; stages 4, 5 and 6 are separate steps. Unsigned 64-bit
  integers become integers modulo `Word`.
- `IntentEngine`: the backend's first answer is a list of candidates or `Nil` (the
  call fails, the text is not the expected JSON); a candidate with action `Nil`
  is one without a valid `action_id` or `confidence`, which makes the parser
  refuse the whole answer. A JSON null is `Nil`, as the empty value is.
  Confidences are integers (tenths). Knowledge shapes the prompt only, so any
  answer of the backend stands for any knowledge; sources and orchestrator are
  checked beside it, in every state of the registry. Ids of one owner do not repeat.
- `StdioServer` and the bindings: a line is the call it belongs to; a pipe keeps what
  was written when its reader or writer is gone. The embedding of the Node.js
  binding awaits close() before it connects again, as its usage comment does; a
  write to a process that is gone reaches nobody (the unhandled `error` event it
  may raise ends the embedding, after which nothing is claimed).
- `WebClient`: one event at a time, as in a JavaScript event loop. A socket that
  is closing delivers nothing more (WHATWG). The embedding does not connect while
  it is connected or connecting. The server answers each process_intent once, in
  any order, and sends newer snapshots of its sessions; a session is named after
  the request it was created for.
- `OperatorPage`: the server behind the web socket and the host page are external:
  the server applies each command to the aggregate and sends a snapshot of every
  change, commands and snapshots travel in order on one connection that lasts, and
  the host does what the components' documentation asks of it. Time stands still
  for the session. The confirm button of an `automatic` action confirms in the step
  that inserts it (it queues a microtask). The cooling-off period is read once, when
  the element is inserted.
- `AuditChain`: SHA-256 is injective, and the canonical bytes of a record
  determine it.
- `AuditLog`: a line is written as part of it, all of it without the newline, or
  the whole of it; fsync makes everything written before it durable; a crash
  loses any suffix of what was not synced, at any byte. `Opened` says what the
  descriptor in a newly opened sink refers to: `{"none"}` is the code as it stands
  (see finding audit_moved), `{"file"}` a sink without that defect, and the
  passing run allows both, so that append() is examined for what it does.

## 3. The runs

| Run | Question | Bounds | Why they are enough |
|---|---|---|---|
| `lifecycle` | is every sequence of calls and restarts on a session safe, does it implement the approval dialogue, does a restored session continue as the saved one? | 2 slot names, 2 values, 5 slot lists (empty, mixed, pre-filled, duplicate names, refused), lifetime 2, start at 0 or 1, clock to 3, 2 ticks per microsecond | the state machine has no counters: all states of it are reached; two values are what it takes to change a slot after it was shown; timestamps on and off the resolution of the JSON |
| `store_shared` | what still holds when copies of one session overtake each other? | 2 handlers of 2 owners, 1 id, 1 call per copy, sweeper, clock to 1 | ids do not interact; two handlers and the sweeper are three concurrent copies |
| `store_serial` | what is gained when requests are served one at a time? | as above, clock to 3, with fairness | every session's life is longer than one lifetime |
| `engine` | what can the backend's answers and growing registries lead the engine to open, fill and show? does registration, from code or documents, keep identity, order and live pointers? which schemas survive JSON? do sources and orchestrator keep the best entries? | 2 actions x 2 versions that differ in scopes, properties and required ones; 9 first answers (failed, empty, unsure, at the threshold, tied, unsorted, incomplete, null) x 3 second answers; 3 grants, 2 owners, 1 id, 1 pointer; 10 documents with one fault each at most and 2 schemas made in code, 2^63 as 4; a glossary of 6 entries in 2 languages, 3 indexed entries, 1 source of the embedding; 4 queries, at most 2 results | every early return of process() and classify() is taken and not taken; limits lie on both sides of 2^63; every source has more to offer than it may; four registrations grow the buffer three times; one id is enough as ids do not interact, and two owners collide on it |
| `limiter` | what does the limiter guarantee with delayed threads? | 2 threads, 2 classes, windows of 2 in a clock from 2 to 6, stall up to 2 ticks, 4 grants, resets | covers boundaries of three windows and a thread delayed across one |
| `pipeline` | do the stages compose under concurrency? | 2 threads, 3 requests out of 8 that probe each stage, quotas of 2 and 1, 8-valued integers, one ceiling at the maximum integer, one reset of each counter, with and without adapter | every answer is given, ceilings and limits are both met and overrun |
| `audit_sinks` | which omissions and alterations does verification notice? what survives errors, retries, crashes and restarts in a file? | 3 records, 3 nodes and 3 alterations in memory; 2 failures, 2 restarts of the file | one node before, at and after the alteration; a failure and its retry in each of two incarnations |
| `audit_moved` (violation) | is an acknowledged node durable? | no failure, no crash | finding |
| `web_client` | whose answer can a call get, and does everything settle and catch up over lost connections? | 2 calls, 2 sockets, 3 snapshots per session, 1 refused command | two concurrent calls compete; a second socket meets listeners and calls left from the first; three snapshots pass one another across it |
| `bindings` | do calls to the stdio server get their own answers, and do calls and close() end, over crashes and reconnects? | 3 requests and a quit, 3 processes, 2 crashes, either binding | two calls compete while a third is left over from a process that is gone |
| `operator_page` | does the page show the session, is what was seen committed, and when can the operator confirm? | every mode in every kind of host with a page that listens itself, every adapter with mode `single`; 1 required and 1 optional slot, 1 value; 2 commands and 1 snapshot on their way; cooling-off -1, 0, 2 and none, seconds counted to 2 (`Patience`) | an optional slot is enough for two different previews; two commands overtake a snapshot; the timer runs out, never starts, or never ends |
| `react_stale` (violation) | does a React component show the session? | as above, the React hook | finding |

### What they show

The type invariant of a module is a conjunct of the first invariant its run
checks (`SessionInv`, `StoreInv`, `EngineInv`, `LimiterInv`, `LedgerInv`,
`TrailInv`, `LogInv`, `ClientInv`, `BindingInv`, `PageInv`).

- **Session.** In every order of calls and restarts the aggregate stays sound
  (`SessionInv`: also that questions, previews, reasons and results never outlive
  their state; `RequiredFilledInv` and `ShownIsCurrentInv` are parts of it), follows its
  documented transition table and implements `OperatorApproval`. This includes
  lists with duplicate names, where only the first slot of a name can be filled.
- **Session JSON.** The parser refuses nothing that the operations can produce,
  and what it returns differs from what was saved only in the answer to a
  clarification, the question and preview of a cancelled or expired session, and
  times (`RestoredAsSaved`). A restore moves the deadline back by less than a
  microsecond and never forward (`DeadlineKept`); it may set `updated_at` of a
  session in `fill` back to its creation.
- **Store.** Whatever copies overtake each other, a stored session is always one
  the aggregate can be in (`StoreInv`), its owner never changes
  (`OwnerIsStable`) and none is expired before its time (`NeverExpiredEarly`).
  Served one at a time and by listing, handlers see only their own sessions,
  archives are final and every session is closed for good
  (`LoadsOwnSessions`, `ArchivedStaysArchived`, `SessionsCloseForGood`).
- **Registry.** Identity and order are kept, a pointer means what it meant
  until the next reallocation, and every schema obeys the specification document
  (`RegistryConsistent`, part of `EngineInv`). Its parts `RoundTrips` and
  `ReadAsWritten`: a schema survives JSON exactly when its limit is below 2^63 and
  its embedded texts are objects, which all schemas read from documents are.
- **Engine.** Whatever the backend answers, a session exists only for an action
  whose scopes its operator was granted, with exactly the slots of that schema
  (`EngineInv`, part `Admitted`); the action was named with enough
  confidence and no other candidate comes within the gap, in whatever order they
  were listed (`ChoiceIsJustified`); each value is the second answer's where that
  was asked for and speaks of the parameter, else the first one's
  (`ValuesFromAnswers`, which also says that a new session is of the version registered
  last). What is shown or executed fits the current schema as long
  as no newer version was registered since (`ShownFitsSchema`); the condition is
  needed. `RetrievesTheBest`: the knowledge context leaves nothing out for
  something that ranks lower (`KeepsTheBest`); a matching schema is missing only when as many
  registered earlier are offered (`FirstSchemasOffered`); a word is explained in the
  language asked for, or else in English, never in both (`OneLanguage`).
- **Limiter.** Counts are exact (`LimiterInv`) and `WindowsDisjoint` holds with any delays.
  `BurstBounded` is the real guarantee over any stretch of one window duration:
  two quotas without delays, and one more for each window duration, or part of
  one, a thread is delayed between clock and mutex.
- **Pipeline.** `ValidatedMeansChecked`; `LedgerInv`: the ledger holds exactly the units of the
  requests that passed the budget stage (a failed dry run stays charged), and the
  requests let past the rate stage fit in the windows so far, as many again after
  each reset (part `TokensAccounted`); `RefusesExactlyExcess` for every machine integer.
- **Audit.** `TrailInv`: the memory sink lets gaps through and verification
  finds them. `OneChangeIsFound`: cutting off the end is the one change that
  verification alone cannot see; `HeadBindsTrail`: with the builder's head hash it
  can. For the file: no acknowledged line is lost or changed apart from
  descriptor re-use (`LossNeedsReuse`, `SyncedNeverChanges`), a file that verifies
  has no holes (`LogInv`), and one process without errors leaves a
  readable file (`CleanRunIsReadable`).

- **Bindings.** Through Python's lock every call gets its own answer and ends, even
  when the server crashes or is told to quit by another thread. In the Node.js
  binding this holds as long as no server crashes, and close() ends after every
  answer (`BindingInv`, parts `PythonAnswers`, `NodeAnswers`, `CloseDrains`;
  `CallsEnd`).
- **Client.** At most one socket is open and it is the transport's, somebody
  listens to it, a pending call has its listener, and a call resolves with its own
  session or that of a call it competed with (`ClientInv`, part
  `AnswerIsOwnOrRivals`; more does not hold, see section 4). No reconnect
  and no late message makes a session fall back to an older snapshot
  (`ViewNeverGoesBack`). While the connection lasts, a call settles
  (`CallsSettle`) and what was sent is shown (`ViewCatchesUp`).
- **Page.** A page that listens to the session itself, and Angular's service, show
  what the server has once nothing is on its way (`ShowsTheSession`, part of `PageInv`;
  React and Vue do not, see section 4). The form asks for no preview that would be
  refused for want of a value, whatever is on its way (`ContinueIsComplete`). A
  confirm message names only the session, yet with the adapters that keep up, what
  is committed is what was on screen, value by value, when it was clicked
  (`SeenIsCommitted`): between two previews lies a rejection, which travels behind
  every click on the first. A button that is always there can be clicked without a
  preview on screen, which the property excepts. Whatever attributes change, no
  confirmation leaves the button while it is disabled, before the phrase stands in
  the field or before the period its countdown began with is over
  (`ConfirmationEarned`), and a countdown ends in a button that confirms unless the
  element is moved (`CooldownEnds`).

### Fairness

Four runs use fairness (`FairSpec`, `FairClientSpec`). In `store_serial`, `WF(Tick)`: clocks run. `WF(Save(c))`:
a handler that holds a copy ends its turn; handlers are functions that return.
`WF(SweepList)`, `SF(SweepVisit(i))`, `WF(SweepSave \/ SweepRemove)`: the embedding
runs the clean-up pass the port describes; the fairness is strong because handlers
come in between and hold the turn now and then. Nothing is assumed about handlers
starting or about what they call. In `web_client`, `WF(Deliver(k))`: an open socket
hands over what it received, as the event loop does; `WF(Answer(r, k))`: the server
answers what it received, as each branch of its request loop ends in a response.
Nothing is assumed about connecting, and a connection may be lost at any time.
In `bindings`, the server reads and leaves, the event loop emits what happened, and a
thread that waits for a free lock or a line goes on: every call is made once, so
a weakly fair lock is enough. In `operator_page`, `WF(Tick)`: the browser runs the
callback of a running interval timer. There is no liveness claim elsewhere: the other components run only when called.

`CHECK_DEADLOCK FALSE` appears where the bounds (clock, requests, restarts) or the
system itself (an archived session, a full registry) end the behaviour.

## 4. Findings

1. **The file sink loses its descriptor** (`audit_moved`). The defaulted move
   constructor (`file_audit_sink.hpp:30`) copies `fd_`, the moved-from object
   closes it. append() then fails, or, when the number has been re-used, reports
   Ok for a node written to another file; `audit_sink_port.hpp:12` promises
   durability.
2. **React shows one change only** (`react_stale`). The hook's listener replaces its
   state by a copy of what the state holds (`useAetherisSession.ts:25`); the copy has
   the snapshot of that moment and is what later changes copy again. ADR-0010:56-58
   says "The hook subscribes to `AetherisSession.change` events and triggers React
   re-renders", so that adapters "can re-render on state transitions without polling"
   (`:32-33`).

Noticed while reading, without a run of their own:

- Store: `save()` replaces whatever is stored (`in_memory_session_repository.hpp:45`),
  so with two handlers at once a stale copy revives an archived session
  (`session.hpp:43` calls archive terminal); this is why `ArchivedStaysArchived`
  is a property of `store_serial` only. `load()` takes no owner, so "attempting to
  load another operator's session returns not_found" (`:26`) rests on where ids
  come from (`LoadsOwnSessions` needs `ByListing`).
- Registry: `push_back` moves the schemas when the vector is full
  (`schema_registry.hpp:24`), so a pointer handed out before dangles;
  `validation_pipeline.hpp:46-47` promises "Valid for the lifetime of the registry".
  `RegistryConsistent` says what holds until the move.
- Limiter: the "sliding window" (`in_memory_rate_limiter.hpp:22`) is a fixed one
  (`BurstBounded`).
- Schemas: `README.md:134` makes dry runs mandatory for every irreversible action,
  the code only for those that are not read-only (`action_schema.hpp:291`).
- Pipeline: `parameters_json` "Must match the schema's ParameterSignature.
  Validated by the schema stage" (`validation_pipeline.hpp:39-40`), but no stage
  looks at it. After a newer version with more required parameters was registered,
  a session of the older one passes with an incomplete call (`ShownFitsSchema`
  carries the condition that excludes it).
- Audit: a restarted process starts its sequence at 0 again in the middle of the
  old file, since a builder cannot be resumed (`audit_chain.hpp:74`), against
  `audit.hpp:117`. After a failed append a torn line swallows the next node
  (`CleanRunIsReadable` needs no failures). The file sink does not reject duplicate
  sequence numbers (`audit_sink_port.hpp:14`).
- Schema JSON: "round-trips without loss" (`action_schema_json.hpp:22`) fails for
  limits of 2^63 and more, for parameters that are not a JSON object, and for
  examples whose parameters are not (they become `{}`); `RoundTrips` says exactly
  when it holds. That parameters are JSON is checked by the parser of documents only,
  not by the domain. aetheris-lint's usage promises arrays of schemas
  (`schema_lint.cpp:91`), its code refuses them (`:124-129`).
- Engine: ADR-0006 lets the backend see permitted schemas only; classify builds
  its prompt from `registry_.all()`. A candidate's confidence is not checked
  against "0.0..1.0" of `intent.hpp`. merge_slots lets a null of the second answer
  overwrite a value of the first. A required name that is not among the declared
  properties gets no slot.
- Knowledge: the schema source stops at `max_results` matches in the order of
  registration (`schema_knowledge_source.hpp:54`), so a better match registered
  later is never offered to the ranking. Glossary entries that occur twice use up
  `max_results` before copies are removed.
- Client: every pending processIntent listens for any `session_created`
  (`client.ts:65`), so the first answer resolves all of them with the same session;
  `client.ts:50-51` promises "the resulting AetherisSession". onError is "not tied to an active request" (`client.ts:8`) but called for
  every error; the refusal of some command rejects a pending processIntent, whose
  session is created all the same; a processIntent whose send() throws leaves its
  listener behind; a second connect() leaves the first main listener in place, so
  that events are dispatched twice; calls pending when a connection is lost stay
  pending until some answer on a later connection settles them.
- Node binding: the queue of requests survives its process (`index.mjs:50`); when a
  server goes down while close() is waiting, what was open takes the answers of
  the requests made after the next connect() (the condition in `NodeAnswers`).
  close() asks for quit after it has set `#connected`, so quit is never sent and
  the server leaves at the end of its input; close() waits for an event that may
  have passed, and hangs after a crash; it reads `#proc` after an await
  (`index.mjs:87`), so a connect() that does not wait for it loses its own process.
- Python binding: an interrupt between write and readline leaves a line behind that
  the next call takes for its own.
- Page: `README.md:14` has confirmation modes "enforced at the domain level", but
  `confirm()` never looks at the mode, and the Confirm button of
  `<aui-session-preview>` passes no mode at all. `<aui-confirm-button>`: a countdown
  starts when the element is inserted, not when there is something to confirm, and a
  mode set afterwards has none; attached a second time it calls attachShadow again,
  which throws, and its countdown stands still; a `cooling-seconds` that is no number
  never confirms; `automatic` confirms although disabled; nothing in the client
  carries the second party of `multi_party`.
- Adapters: Vue's ref is assigned the object it holds, so a change renders nothing; a
  component mounted before its session is known never subscribes to it (React, Vue),
  and Angular's service keeps the missing session for good. There is no
  rejectPreview in them, and no message for an answer to a clarification in the
  client. `README.md`'s `startSession` and `session.fillSlot` do not exist.
- Snapshots: `value_json` is sent as raw JSON where `types.ts:24` expects JSON in a
  text, so a slot filled with JSON null looks empty; `escape_json` leaves most
  control characters as they are.
- C API: `session_json` is "JSON-serialized IntentSession produced by the server"
  (`c_api.h:64`), but the code reads a snapshot, whose `confirmation_mode` a
  serialised session lacks (`c_api.cpp:64`).

## 5. The proofs

`IntentEngine_proofs` has three layers. For schemas it proves
`CreateAcceptsAsSpecified`: the validators of
`action_schema.hpp` accept exactly the drafts that `docs/spec/action-schema-v0.md`
admits, by one lemma per validator. The order of the rules, and the rule on
bounded actions that an earlier one always pre-empts, decide only the error code.
For JSON it proves `JsonRoundTrip` (`RoundTrips` of every schema the domain accepts)
and `DocumentsReadAsWritten` (`ReadAsWritten` of every document), for every width of
the integers (assumption `JsonAssumption`: `Half` is positive, `Bad` no shape of a
text); `LimitsAreRead` computes what the parser makes of a number and
`DocumentIsRead` what it makes of a document. The registry and the engine build on it:

| Theorem | States |
|---|---|
| `AdmitsOnlyWhatIsGranted` | `EngineSpec => []EngineInv` |
| `NoActionByGuess` | `EngineSpec => []ChoiceIsJustified` |
| `ShownIsComplete` | `EngineSpec => []ShownFitsSchema` |
| `OnlyWhatWasSaid` | `EngineSpec => ValuesFromAnswers` |
| `BestIsRetrieved` | `EngineSpec => []AnswersTheBest /\ []RetrievesTheBest` |

They hold for all sets of schemas, documents, answers, grants, sessions and pointers
(further assumptions: `RegistryAssumption`, `EngineAssumption`: what is built in code is
typed, an answer that is not `Nil` is a list of candidates with natural confidences,
parameters are values by their names, and a schema declares a list of names; for
`BestIsRetrieved` also `OrchestratorAssumption`, that `max_results` is a natural number,
and `SourcesAssumption`: scores are natural numbers, the glossary is a list in which a
term determines its word and a word whether it is found, and finitely many entries can
be indexed). `AnswersTheBest` is `RetrievesTheBest` without its condition, which only
spares the run the states with sessions and pointers.

The argument. A position in the vector means the same for ever, but a pointer only
until the buffer moves; so `RegistrySound` says of every pointer that its buffer is
no later than the current one, which is what makes the new buffer of a push_back
differ from all of them, and that no two positions carry the same action and version,
which register_schema() keeps because its search finds something whenever there is
something to find (`FindsAny`). Sorting is reasoned about by ranks: in a finite
set every place is the rank of exactly one element (`RankIsOnto`, by counting, without
induction), so the elements can be listed in their order (`Arranged`), and of some
places of a list there is a first (`FirstPlace`). From it follow that versions_for()
lists each version once (`VersionsAreDistinct`), and what stable_sort makes of an
answer: the first candidate is the best one and none of the others is better than the
second (`SortedCandidates`). Hence `ChosenIsBest`: to compare the first two is to compare
the first with all. `EngineIInv`, the inductive invariant, is `RegistrySound` with
`RequestSound` of everything stored: the session is sound and has the slots it was
opened with (the aggregate's lemmas; `ServedRequestSound`), the schema was admitted
(`Admitted`) and the choice justified (`Justified`). `ShownFitsSchema` needs all of
them: a preview stands for filled slots, the slots are those of the schema, and the
schema is the newest.

For `BestIsRetrieved` each step of retrieve() is computed for every input. Merging is
the library's recursive function; that it exists and holds the entries of all sources
(`MergeExists`, `MergeHolds`) follows from the first place where it would not, which
takes the place of an induction. `SortedEntries` says that sorting keeps the entries and
puts none before one that ranks higher, since `Ranks` is a strict weak order
(`RanksIsWeakOrder`); `UnseenEntries` that the removal of copies keeps the order, and of
every entry a copy that stands no later; `TruncatedEntries` that the cut keeps a
beginning. Together they give `BestAreKept`, for any number of sources: an entry left out
has a copy before it after sorting, and this copy is in the context or everything in the
context stands before it. `KeptPlaces` says which elements a filter keeps. With it
`SchemasAnswer` and `GlossaryAnswer` compute what these sources answer, and `FirstSchemas`
and `OneLanguageServed` follow: a matching schema that is missing stands behind as many
places as the answer has entries (`CountBelow`), and an English entry is served only when
no entry found in the locale has its word. What remains is that every source answers
with entries that can be ranked (`SchemasAreRanked`, `GlossaryIsRanked`,
`VectorsAreRanked`).

`SessionJson_proofs` proves of `SessionLifecycle`, for all slot lists, values, texts, owners,
lifetimes and clock bounds (assumption: `LifecycleAssumption`, the slot lists are
sequences of slot drafts):

| Theorem | States |
|---|---|
| `SessionAlwaysSound` | `Spec => []SessionInv` |
| `RequiredAlwaysFilled` | `Spec => []RequiredFilledInv` (a part of `SessionInv`) |
| `ShownAlwaysCurrent` | `Spec => []ShownIsCurrentInv` (a part of `SessionInv`) |
| `NothingLeftOver` | `Spec => []NoLeftovers` |
| `TransitionsAsDocumented` | `Spec => FollowsTransitionTable` |
| `RefinesApproval` | `Spec => ImplementsApproval` |

The argument. No single invariant is inductive: that a shown session has its
required slots filled, after `confirm`, follows only because `preview` checked it
and nothing but `reject_preview` leads back to where slots can change; that the
preview is current needs that there is none in `fill` and `clarification`. So the
inductive invariant `SessionInv` is the type together with all parts of
`SoundSession`: required slots, current preview, no stale preview, question and
reason that match the state. `SessionAggregate_proofs` has one lemma per
operation (from a sound session, each of its outcomes is a sound session) and
lemmas on updating one slot of a list; they mention no variables, so they hold for
every holder of a session. `SessionJson_proofs` combines them: initial state,
one step per action of `Next`, `PTL` for the temporal step. The refinement uses
the same invariant: each operation's outcome is the corresponding step of
`OperatorApproval`, clarifications stutter.

It proves the same of a session with a save and a restore between any
two of its operations (`SpecWithRestarts`), for every resolution of the JSON
(`MicroAssumption`: at least one tick):

| Theorem | States |
|---|---|
| `RestartsKeepSessionsSound` | `SpecWithRestarts => []SessionInv` |
| `AlwaysRestoredAsSaved` | `SpecWithRestarts => []RestoredAsSaved` |
| `DeadlineAlwaysKept` | `SpecWithRestarts => []DeadlineKept` |
| `RestartsRefineApproval` | `SpecWithRestarts => ImplementsApproval` |

The argument. `ReplayIsExact` computes what the parser returns: for every session of
the invariant the replayed operations are all accepted and their only outcome is
`RestoredSession`. For that `SessionInv` is strengthened by `NoteMatchesState` - a
note belongs to a cancelled session only, since every other branch of the parser
drops it - which the operations and the restart keep. The theorems follow from that
one session: a restart maps to a stutter of `OperatorApproval`, because phase,
parameters and offer are the same.

`SessionStore_proofs` proves the safety of the repository for any number of
handlers, owners and ids (assumption: `StoreAssumption`, which fixes the types of
the constants and that an empty place of the map, `Nil`, is no session):

| Theorem | States |
|---|---|
| `StoreStaysSound` | `Spec => []StoreInv` |
| `NothingExpiresEarly` | `Spec => []NeverExpiredEarly` |
| `StoredOwnerIsStable` | `Spec => OwnerIsStable` |
| `HandlersLoadOwnSessions` | `Spec => []LoadsOwnSessions`, if handlers take ids from `list_active_for` (`ByListing`) |
| `ArchiveIsFinalInTurns` | `Spec => ArchivedStaysArchived`, if requests and sweep entries take turns (`Serialised`) |

The argument. A stale copy can be saved over a newer one, so nothing can be said of
the stored session alone: the inductive invariant `CopiesInv` speaks of all copies
of an id at once, stored, held and swept. They are sound, were expired no earlier
than their lifetime allows, and have an issued id (`CopiesSound`); those of one owner
agree on the start and the length of that lifetime (`CopiesAgree`); and what the sweeper still has
to visit is there and over (`DueIsOver`), so that its list, however old, never names a
live session. That save() refuses another owner's id is what makes `CopiesAgree`
enough. `OutcomesTouch` says what one call may change and rests on the aggregate's
lemmas. The last theorem needs `TurnsInv` as well: one copy is out at a time, and
it differs from an archived session only if that is another owner's. Without turns
that theorem is false, and `store_shared` does not claim it.

`Limits_proofs` proves, first, all four properties of the run `limiter`, for any
number of threads, operators and classes, all limits, and all window durations and
delays (assumptions: `LimiterAssumption`, `ThreadsAssumption`: limits are natural
numbers, a window is at least a tick):

| Theorem | States |
|---|---|
| `CountsStayExact` | `Spec => []LimiterInv` |
| `BurstsStayBounded` | `Spec => []BurstBounded` |
| `WindowsStayDisjoint` | `Spec => WindowsDisjoint` |
| `RejectionsAreJustified` | `Spec => RejectionJustified` |

The argument. A thread may come back with a reading from before the window that is
open, so the invariant keeps the history: `LimiterSound` says of each bucket
(`BucketSound`) that its count is what was granted in its window since the last
reset, that no window has more grants than the limit, that windows granted in since
that reset lie at least one duration apart, and that a grant was made at most
`MaxStall` after its window was over. One lemma per operation on a bucket:
`SoundReset`, `SoundExpired`, `SoundGranted`, `SoundLater`. The bound on bursts
counts the windows whose grants can fall into one stretch of time
(`StretchesBounded`): windows that start within one duration of each other are
one window, with one quota, and the grants of a stretch have windows that start
in the `2 + (MaxStall + Window - 1) \div Window` durations up to its end.

And it proves all properties of the run `pipeline`, for any number of threads,
requests, resets and operators, every registry, all limits and ceilings and every
word size (assumptions: `LimiterAssumption`; `BudgetAssumption`, that ceilings are
machine integers; `PipelineAssumption`, which types registry and requests and has
finitely many requests and threads, so that sums over them exist):

| Theorem | States |
|---|---|
| `OnlyExcessIsRefused` | `PipelineSpec => [](LedgerOK /\ RefusesExactlyExcess)` |
| `QuotasHold` | `PipelineSpec => []QuotasOK` |
| `ValidatedIsChecked` | `PipelineSpec => []ValidatedMeansChecked` |
| `CountersAreExact` | `PipelineSpec => []LedgerInv` |

The argument. `PipelineSound` says that a thread past stage 3 holds a request that
passed it (`PrecheckedIsAllowed`) and what each answer given means (`Means`).
`ExhaustedIsExcess` shows of the check of the budget controller that its subtraction
never wraps where its result matters. `LedgerSound` adds what resets wrote off: a
thread between budget stage and dry run is already charged, so a request counts
through the thread that holds it until it counts through its answer
(`TotalContinues`, `TotalAnswers`, `TotalSame`; one lemma per stage rests on them).
`TokensSound` says of each bucket (`Accounted`) that since the last reset `w` windows
were opened one after the other, so that the last starts no earlier than `w * Window`,
and that the requests let through fit into `w - 1` full ones and the count of the last. It has
to allow as many windows again after every reset: a thread may come back with a
reading from before it and open windows that are over. A bound with one extra window
for each reset looks right and holds with the three requests of the run; the
proof failed on it, and with four requests and quotas of 1 TLC shows why. The sums of these
properties are the library's `SumFunctionOnSet`; that this recursively defined function exists and unfolds
(`SumsExist`, `SumUnfolds`) is proved here by induction on the size of the set
(`SubsetInduction`, from `NatInductionSet`).

`AuditSinks_proofs` proves what both sinks promise, for trails and files of every
length and any number of alterations, failures, retries, crashes and restarts, for
whatever a newly opened sink's descriptor refers to (assumptions:
`TrailAssumption`, `LogAssumption`):

| Theorem | States |
|---|---|
| `GapsDoNotPass` | `SinkSpec => []TrailInv` |
| `SingleChangesAreFound` | `SinkSpec => []OneChangeIsFound` |
| `CurrentHashBindsTrail` | `SinkSpec => []HeadBindsTrail` |
| `AcceptedFilesAreComplete` | `SinkSpec => []LogInv` |
| `OkMeansStored` | `SinkSpec => []LossNeedsReuse` |
| `CleanRunsVerify` | `SinkSpec => []CleanRunIsReadable` |
| `StorageIsAppendOnly` | `SinkSpec => SyncedNeverChanges` |

The argument. `HashInjective` states the two facts about hashes that everything
rests on: a hash determines what it was computed from, and none is the genesis
value. Both hold because hashes are terms; of SHA-256 they are the usual
assumption. From them follows `HeadBinds`, by induction along the chain: two
trails that verify and end in the same chain hash are equal. The invariant
`TrailSound` says that the builder's chain verifies and repeats no hash
(`BuilderSound`: an altered node with another number would have to sit behind a
node that hashes like its predecessor), and that an unaltered trail holds its
nodes only (`Delivered`); one lemma per kind of alteration shows what it breaks
(`ChangeShows`, `AlterationShows`). For the file, `LogSound` is five parts. `FileSound` and
`CountersSound` keep track of the call in progress: only the last fragment can still change, and it
is not on stable storage. `BuiltSound` says that the nodes of each run form a
chain without gaps, which is why a file that verifies cannot lack one
(`VerifiedFileIsComplete`). `DiskSound` says of a node about to be acknowledged
that it is a whole last line, which neither `pc` nor the file alone says.
`CleanSound` says that in a first run without failures file and builder go in step.
`LossNeedsReuse` and `OneChangeIsFound` are themselves part of the
invariants.

`Clients_proofs` proves the safety of both kinds of client, for any number of calls,
sessions, snapshots, connections, processes and crashes (assumptions:
`ClientAssumption`, that `Nil` is no call and the bounds are numbers, and
`ServerAssumption`, that quit is no request and no call is also the name of a state):

| Theorem | States |
|---|---|
| `AnswersGoWhereTheyMay` | `ClientSpec => []ClientInv` |
| `ViewsOnlyAdvance` | `ClientSpec => ViewNeverGoesBack` |
| `AnswersMatchCalls` | `Spec => []BindingInv` |

The argument for `WebClient`. That a view does not go back is decided when the server
sends, not when the client receives, so the invariant `ClientSound` follows the
messages: `OrderSound` says that the snapshots of a session under way on the open
socket are in order, none older than the view and none newer than what the server
has sent. That this survives a new connection needs `TransportSound`: a socket that
is not open holds nothing back for later. `ServerSound` says that nothing was sent
of a session before its request was answered, and `RivalsSound` that whatever is
announced while a call waits belongs to a call it competes with; hence the part
`AnswerIsOwnOrRivals`. `SettledShape` and `Delivered` compute what one message does
to every call and view; one lemma per action follows.

The argument for `Bindings`. Neither end of the pipes knows which call a line belongs
to; that they agree is a statement about both pipes and the queue together. For the
Node.js binding `QueueSound` says that, as long as no earlier process crashed, the
queue is the unread output of the current process followed by its unread input
(`Queued`), and begins with the output once that process has gone (`Begins`); the
lemmas from `QueuedHandled` to `QueuedRead` say that asking, answering and reading
keep this. It carries over to the next process because close() waits until the
process is gone and its output read, with nothing left in its input
(`ProcessesSound`, `ClosingSound`). For the Python binding `PythonSound` says that
at most one line is under way, in one of the two pipes, and belongs to the call
that holds the lock.

`OperatorPage_proofs`, for all phrases, integer periods (also negative ones and what
does not parse), slot lists, setups and numbers of messages on their way:

| theorem | states |
| --- | --- |
| `ConfirmationsAreEarned` | `Spec => ConfirmationEarned` |
| `PageAlwaysSound` | `Spec => []PageInv` |
| `CommitsWhatWasSeen` | `Spec => SeenIsCommitted` |

Assumptions: `ButtonAssumption` (the phrases are not empty texts, the seconds counted
reach as far as the longest period) and `PageAssumption` (slot lists are sequences of
slot drafts, the absent snapshot and the absent preview are none, setups combine the
adapters, modes and hosts there are, and a message of each kind can be under way).

The argument for the button: a click confirms what the last rendering offered,
so the invariant `PageSound` says of the button that whatever it offers now is
earned (`ButtonSound`). For that it also says that the seconds left and the seconds
gone by add up to at least the period (`CountdownAdds`; a late timer only adds to
the latter), that what it offers is what its fields call for (`AsRendered`), and that
only an element that has been rendered is on the page or has a timer (`Attached`).
One lemma per callback, then one step per action of the page; the server and the
commands on their way play no part in it.

The argument for the session is `PageIInv`. Neither end of the connection knows what
the other has seen, so the invariant speaks of both queues. `SnapshotsSound`: the
newest snapshot the client has or will get is the session as it is, and every one on
screen or on its way is of the session as it is or was, in which no slot has lost its
value since (`Faithful`, `Grown`); so what the form found complete still is when the
command arrives (`CommandsSound`). `ViewSound`: with an adapter that keeps up, what is
on screen is the newest snapshot received. `OrderSound` is what `SeenIsCommitted`
needs. That no stale confirmation meets a later preview is due to the order of three
messages: the next preview must be asked for after the client has learnt that the
first one was rejected, hence after every command given to the first one. `Order` says
so for each phase: while the session is in preview, every command given before a
preview was given before this one, and none was if the client does not know it yet; while the
client shows none, no command that asks for one is ahead of one given before a preview
(`AsksThenLooks`); while it shows one, no rejection is ahead of a command that asks
for the next (`RejectsThenAsks`), and if the session has left the preview nothing asks
for one; and a snapshot on its way shows a preview only as the last, and only to a
client that shows none. Once the session is committed or archived nothing needs to be said.
`OrderGiven`, `OrderDelivered`, `OrderPreviewed`, `OrderRejected` and their neighbours
show that giving, receiving, serving and rejecting keep it.

Only model-checked: liveness (`SessionsCloseForGood`, `CallsSettle`, `ViewCatchesUp`,
`CallsEnd`, `CooldownEnds`), as fairness and ENABLED are out of the prover's reach.
Every other property of a passing run is a theorem. No installed prover can instantiate the
library's induction theorems, whose parameter is an operator; the two recursive definitions
the proofs meet, sums over sets and the merge of sequences, are reasoned about with an
induction whose hypothesis is a set (`NatInductionSet`, from the well-foundedness of `<`)
and by a first counterexample (`FirstPlace`).

## 6. Plan

1. *(done)* session aggregate, its lifecycle and refinement, with proofs; store;
   schema and registry; limiter, budget, pipeline; audit chain, trail and log.
2. *(done)* `SessionJson`: saved, restored and continued sessions, with proofs.
3. *(done)* `KnowledgeOrchestrator` and `IntentEngine`, composed with the registry
   and stored sessions.
4. *(done)* `WebClient`: calls, listeners and views over lost connections.
5. *(done)* `StdioServer`, `NodeBinding`, `PythonBinding`.
6. *(done)* `SessionSnapshot`, `ConfirmButton`, `SessionView`, `OperatorPage`: the page,
   its components and the framework adapters.
7. *(done)* `ActionSchemaJson`, with proofs; `KnowledgeSources`, composed with the
   engine and its registry; `AuditSinks`.
8. *(done)* proofs of `SessionStore`, `RateLimiterThreads`, `ValidationPipeline` with
   `BudgetController`, `AuditSinks`, `WebClient`, `Bindings`, `OperatorPage` and
   `IntentEngine`.
9. *(done)* proofs of `KnowledgeSources` and `KnowledgeOrchestrator`: with them every
   safety property of the passing runs is proved.
10. Left: liveness, which stays with TLC.

The runs of the new modules take the place of those whose question a theorem has
answered for all instances.
