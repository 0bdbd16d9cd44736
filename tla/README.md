# Verification of the SAGE Agent Starter

TLA+ models of the Agent in this repository, the TLC configurations that check
them on small instances, and theorems about them checked by TLAPS. Every
definition is translated from the source; `PROJECT.json` names, definition by
definition, the lines it stands for.

```
tlc -workers 4 -config MCResponseStore.cfg MCResponseStore.tla   # a run
tlapm ResponseStoreProofs.tla                                    # proofs
```

## 1. The system

The Agent is one HTTP server, in two editions that speak the same contract
(`contracts/stateful-v1.md`): `node/` and `fastapi/`. The platform posts a turn
to `/v1/responses`; the Agent asks a model provider, relays its event stream,
and keeps on disk what the next turn needs to continue from.

| Component | State | Operations | Talks to |
| --- | --- | --- | --- |
| Node state store, `node/state-store.mjs` 54-347 | SQLite tables `response_heads` and `pending_actions` | `resolve`, `record`, `recordPending`, `hasPending`, `consumePending`, `prune` | called synchronously by the server |
| Node stream gate, 349-475 | decoder buffer, `createdId`, `terminalState`, withheld terminal frames | `push`, `finish` | one per provider stream |
| Node server, `node/server.mjs` | one handler per request, the process | `/v1/responses`, health, readiness, showcase, shutdown | store, gate, provider, client |
| Approval demo, `node/approval-demo.mjs` | none: digests and fixed frames | request and result frames, ids | server |
| Showcase, `node/showcase.mjs` | none: one upload, a fixed stream | `/showcase/v1/responses` | platform files |
| Request contract, `node/contract.mjs`, `fastapi/contract.py` | none | validation of headers, body, leases | both servers |
| Agent profile, provider request | none | one file read at startup; one object built | both servers |
| FastAPI store and gate, `fastapi/state_store.py` | the same tables, in seconds | the same, plus `backup`; statements under a lock and implicit transactions | several processes may share the file |
| FastAPI application, `fastapi/app.py` | a generator per stream, client and upstream handles | the same routes | store, gate, provider |
| Local model fixture | responses it gave out | a test double of the provider | tests |
| HTTPS kit, `scripts/https-kit.mjs` | data directory, configuration, trust bundle | setup, export, doctor | the Caddy container, the operator |
| Source export, `scripts/source-revision.mjs` | a temporary directory | export of one commit, image builds | git, docker |
| Container smoke, `scripts/smoke-containers.mjs` | the docker resources it notes as its own | build, start, exercise, clean up | docker |
| Repository checks, deployment files | none | checks, release | - |

What makes it hard:

* *Crash between commit and answer.* The mapping of a response is committed
  first, the terminal frames go out afterwards, one awaited write at a time.
* *Concurrent turns.* A handler runs to its next `await` and others run there.
  Approval decisions come twice, contradict one another, or arrive after a
  crash; an ordinary turn reads the store and uses what it read a minute later.
* *Two retentions.* Heads live 30 days, approvals 7, deletions are lazy in one
  place and swept in others, and never touch both tables in one transaction
  when a turn is recorded.
* *Adversity of streams.* A provider may fail, announce its end too early, go
  on after its end, name two ids, or stop; a frame may raise in the middle of a
  chunk.
* *Timers.* A stalled provider or client and idle connections at shutdown.
* *Generators.* A FastAPI stream is a generator that its client may abandon at
  every yield, or before the first one.
* *Two editions.* They measure texts and read lines, URLs and dates by the rules of
  two languages.
* *Scripts.* Set-ups, exports and smokes stop anywhere, run at once, and share
  directories, image names and a configuration.
* *Shared files.* Several FastAPI processes on one file: Python opens a
  transaction at the first statement that writes, so reads before it may be stale,
  and the clock is read before the lock of the file is waited for.

What makes each component correct:

* store: an approval that can be decided hangs off a response that can be
  resolved; a group is decided as a whole, once, and finally; a promise of
  retention is never cut short;
* gate: nothing is reported as completed once the stream has ended otherwise;
  the completion is withheld; nothing is lost, added or reordered until a frame
  raises;
* server: what the client saw is durable; what it was told was executed was
  approved; one request acts on an approval; a turn continues in its own
  conversation; every turn ends;
* FastAPI: the same, with several processes on one file; every connection closed;
  nothing durable promised before it is stored;
* contract: an accepted request is one turn whose tokens go to the platform; both
  editions accept the same where their libraries read the same;
* showcase: platform and client know of the same files; a conversation survives a
  restart unless the key was rotated;
* HTTPS kit: what is on disk never promises more than was done; the bundle is of
  one set-up; the doctor proves the CA on disk;
* source export and smoke: an image is the revision of its label; what a run that
  ends leaves behind is what could not be removed.

`PROJECT.json` lists under `hazards` the places where these could go wrong.

## 2. Modules

| Module | Models |
| --- | --- |
| `ContinuationLedger` | the abstract promise of a store: `mapping`, `open`, `decided`, without tables, clock or statements |
| `ResponseStore` | the Node store: one action per method |
| `StreamGate` | the Node gate: `#accept` as operators on a gate and a frame, and one gate fed by one stream |
| `AgentServer` | the turns of the Node server, composing the two above |
| `SharedStore` | the FastAPI store: several processes on one file, one action per read or transaction |
| `SseFraming` | from chunks to frames in the Node gate, against a reader of the whole stream |
| `DuplicateKeys`, `JsonTexts` | the scan of a frame's data for duplicate names; the texts of JSON values it is given |
| `FastApiRelay` | one FastAPI turn: provider request, generator, commit, connections |
| `RequestContract` | the validation of a request in both editions, and the status of a provider's error |
| `Showcase` | showcase turns over a platform that keeps files |
| `HttpsKit` | setup, export and doctor over one configuration, with the container and the operator |
| `SourceExport` | the export of a revision, an image build and a Compose start over one image name |
| `SmokeRun` | the full smoke and its cleanup |
| `MC*` | the instances for TLC (symmetry sets, inputs); the `.cfg` files give the values |
| `ResponseStoreProofs`, `StreamGateProofs`, `AgentServerProofs`, `SharedStoreProofs`, `FastApiRelayProofs`, `RequestContractProofs`, `ShowcaseProofs`, `ScriptsProofs` | theorems; `ScriptsProofs` those about `SourceExport` and `HttpsKit` |

`AgentServer` takes `ResponseStore` as `Store == INSTANCE ...` over its own
`heads`, `pending`, `now`, and each handler action contains the store action the
code calls. `Gate` is used for its operators: a turn holds a gate record, and a
frame is `Gate!Accepted`, `Gate!Relays`.

### ResponseStore

`heads` is `response_heads` (a function with `NoHead` for a missing row),
`pending` the set of rows of `pending_actions`, `now` is `Date.now()`. Each method
is one atomic action: `DatabaseSync` is synchronous, and `recordPending` and
`consumePending` are transactions. `record` and `prune` are two autocommitted
statements; `SweepHeads` is a crash after the first. A call that throws or rolls
back changes nothing, so it has no action.

Abstracted: `created_at_ms` and `consumed_at_ms` (written, never read), tool
name, server label and arguments (copied through unread), the index, the file
system. `recordPending` takes the default retention, as all callers do. The
clock does not go backwards, in the sense that the code takes `Date.now()` for
granted. `PendingRetention <= OrdinaryRetention` is an assumption, with 7 and 30
days in the code; without it an approval would outlive its response.

### StreamGate

A frame is what `#accept` tells apart: `event` (absent, unusable, a failure, some
type), `data` (absent, `[DONE]`, not JSON, without type, a type) and `id`. All
combinations are inputs. `push` may be given any number of frames, none too.
`Throw` loses the frames accepted in the same call, as `#consume` does. The
model starts from parsed frames; what comes before is in the next two modules.

### SseFraming and DuplicateKeys

`SseFraming` has one action per call, `Push(chunk)` and `FinishFraming`, over strings
of the UTF-16 units that `#consume` tells apart: `CR`, `LF`, a blank that `trim()`
strips, and the rest. The reference reads the whole stream, a character at a time,
and knows no chunks. It has one reservation: in CR CR LF (`Ambiguous`) one CR stays
in a line, and which one depends on how often the buffer was normalised. UTF-8
decoding is the platform's and is left out. It is about the Node edition: Python
measures code points and strips other characters, see section 5.

`DuplicateKeys` has one action per branch of the loop of
`assertNoDuplicateJsonObjectKeys`: `OpenBracket`, `CloseBracket`, `OtherCharacter`,
`StringValue`, `StringName`, and `AcceptText` where the loop ends. A string is one step, with
its inner loop `EndOfString`, the loop `Behind` over white space, and `Name`, what
`JSON.parse` makes of it. Its inputs are texts of JSON values: another text is
refused by `JSON.parse` behind the scan anyhow. `JsonTexts` builds them together with
what their strings spell and which names are repeated: `JsonValues` are all of them,
as the least set closed under the rules of the grammar, and `Texts` those TLC is given.
The characters of the structure have names of their own (`lbrace`, `quote`, `escape`), and
`Letters` are whatever others there are.

### AgentServer

`turn[t]` is the handler of request `t`:

| `pc` | In `server.mjs` |
| --- | --- |
| `idle` | not yet arrived |
| `fetching` | 311, awaiting `fetch` |
| `streaming` | 356-361, awaiting a chunk or a write |
| `releasing` | 284, 389: what was committed is being written |
| `answered`, `refused`, `broken` | ended, error response, or destroyed |

`Decide`, `Continue`, `RefuseTurn` and `Commit` are what runs between two awaits.
`Write` is one awaited `writeFrame`, `outgoing` the frames it has left. `Break` is
the `catch` of the handler, for whatever reason: `Gate!Raises`, the byte limit,
an abort, a deadline, a throwing commit. `Crash` may happen at any point;
`Restart` prunes before it listens. `written`, `committed` and `issued` are history
variables: what the client may have seen, when the turn's commit was, and in
which conversation the provider gave out an id.

Assumed of the outside: the provider gives every response a fresh id (external),
and request bodies are those `validatePlatformContract` lets through. Left out:
frames of the artifact link and keep-alives with an event field, which no
property sees; frames a gate refuses on sight, which `Break` covers; the pure
routes. A turn whose process dies is cut, and does not come back.

### SharedStore

A call is begun (`Record`, `RecordPending`, `Consume`, `HasPending`, `Prune`: it
reads the clock and, where the code does, the tables) and committed by the
process in a later action (`RecordCommit`, `ConsumeRows`, `ConsumeCommit`,
`Resolve`, `ResolveDelete`, `PruneCommit`), or fails. `call[p]` holds the local
variables of the call. The SQL is that of `ResponseStore`, taken over with
`At(t) == INSTANCE ... WITH now <- t`: a statement sees the tables as they are and
the time its call read. `owner`, `known`, `passed` and `acted` are history variables.

An ordinary turn may name any response, also one that another process is about to
commit: a client has the id from `response.created` on, which is relayed before the
commit. `found` in `call[p]` is history: whether the response was on file when
`has_pending` was asked. A turn that named it earlier may go on past an approval:
`has_pending` finds no row, `record_pending` of another process commits, and `resolve`
answers with the live head. `NoneGoesPast` is about the others; without that condition
TLC finds this interleaving in five states.

Assumed: the provider gives fresh ids, and a response is recorded by one call, so no
key that expired is written anew; the id of a result is a digest of the
response and the decisions, so two digests are equal only for equal decisions; a
process has one call under way (no handler of `app.py` awaits inside one, or between `has_pending`
and `resolve`); no call lasts longer than the time SQLite waits for the lock, and
`BusyTimeout < PendingRetention` (5 seconds against 7 days). `time.time()` is one
clock: the processes share a host.

### FastApiRelay

`at` is where the handler of `app.py` 257-351 or its generator stands (`yielded` while
`StreamingResponse` writes a frame, `dropped` once its task was cancelled there),
`phase` how far the generator has got (`opening` at the artifact, which it yields ahead
of the deadline, `streaming` from the first read to the end of the stream), `queue` the list it is
yielding from and `sent` what it has yielded. The gate is reduced to its outcome and the number of frames
it relays; `Commit` is the block from `finish()` to the terminal frames, with a store
that may refuse. Every provider failure is an action, `Cancel` is the client that
leaves, `Deadline` the 60 seconds of the three `asyncio.timeout_at`. External:
`StreamingResponse` cancels the task of a client that left; the event loop
finalises a generator that was abandoned, but a generator that was never started
has no `finally` to run.

### RequestContract

The verdicts `validatePlatformContract`, `validateShowcaseContract`, `modelAccess`,
`artifactAccess` and `validApproval` are operators of a request and an edition. A
text is its length in UTF-16 units, in code points, and what stands at its edge; a
URL is what the parser of each edition reads in it (origin, path, trailing slashes
and the rest), and an expiry is which editions' parsers know the date, the
millisecond it is in and what is left of it, since Python reads microseconds. What a
library makes of a text is thus an input, and every combination is one. `Validate(e)`
judges, `Refuse` is a provider that fails and `Answer(e)` the status that follows. Requests are a constant: the instance takes one
good request of each kind and everything that differs from it in at most two
members. The theorems hold for any set of requests.

### Showcase

Each turn plays its `Script`, a sequence of events, one awaited write at a time, with
the upload before and the pause within. A request names a conversation and any id, or
none, to go on from; `Id` is the digest of the key and the conversation, and
`responseId` what the handler computed before it ran, as the key may be another when
its last event arrives. `ranUnder` is history: that key. The client
may stop reading or leave at any moment, the platform may fail with or without
keeping the file, and `Restart` kills every running turn and may rotate the key.

### HttpsKit

One action for each call that changes a file, and for each read whose result is
used after another process may have changed the file; `pc[p]` names the next one.
`Throw` and `Kill` may happen before any of them. Caddy is external: it makes a CA
where there is none and serves from memory. The operator may lose a directory,
put one of his own in place, or discard the configuration. History variables say
who made, lost or wrote what. Two reservations appear in the properties: a
directory that appears while a set-up that found nothing is making it (`raced`),
and one that was lost (`lost`, `lately`). A base stands for a Base URL with its
profile. Two profiles of one URL are thus two bases, which makes the checks of a
bundle stricter than the code's, which compare the URL alone.

### SourceExport and SmokeRun

`SourceExport` is `withExactSourceContext` around a build or a Compose start, file by
file: `git` reads objects by hash, so edits of the worktree and moves of HEAD may
come between any two steps. `seen` is a history variable: what a run could have
seen of the repository since its last file. `git status` and `git rev-parse` are two
processes, so `ExportWasCurrent` promises an instant at which the worktree was clean
and one at which HEAD was the revision, not that they are the same. `CleanUpFails` is
an `rmSync` that throws with some of the files removed. `SmokeRun` follows the sequence `Main` of
`smoke-containers.mjs`; `Make` notes what it made, `MakeFails` may leave it unnoted, and
cleanup removes by kind. What a check sends and reads is left out: it passes,
throws, or, in `verifyTlsEndpoint` only, never settles. The build without a revision
(526-534), which the Dockerfile refuses, is such a check.

## 3. Runs

| Run | Shows | Instance |
| --- | --- | --- |
| `store` | the inductive invariant `IInv`, decisions final, retention kept; the store implements the ledger | 1 conversation, 2 responses, 2 approvals, groups of up to 2, retentions 2 < 3, a longer one of 4, clock to 3 |
| `gate` | framing, scan and automaton of the gate, each for every input | streams of up to 8 characters in any chunks with frames of up to 3; JSON texts over 3 letters, of up to 3 members, 3 levels and strings of up to 2 pieces; 2 ids, streams of up to 4 frames |
| `server_decisions` | durability of what was seen, approvals acted upon once | 3 turns, 1 conversation, 2 provider ids, a restart, retentions 1 < 2, one tick |
| `server_scope` | continuation stays in its conversation; only completions advance | 2 turns, 2 conversations, streams of 2 frames |
| `server_liveness` | turns end | 2 turns, a restart, equal retentions |
| `shared_store` | processes drop nothing live, decide a group once and as a whole, and no turn that found it goes past it; the file is one continuation ledger | 2 processes, 3 responses, 2 approvals, retentions 2 < 3, calls of up to 1 tick, clock to 3, under `Bound` |
| `fastapi_relay` | connections closed, nothing promised early, order of frames, the turn ends | 3 relayed frames |
| `request_contract` | accepted requests are safe; editions agree where their libraries do | requests with two members wrong at most, a clock of two resolutions |
| `https_kit` | the directories, the bundle and the doctor | 2 commands at once, 2 endpoints, 2 directories, 2 CAs, 2 acts of the operator |
| `scripts` | images are their revisions; the smoke cleans up | a build and a Compose start of one tag, 3 revisions, 2 files; the whole smoke |
| `showcase` | files accounted for, restarts, turns end | 2 turns, one of which fails, of one conversation or of two, a restart |
| `contract_errors` | a violation: see section 5 | as `request_contract` |

`gate` and `scripts` each check several modules in one run: a variable, `stage` or
`script`, says which module a behaviour is of, and the others do not move. Each
stage of the gate is given all inputs, not only what the one before lets through.
`Bound` of `shared_store` stops the clock at 1 once the third response is in use: the
third response is for contrary decisions, the later ticks are for expiry, and
together they add nothing but size. It also leaves out turns that name a response
which is neither on file nor under way to it with an approval: `resolve` finds
nothing there, or what no approval hangs off.

Why the bounds are enough to meet the cases. In `store`, a head with retention 3
outlives an approval with retention 2, lapses, is deleted lazily, by `record` and by
`prune`, and is recorded again, all by tick 3; two responses let a result be
recorded over its own request or over another one; two approvals make the order,
the subset and the superset of a group wrong. A conversation only scopes the
keys, so one is enough there, and two are used where scoping is the question
(`server_scope`). In `gate`, four frames hold a `response.created`, another event, a
terminal one and one after it. In `server_decisions`, three turns are an
approval request and two that answer it, by the same or by contrary decisions, or
one that answers and one that goes on; the second start of the process is the one
after the crash. In `shared_store`, three responses
are a request and the results of two contrary decisions on it, which both
processes may have read as pending, and with two there are the ticks in which
clocks go stale and entries expire. In `fastapi_relay`, three frames are one before,
one with and one behind the completion. In `https_kit`, two commands are any pair of
setup, export and doctor, at once or one after the other. In `scripts`, one
revision adds a file to another and changes one, and the third cannot be exported.
Each property has a mutant, a small plausible bug in a
definition of the model, which TLC finds under the same configuration, so the
case each is about does happen within the bounds.

`CHECK_DEADLOCK FALSE` is set where the system stops: a finished stream, a
process that is not restarted, a turn or a script that has ended, a request that
was answered. The stores always have a next step.

Type invariants are conjuncts of a property of the runs (`IInv`, `SeenIsDurable`,
`FileIsConsistent`, `DirectoriesAreSafe`, `FramingIsExact`, `ScanIsExact`, `CleanedUp`), or
proved as theorems (`StreamGate`, `FastApiRelay`, `RequestContract`, `Showcase`,
`SourceExport`).

Symmetry is used in runs without temporal properties under fairness;
`server_liveness` uses none. The action properties and the ledger of `store` treat
all permuted values alike.

### Fairness

`AgentServer` assumes weak fairness of `GivesUp(t)` for each turn, nothing else:
what the timers of the server force, 60 s for the provider
(`AbortSignal.timeout`, server.mjs:320), 60 s for a write
(`RESPONSE_WRITE_TIMEOUT_MS`, 87-119), and ending a response whose frames are
written. No progress of the provider or the client is assumed. `TurnsEnd` says that
these timers suffice, and that no state of a handler is without one. The 10 s timer
of `shutdown` (422) is an action, `ForcedExit`, without fairness: that a shutdown ends
would say no more than that the timer fires.

`FastApiRelay` assumes weak fairness of `Run`, what the event loop does by itself,
and strong fairness of `Deadline`: the deadline is one of the whole stream, chunks
that keep coming do not put it off, and it can strike only while the generator
waits for the provider or for a write. There is none at the artifact, which is
yielded before `timeout_at` is entered (app.py:303-306), and none behind the end of
the stream, and `EndsOrWaits` says that these are the only places a turn can hang, at
a client that neither reads nor leaves.
`Showcase` assumes weak fairness of each turn's steps: its upload, its writes and
its pause have timers; the client owes nothing.

## 4. Proofs

`ResponseStoreProofs` proves, for all constants that satisfy the assumptions of
`ResponseStore`:

* `Invariance`: `IInv == TypeOK /\ UniqueRows /\ Covered /\ GroupAllOrNothing /\
  GroupComplete` is inductive. `PendingHasHead` alone is not: a decided row or
  one about to expire says nothing of its head, and `record` may drop a head at the
  tick where its approval lapses. `Covered` says that the head of every unexpired
  row, decided or not, expires no earlier than the row, which the `MAX` of the
  upsert and `PendingRetention <= OrdinaryRetention` keep true. `UniqueRows` is
  needed to conclude from matching `n` live rows in order that they are all the
  rows of the group;
* `TypeCorrect`, `NoStrandedApproval`, `GroupsShareFate`: the invariants of the run;
* `HeadsAreRetained`, `DecisionsAreFinal`, `DecisionsLeaveAResult`: the action properties, from the same
  invariant.

It also proves `StoreImplementsLedger`: `Spec => Ledger!Spec` under the
refinement mapping `mapping`, `open`, `decided` at the end of `ResponseStore`, which
reads only live rows. A tick is a `Lapse`, a deletion of expired rows a stutter.

`StreamGateProofs` proves every property of the gate for streams of any length.
Its inductive invariant says how the state of the gate sums up the frames it has
taken: `StateSumsUp` which of them ended or completed the stream, `CreatedSumsUp`
which id was announced last, together with what was relayed and withheld. The
properties speak of the whole stream, the gate remembers three fields of it: that
these three fields suffice is what the proof shows.

Its second part, `FramingExact`, is about streams of any length, cut into chunks
anywhere, and any maximum. Both the code and the reader go by the characters of what
they are given, so the proof needs induction over sequences. The library's theorems
for that take an operator; `Induction`, `SeqInduction` and `Recursion` say the same of
sets and functions, and follow from `NatLessThanWellFounded` and `WFMin` of the library.
`CutIsReadWhole` says that the loop of `#consume` is the reader, and `ReadsAgain` that what an
earlier chunk left may be normalised and read a second time, together with what
comes. The invariant is then that the frames and the buffer are those of the reader
on all that has arrived (`FramingInv`), up to where it was refused.

`ScanExact` is the third part: the scan against all of `JsonValues`, over any letters. The
loops of the scan are defined by what comes behind (`Descent`), so `BodiesFound` shows
that they find of a string what it was built from, wherever it stands. `Found` is
the set of texts over which the scan passes as it should: with the brackets open
that were before, or coming to a name a second time if and only if one is
repeated. It is closed under every rule of the grammar (`WordFound` to `MemberFound`), so
it has all texts (`PartsFound`), which are the least set that is. The invariant,
`ScanInv`, is that the scan is at a place from which it comes to such a name, or, if
there is none, to the end (`Leads`). That a scan which goes on reading names in a
string, or takes a value for a name, would leave these places is what the lemmas
about `Clear`, the colon behind a string, are for. `PartsBuilt` and `TextsAreJson` say that
the theorem is about something: all that the grammar builds is among `JsonValues`, and
so is what TLC scans.

`AgentServerProofs` proves the six safety properties of the server, for any number of
turns, conversations, provider responses and process starts, and `ImplementsStore`:
`Spec => Store!Spec`, so the tables the server writes are those of a `ResponseStore`. A
turn decides by what it read before an `await` and answers after others have run, so
none of the properties is inductive. The invariant relates each handler to the
tables: what was committed stays on file for its retention (`Kept`, `Requests`);
everything on file, and everything a turn decides or goes on from, was committed by
a completed turn of the conversation (`Origins`); the decision a turn acts upon is the
one on file (`DecisionsOnFile`); a turn goes on only from what nothing waits on
(`NonePast`); with the gate of the turn's stream and what its phase lets it write
(`Local`). That no second turn decides follows from `DecisionsOnFile` and from
`consumePending`, which takes pending rows only. Most steps commit nothing: what they
do to the tables is one relation, `StoreKeeps`, and to the turns another, `TurnsKeep`,
and the parts of the invariant are proved once for all of them.

`SharedStoreProofs` proves the invariants of the shared file and its two action
properties, for any number of processes. A call reads and writes in different
steps, by a clock it read earlier, so the invariant says of every call under way
what is still true of what it read (`Calls`). It rests on the ids: a response is
recorded by one call (`owner`, `Alone`), and a result stands for one set of
decisions (`Made`), so no key on file is written for a second purpose. Then of two
processes that read the same group as pending one consumes it and the other rolls
back, and a process that found a response on file and went on past it cannot have
missed an approval that came later. `FileImplementsLedger` is the refinement: each commit is one step of
`ContinuationLedger`, a tick a `Lapse`, and reads, sweeps and stale clocks are
stutters. A sweep by a stale clock deletes less than it might, never more; that
what a call commits has not expired by the time needs `BusyTimeout <
PendingRetention`.

`FastApiRelayProofs` proves the three invariants of the run, and that only completed
streams are stored, for streams of any length. Its invariant says
where the connections are by where the turn stands (`Connections`), that before the
commit only the artifact and what the gate relays are on their way (`Offers`), and
that what has been yielded and what is queued are in order together (`Orders`).

`RequestContractProofs` proves that accepted requests are safe, by the parsers and the
clock of the edition that accepts, that the showcase is stricter than the ordinary
route, and that the editions agree on `Portable` requests, for every set of requests.
Its invariant, `Judged`, says that a verdict is that of the validation and an answer
that of the outcome.

`ShowcaseProofs` proves `FilesAreAccountedFor` and `ContinuedWhereItRan` for any
number of turns, conversations and restarts. The invariant keeps what was sent a
prefix of the script (`Prefixes`), each file behind its upload, and the id each turn
carries that of its own conversation under the key it ran under (`OwnIds`).

`ScriptsProofs` proves `ImageIsItsRevision`, and that a run which ends unkilled
leaves no copy of the source, unless the removal itself throws and the run has failed
by it (`NothingLeft`). What makes `ImageIsItsLabel` inductive is that the
files of a context and those still to write make up the tree of the revision; what
makes `ExportWasCurrent` inductive, that `seen` starts anew with each file.

It also proves the three properties of the HTTPS kit, for any number of commands at
once, directories, CAs and acts of the operator. The invariant says how far each
set-up has got with its directory (`SetupInv`), what an export or a doctor knows
from what it has read (`ReaderInv`), that a directory is the kit's or the operator's
and its CA the one made in it (`DirectoryInv`), and that the container's CA is that of
its directory while the directory has its key (`CaddyInv`). `DoctorProves` needs the
last one: the handshake proves what is in memory, and the check of the private key
before it ties that to the disk. TLC found no counterexample to this invariant on
the instance of `https_kit` before it was proved.

Assumptions on the constants, and where the code makes them true:

* `None` is no id, no CA and no listing (`NoneAssumption`, `TreeAssumption`): `null`,
  `undefined` and a missing file are neither strings nor lists;
* result ids are not provider ids (`IdsAreDistinct`): they are `resp_demo_` and a
  digest, `approval-demo.mjs` 54-83;
* `PendingRetention <= OrdinaryRetention`: 7 and 30 days. The theorems of `AgentServer`
  do without it;
* `BusyTimeout < PendingRetention`: 5 seconds and 7 days;
* no letter has a part in the structure of a text (`LettersAssumption`): the letters are
  all other characters;
* `ScanExact` is about `Sources \subseteq JsonValues`: a text that is none is refused
  whatever the scan says, since `JSON.parse` stands behind it in the same `try`
  (state-store.mjs:444-450);
* the bounds of TLC's instances, and `maxFrameCharacters`, are natural numbers, of any
  size.

Only model-checked:

* `CleanedUp`: `SmokeRun` has no constants, so TLC explores all of it;
* `TurnsEnd`, `EndsOrWaits`, `Ends`: liveness under fairness, which
  needs ENABLED.

## 5. Where documents and code differ

* `contracts/stateful-v1.md:86`: "Unknown provider errors become generic 502
  responses." `node/server.mjs:392` answers 500 for an error without a status: a
  fetch that fails or times out, and an error body that breaks off or is too large.
  `fastapi/app.py:276` does not catch `httpx.HTTPError`, which `read_bounded_error`
  raises when the error body breaks off: it answers 500 and closes neither the
  response nor the client. The run `contract_errors` shows the status; `ClosedWhenOver`
  excepts the path by name.

Described only, and excepted by name in the properties or left out:

* `ARCHITECTURE.md:3` has two equivalent servers. `fastapi/state_store.py:476` and
  491 take lines with `splitlines()`, which ends one at CR, U+2028 and others too;
  `node/state-store.mjs:406` and 423 at LF only. `strip()` and `trim()` differ at
  U+FEFF, U+0085 and U+001C to U+001F, and the maximum of a frame is in code points
  there and in UTF-16 units here. `SseFraming` models Node only.
* `ARCHITECTURE.md:36`: both servers validate the same request.
  `fastapi/contract.py:226` takes a null `previous_response_id` for none,
  `node/contract.mjs:262` refuses it; texts outside the basic plane at their longest,
  U+FEFF or U+0085 at an edge, and model URLs with several slashes at the end are
  judged differently. So are URLs that `new URL()` and `urlparse()` read differently
  (hosts that are decoded, dots in a path, an empty parameter), dates that only one
  of `Date.parse` and `datetime.fromisoformat` knows, such as a 30th of February, and
  leases that expire within the millisecond (`Portable`).
* `docs/en-US/private-https.md:59`: the doctor fails unless `/readyz` returns 204.
  `scripts/https-kit.mjs:514` settles on `end` and `error` only; a connection that
  closes within the body leaves the promise pending and the exit code 0 (`Drain`).
  The same function keeps the smoke from its `finally` block (`Unsettle`).

## 6. Not modelled

See `components` in `PROJECT.json`. Stateless request checks (health, readiness,
authorization), the agent profile, deployment files and the sequential repository
checks keep no state that could become inconsistent. The local fixture is a test
double of the provider, which `AgentServer` lets stream anything. Of the HTTPS kit,
symbolic links, modes and owners are left out: refusals that depend on nothing the
commands do. Nothing in the kit keeps two set-ups that both found no configuration
from replacing each other's; the properties say what holds all the same.

## 7. Plan

The automaton of the FastAPI gate against `StreamGate`, and a gate record in
`FastApiRelay` in place of an outcome; then `FastApiRelay` over `SharedStore`, as
`AgentServer` is over `ResponseStore`.
