# kirogo in TLA+

kirogo is a gateway: it offers an OpenAI and an Anthropic API to local clients and answers
them with the Kiro backend's streaming API, using the credentials Kiro IDE or kiro-cli left
on the machine. These modules model the parts of it whose difficulty is concurrency,
failure and ordering, check them with TLC and prove the most important properties with
TLAPS. Line numbers are those of the Go source.

## The system

| Part | State | Operations | Talks to |
|---|---|---|---|
| Token manager (`internal/auth/manager.go`) | credentials, the refresh in flight | `Token`, `ForceRefresh`, `runRefresh` | auth server, the credentials file, every request |
| Credential sources (`internal/auth/creds.go`, `discover.go`) | a file shared with other tools | load, `Save` | token manager |
| Kiro client (`internal/kiro/client.go`) | none between calls | `doWithRetry` for chat and model list | token manager, backend |
| Event stream (`internal/kiro/eventstream.go`, `events.go`) | decoder buffer, sticky failure | `Next`, `ParseEvent` | streaming core |
| Streaming core (`internal/api/stream_core.go`) | one session per attempt, a collector per request | `openStream`, `awaitFirstToken`, `apply`, `finish` | Kiro client, the two surfaces |
| OpenAI and Anthropic surfaces (`internal/api/openai*.go`, `anthropic*.go`) | SSE position, open block | the four consumption loops | streaming core, client |
| Model catalog (`internal/catalog/catalog.go`) | list, age, refresh mutex | `Refresh`, `EnsureFresh`, look-ups | Kiro client, handlers, startup |
| Name and effort resolution (`resolve.go`, `effort.go`) | none, reads the catalog | `Resolve`, `ResolveEffort` | catalog |
| Translation (`internal/translate`) | none | `FromOpenAI`, `FromAnthropic`, `Build` | surfaces |
| Startup and shutdown (`cmd/kirogo/main.go`) | attempt count | `loadCatalog`, graceful stop | catalog, server |
| SQLite store, configuration, middleware, utilities | none that lasts | parsing, checks | startup, surfaces |

A chat request makes sure the catalog is fresh, resolves the model, translates the
conversation, opens an upstream stream (which takes a token, and retries), and copies the
events to its client until the stream, the output ceiling or the client ends it.

What is hard: callers that share one token refresh while other tools rewrite the same
file; a 403 racing a refresh; retries nested in retries; a first-token timer racing the
first output; a decoder goroutine per session that must end when its session is given up;
refreshes of the catalog that overlap requests; startup before the network is there. What
makes each part correct is stated below, module by module; `PROJECT.json` lists every
hazard at its line, with the properties that cover it, or the reason why none does.

## Modules

| Module | Models | Uses |
|---|---|---|
| `TokenRegister` | abstract: what callers of the token manager may rely on | |
| `TokenManager` | `Manager` with its refresh goroutine, `Save`, crashes, other tools | refines `TokenRegister` |
| `MCTokenManager` | the TLC instance with its symmetry | `TokenManager` |
| `TokenManager_proofs` | four invariants and the refinement, proved | `TokenManager`, TLAPS |
| `RetryClient` | one call of `doWithRetry` | |
| `Gateway` | the three retry loops together, from `openStream` to the network | `RetryClient` |
| `Gateway_proofs` | four invariants of one call, three of a request, proved | `Gateway`, TLAPS |
| `FrameChannel` | abstract: what a session may rely on when it reads a response body | |
| `EventDecoder`, `MCEventDecoder` | `Reader`, `Decoder` and `ParseEvent` over a body in pieces | refines `FrameChannel` |
| `EventDecoder_proofs` | its type invariant and the refinement, proved | `EventDecoder`, TLAPS |
| `StreamSession` | one client request from `openStream` to the end of its loop | |
| `StreamSession_proofs` | four invariants, proved | `StreamSession`, TLAPS |
| `Catalog` | `Refresh`, `EnsureFresh`, `loadCatalog` | |
| `Lifecycle` | the process from its credentials to its end | `Catalog` |
| `Lifecycle_proofs` | three theorems of the catalog, three of the process | `Lifecycle`, TLAPS |
| `ModelResolve`, `MCModelResolve` | `Resolve` and `ResolveEffort` while the catalog changes | |
| `ModelResolve_proofs` | three invariants, proved | `ModelResolve`, TLAPS |
| `Translate`, `MCTranslate` | `FromOpenAI`, `FromAnthropic`, `Build` on a growing conversation | |
| `Translate_proofs` | five invariants, proved | `Translate`, TLAPS |
| `Response`, `MCResponse` | the collector and the writers of both surfaces, event by event | |
| `Response_proofs` | five invariants, proved | `Response`, TLAPS |

Definitions whose name contains an underscore (`Apply_ClearsEarly`) are faulty variants of
the definition before the underscore. No specification uses them; they show which mistake
in the code each property would notice.

### TokenManager

Tokens and refresh tokens ("grants") are numbers in the order the auth server issues them,
0 is the empty string. `creds` is `*m.creds`, `inflight` is `m.inflight`, and `call[k]` is a
`refreshCall` with the local state of the goroutine that runs it. A step is what the code
does under one acquisition of `m.mu`, or one effect outside it: so the windows between
copying the credentials (296-298), the exchange (307-310), applying the answer (339-354),
`Save` (358), clearing `inflight` (287-292) and closing the channel (293) are all open to
everyone else. `Save` works on the shared struct after the unlock, and is split where that
matters: it reads the access token (`SaveReads`), then the rest, and publishes with a rename
(`SaveRenames`), or fails somewhere (`SaveFails`). `call[k]` objects are given back when
nobody refers to them, as the garbage collector does; `Calls` must have at least as many
elements as there can be at once, which for two callers is two.

Around it: the clock makes a token due and then expired (`Tick`), another tool spends and
replaces the grant (`OtherToolRotates`), the process crashes and reloads (`CrashAndRestart`),
callers give up when their context ends.

`window`, `unsaved` and `lost` are history variables. `window[c]` is the set of tokens that
were current since `c` began to wait; it is also the abstract register's variable.
`unsaved` and `lost` say that something happened which no program could make up for: a
write failed, a reply was lost, the process died. `lost` is set too when `Save` renames its
file over a grant that another tool had just stored (`OverwritesLiveGrant`): `creds.go:359`
does not look at what it replaces. `GrantNotDropped` excuses both the crash between the
server's answer and the rename, which nothing could mend, and this overwriting, which is a
weakness of the code. They are listed as hazards that no property covers.

Checked by `token_safety` (two callers, a writable source, three access tokens, one
rotation, one crash; 685k states): `SingleFlight`, `SavedPairIsCurrent`, `GrantNotDropped`,
and that the module implements `TokenRegister`. Three tokens give two refreshes in a row,
so a second may start before the first one's waiters have run; two callers give a leader
and a joiner, in either order, and one caller that leaves early. Callers and calls are
interchangeable, and no liveness is checked in that run, so symmetry is sound.
Checked by `token_liveness` (no symmetry, a source that is not written): `WaitersAreReleased`.

### RetryClient

`saw` is the sequence of outcomes so far, `held` is `lastRetryable`, `lastErr` is itself,
`open` is the set of attempts whose response still holds a connection. The backend answers
anything at each attempt; tokens and refreshes succeed or fail; the context is cancelled at
any moment. The body of a 403 and of a busy answer is read in a step of its own (`pc` is
`"drain"` or `"buffer"`: `drainAndClose`, `bufferResponse`), because nothing bounds how long that
takes. Its properties are that no response but the one being read or returned keeps its
connection (`ConnectionsReleased`), that "sign in again" is said only after nothing but 403s
(`RejectedMeansAllForbidden`) and that a kept response is the newest of its kind
(`KeptResponseIsNewest`). It may be older than the last attempt, and it gives way to a network
error in the last attempt; both are what the code does and outside the property (see the
divergences below). They are checked in run `gateway`, where every call of a request goes
through this module.

### Gateway

One client request through all three loops: `openStream` (with its one restart without
reasoning), `openStreamOnce` (`attempt`, up to `Attempts` sessions), and in each session one
call of `doWithRetry`, which is `RetryClient` as it stands: `Call` is a step of it, and
`NewCall` sets its variables back, except `open`: a connection that was forgotten stays
forgotten. `phase` says where the request is: between two sessions (`"again"`), in the call,
reading the body of a refusal (`"refusing"`: `ReadErrorResponse`), awaiting the first output, or
at one of its three ends. Each way out of `startSession` and of `awaitFirstToken` is an action of
its own, which closes the session (`Close`) or does not (`GoOn`) as the code does there: a first
output, the timer, an empty body, a client that has gone, a broken body. What the session
does with its events is `StreamSession`'s business. `sends` counts what reaches the network.

Run `gateway`: `MaxAttempts = 3` as in the code and two sessions per shape of the request, so
that every loop goes round and the restart happens on each of them. `SendsBounded` says how
the loops multiply: a backend that answers every token with a 403 is asked `Attempts * MaxAttempts`
times with as many forced refreshes (nine each with the default settings), because
`ErrTokenRejected` is not an API error and is worth another session; a refused signature
allows for as many again, once. `HoldsOneConnection` follows a connection through the layers
that hand it on: nothing is open between two sessions, nor once the request has failed or its
handler has returned, and what is awaited or read is open. Leaving out any one of the
`Close`s violates it; two of them are mutants.

`RequestSettles` is the liveness of the whole: the request is served or answered, also while
its context is cancelled in a backoff that does not look at it. It has an exception that the
code has: `drainAndClose`, `bufferResponse` and `ReadErrorResponse` (client.go:395, 418, 424) read
the body of an error through a client without an overall timeout (127-138), and
`ResponseHeaderTimeout` has ended with the headers. A backend that answers 403, 429, 5xx or any
other error and then stalls holds the request for as long as the client stays
(`ReadsErrorBody`). The property says that nothing else can hold it, and that this cannot once
the client has left.

### EventDecoder

A byte is known by its place, `[frame, at, sound]`, so that a buffer of bytes can be
compared with the frames upstream sent. Upstream writes frames from `Frames` and may end the
body; the wire cuts the body at any byte (`Cut`), damages or loses one byte (`Damage`), and a
read returns up to `Chunk` bytes (`Read`) or an error (`ReadFails`). `Verdict` is
`Decoder.Next` on its buffer, prelude first; `Decode`, `Refuse`, `NeedsMore` and `EndOfInput` are
what `Reader.Next` makes of it. A CRC matches exactly the bytes it was made for: the one
idealisation. A frame whose length fields lie under a correct CRC is in `Frames`, its
`section` being the headers the claimed bytes begin with.

`whole` is a history variable: how many leading frames are sound and arrive undamaged. Under
the mapping `written <- ` the events of those, the module implements `FrameChannel`, whatever the
cuts: a session gets the events of a beginning of the stream, in order, and anything else
ends it as an error, never as a clean end. `TypeOK` carries the bound on the buffer: more is
asked for only below the largest acceptable message, whatever a length field claims.

Run `decoder`: two frames out of ten kinds (sound ones with and without headers, an exception
with a broken body, a payload that is not JSON, a value type from the future, four pairs of
lengths that cannot be), preludes of two bytes, trailers of one, reads of up to three: every
field is cut at every place. Reading the code for it showed that a non-EOF read error drops the
frames that came with it (eventstream.go:411-423), which `ReadFails` models, and that
`failed` is never asked again, since a session stops at the first error.

### StreamSession

One request: the handler (`pc`), and per session a decoder goroutine with its bounded
channel. `attempt` is `openStreamOnce`'s, `stripped` is `openStream`'s. Opening is
`RetryClient`'s and `Gateway`'s business and appears as success, failure or rejection. Upstream sends
bookkeeping, output, exceptions, breaks the body or ends it, or stays silent. The select of
`awaitFirstToken` is a nondeterministic choice between a fired timer, a cancelled context
and the channel, as in Go. Of the four consumption loops, the two streaming ones look at
the client's context after each event; `streaming` tells them apart.

Two attempts, a channel of one and two events per session are the smallest values with a
retry after a silent, broken or empty session, a full channel in front of a blocked
decoder, and something to put out of order (run `stream`). A session that was given up
is blurred (`GiveUpOn`): only how full its channel is and whether its decoder still runs can
matter. Checked: `DeliveredInOrder`, `NothingLost`, `OneConnection`, and the liveness
properties `OpenSettles` (the waits for a first output end and the attempts run out, unless one
`startSession` goes on for ever, as it may behind an error's body) and
`NothingOutlivesTheRequest`.

### Catalog

Upstream's catalog is a version number that changes during fetches; a fetched list is
known by the first and last version that gave it a page and by whether it has any model.
A fetch fails for one of five reasons (`Errors`), of which startup waits through three: a
failing network, but not one that fails for good (TLS, a proxy, a cancelled call), a token
refused and an empty catalog. `holder` is `refreshMu`. The main goroutine (`Boot`) runs `loadCatalog`, and requests start
only once it is up (main.go:90 before :125). Two requests, two pages, three versions: a
fetch that spans a change, and a second one queued behind it. Its properties
`ServesModels` and `NeverGoesBack` are checked in run `lifecycle`.

### Lifecycle

`run` in `main.go` around the catalog: the credential sources in their order, with the ones
that end startup (`Configured`) and the ones that pass on (`Ask`); the catalog's own steps while
the process lives; serving, a listener that fails, a signal, and `Shutdown`. A signal kills the
process until `NotifyContext` catches it (main.go:121), so startup dies at once. Requests come over open connections, so also when
accepting has failed and while `Shutdown` has not found their connection idle. `RunSelects` is
the select: when a failed listener and a signal meet, either wins, so a listener that failed
may be reported as a clean stop. A second signal while draining does nothing (the context is
done already), and `errCh`'s nil branch is dead: `ErrServerClosed` cannot come before `Shutdown`.

Run `lifecycle`: two requests past the TTL, two pages, three versions of upstream's catalog,
three startup attempts. `RequestsGoOn` and `ProcessSettles` are its liveness; `CleanExitIsDrained`
says that a process that reports a clean stop has let every request finish.

### ModelResolve

A name is a sequence of atoms (words, numbers, marks), and the regular expressions of
`NormalizeModelName` are sequences of sets of atoms; so patterns, suffixes, "contains" and
versions are what they are in the code, without characters. Names are in lower case already,
and no atom is part of another. `Resolve` is split at each look-up, because each takes the read lock for itself
and a refresh may replace the list in between (`Swap`); `seen` remembers the lists.

Run `resolve` starts with every list over four models and auto, in two variants of what they
offer, and calls with 23 names of every kind: aliases, dated, inverted, with an effort, with
an effort that is part of an id, with a part of an id. `AdvertisedIsServed` ties it to
`/v1/models`: what is offered all the time resolves to itself. `AgreesWithLists` is the
reference: `AtOnce` says in one formula what one list makes of a call, and a call that saw
several lists gives what they agree on. Where they do not agree, a call may give what neither
would: `gpt-5.1-codex-max`, looked up in a list without it and then in one with it and with
`codex`, becomes `codex` at effort `max`. `TypeOK` holds what the backend insists on: an effort is
sent only to a model that offered it.

`AgreesWithLists` supposes that ids are in the form `NormalizeModelName` produces
(`IdsAreNormal`), `AdvertisedIsServed` also that none is kirogo's own alias or read as the variant
of another (`x:high`; `IdsAreOrdinary`). The lists of the run are like that. Nothing in the code
checks it of what the backend lists. An id in another form is advertised but
not found under its name, because only names are normalised (resolve.go:313-320), and one
that reads like a variant stands twice in the listing.

### Translate

A client sends its conversation again with every turn, so a step appends a turn and
translates it all. Text is a sequence of atoms, one per piece the client sent; a rule that
turns a result into text moves its atom, one that joins turns concatenates. `Build` is the
composition of the rules in the code's order. The turns of `MCTranslate` are those that make
rules meet: parallel calls answered in two turns, results without a call, without an id or
on the assistant's side, calls on the user's side, images everywhere, empty turns, system
turns in the middle. Four turns are enough for a call, the other side, and two answers.
`AnswersStayResults` states rule 7 from the client's turns and not from the merged ones, so
it fails if the rules run in another order. `FittingArriveOnce` says of every piece what becomes
of it: one that has a place upstream (`Fitting`) arrives exactly once and in order, one that
has none (`Misfits`) never does. Misfits are calls on a user's turn when tools are declared,
and on an assistant's turn its images and those of its results. The code drops them without a
word; a comment says that calls are kept (below). Schema sanitizing, strings of blanks and the
payload limit are left out.

### Response

`c` is `collected`, `w` the SSE position and the `anthropicBlockWriter`, with the frames sent
so far; `seen` remembers what upstream sent, for the properties. A step takes one event
through `apply` and `emit`; the end of the stream, its breaking and the release at the
ceiling lead to the code after the loop. `CeilingMet` compares the two counters with a
definition that knows nothing of them: the longest beginning of upstream's output whose
estimate fits. The float multiplication of `ApplyClaudeCorrection` is exact integer
arithmetic below 100 tokens; the runs stay below 10. Four events are enough for two
interleaved calls, for a cut in the middle of an event of either counter, and for a
signature that comes after its block. `WellFormedStream` has each delta in a block of its kind
(`Belongs`); a signature may stand in a block of thinking or of redacted thinking, the second
because the code puts a late one there (below). Usage accounting (`usageReport`) is not modelled.

## What the code does that its comments do not say

Each is a run that violates one property, written from the comment; `PROJECT.json` has the
details.

- `token_forced`: `ForceRefresh` may return, as a success, the token that was just rejected.
- `stream_stall`: the gap between chunks is not bounded by anything once output has begun.
- `response_paths`: the finish reason of a stream that broke differs between streaming and not.

Smaller ones, met while reading and without a run: requests that find the list stale
together fetch it one after the other (catalog.go:117-118 against 248-261), since nobody looks
again after waiting for the mutex; several thinking blocks of one turn are sent upstream as
one text under the last one's signature (message.go:91-92 against anthropic.go:237-244);
a database in WAL mode is refused even after kiro-cli has been closed, as the advice in the
error says (store/sqlite.go:78 against 105), because its header goes on declaring WAL mode;
`doWithRetry` may return an older attempt's response after the last attempt (client.go:260-262
against 373), or drop it for a network error in the last one (328-329 against 354-355); startup
waits through an empty catalog and through a token refused on every attempt (main.go:172
against 209-223).

Three more were met while stating properties; each is what a passing property allows, because
it is what the code does:

- Calls on a user's turn and results on an assistant's are kept "so nothing is lost"
  (translate/anthropic.go:127-134), but `userInputMessage` has no place for the calls when tools
  are declared, and `assistantMessage` none for images, a result's included: they are dropped
  (`Misfits`).
- A signature "only makes sense inside the thinking block" (anthropic_stream.go:43-45, 69-70).
  One that waits for its block is sent in whatever block of thinking is closed next, and
  `redactedThinking` closes its block as one (117-128): so it may stand in a redacted block
  (`Belongs`).
- A request is not bounded by the timeouts of main.go:116-118 while the body of an error stalls
  (`ReadsErrorBody`, above).

## Bounds and fairness

Bounds: `MaxTurns` (turns of a conversation), `MaxToken`, `MaxGrant`, `MaxCrash` (what the auth
server issues, crashes), `MaxEvents` (events per session or stream), `MaxVersion` (catalog
versions), `MaxSwaps` (refreshes during one look-up), `MaxFrames` (frames of a body).
`MaxAttempts`, `Attempts`, `Capacity`, `MaxPages`, `BootAttempts`, `Prelude`, `Trailer`,
`MaxMessage` and `Chunk` are constants or settings of the code, smaller in some runs
(`Capacity` is 64 there, `MaxPages` 10, `BootAttempts` 6, `Prelude` 12, `Trailer` 4).
`CHECK_DEADLOCK FALSE` stands where the system may stop: a call that returned, a request
that is over, a process that has ended. The token runs do check for deadlock.

Fairness is weak fairness of what the code itself drives. The refresh goroutine goes on: its
exchange is bounded by 30 s and 45 s timeouts. A receiver of a closed channel wakes. A call of
`doWithRetry` goes on, its exchange ends by `ResponseHeaderTimeout`, its sleep by its length;
reading the body of an error is not obliged to end before the context does. The same holds of
opening a session in `StreamSession`. The stream handler goes on, its timer fires, a read of a
closed body returns. A page of the catalog ends by the HTTP client's timeouts. `run` goes on, and `Shutdown` within its ten
seconds. Strong fairness appears once: a goroutine that waits for `refreshMu` gets it, which
Go's mutex ensures in starvation mode. Nothing obliges the auth server to honour a grant,
upstream to send or to end, a client to leave or to read its answer, a tool to refresh or an
operator to send a signal. `StreamEnds` is refuted under exactly this fairness, by a stream
that has begun: silence of upstream is allowed.

## Proofs

Proved for all values of the constants, with `ASSUME`s that TLC evaluates in the runs. Each
inductive invariant was also checked by TLC on an instance.

`TokenManager_proofs`. The assumption is `ConstantsAssumption`: `NoCall` is not a call and the
bounds are natural numbers. None of the properties is inductive. `IInv` adds to them: nobody
holds a token that has not been issued (`IssuedInv`); what a refresh carries, stage by stage,
against the credentials that only it may change (`Carried`: the grant it sent is the one in
memory, its reply is newer than what is in memory, the token it will hand out and the one
`Save` has read are the current one); what each waiter may be handed (`Answerable`); and that
the source is up to date when no `Save` is due or under way (`SavedInv`). The argument: by
`SingleFlight` a step of a refresh leaves no other call running, so only its own `Carried` has
to be looked at again; `Effects` says field by field what each step does to its call, and every
later lemma uses that instead of the record updates. The theorems are `TypeCorrect`,
`OneRefreshAtATime`, `SavedFileIsCurrent`, `GrantIsKept` and `ManagerIsARegister`: every step of
`TokenManager` is a step of `TokenRegister` or leaves it alone.

`Gateway_proofs` begins with one call, for any number of attempts: `TypeCorrect`,
`NoConnectionLeaks`, `RejectedOnlyByBackend`, `NewestIsKept`. What the loop keeps in its two
variables has to be related to the attempts made so far (`LoopInv`). A step of a request is a
step of a call, begins a new one, or leaves the call that has returned as it is but for its
connection; so the same invariant carries over, and gives `CallsReleaseConnections`.
`SessionInv` says phase by phase what is open and what the call has returned
(`HandedOpen`), from which `OneConnectionIsHeld` and `SendsAreBounded` follow. For the last, the
invariant says how many sends the sessions before this one account for at most, and that
the call of this one has sent no more than it has made attempts.

`EventDecoder_proofs`, for any set of frames, sizes of prelude, trailer, buffer and reads, and
length of a body: `TypeCorrect`, with the bound on the buffer, and `ReaderIsAChannel`, the
refinement. The assumptions are `DecoderAssumption` (a frame is no shorter than the smallest
message, a prelude has two bytes or more, the largest message holds the smallest) and
`TypesAssumption` (no event type is both decoded and ignored). The invariant is about `Rest`, the
bytes not decoded yet, in the buffer or on the wire: each stands in a frame that was sent
(`PlacesInv`), in the order of the frames (`SortedInv`); every frame up to `whole` that is not
decoded stands in it from its first byte to its last (`WholeInv`); if frames beyond `whole` were
sent, something of the next one is left and it cannot pass for a whole one (`SpoiledInv`);
and what the wire has not damaged has no gaps (`GaplessInv`, `EndsFrameInv`), without which the
loss of a byte could leave nothing behind of a frame and look like a clean end. Reading moves
bytes inside `Rest` and changes nothing else. Writing, cutting, damaging and decoding are
each described once as a relation between two sequences of bytes (`Adds`, `Shortens`, `Spoils`,
`Decodes`), with a lemma about what it keeps; that the actions are such relations is all that is
proved about `SubSeq` and concatenation. Then `NextFrame` (what is accepted is the next whole
frame), `WholeAccepted` (a whole frame is neither refused nor waited for at the end) and
`NothingWhole` (where none is left, something spoiled is left, or nothing) give the steps of the
channel.

`StreamSession_proofs`, for any number of attempts, capacity and length of the streams:
`TypeCorrect`, `EventsInOrder`, `EventsAreComplete`, `ConnectionIsHeldOnce`. The invariant counts
the sessions the attempts can have opened (`CountInv`, the restart included), says where the
handler keeps what it has taken (`BufferInv`), and, its core, that what is on its way goes on
from there (`Flow`: the events in the channel and the one the decoder holds carry the next
numbers without a gap, an error comes last). `FlowTail` and `FlowError` say what taking an item
leaves of that; then each action needs a few lines.

`Lifecycle_proofs`, for any number of requests, pages, attempts and versions, begins with the
catalog: `TypeCorrect` (only the holder of the mutex is past it), `ModelsAreServed`, and the
action property `ListGoesForward`: a fetch that holds the mutex began after the list was
installed, so its first page is no older than that list's last. It then takes the catalog's
invariant into the process: `ProcessTypeCorrect`, `CleanStopIsDrained`, `ProcessServesModels`.

`Response_proofs`, for any events, any number of them and any ceiling: `TypeCorrect`,
`StreamIsWellFormed`, `StreamIsCollected`, `CeilingIsMet`, `CallsArriveWhole`. `WellFormedStream`
says nothing of what is still to come, so `Formed` adds the position the writer is in: as many
blocks stopped as started, or one more if one is open, whose index is the writer's
(`WriterInv`). `Effect` and `Quiet` say what one operation of the writer adds to the frames: a
text, a thought, calls, or none of them; the composite operations are chains of those.
`Cut` says that what was collected is a beginning of upstream's output and that not one more
rune would fit, `TakeIs` that a take inside one chunk stops at the same rune as a take rune by
rune would, for which the estimate has to be monotonic. `ToolsInv` relates the accumulator to
the events that were seen: the calls are those begun, each with the fragments that belong to
it, and the last is the one a fragment without an id extends. The sequences are built with
`FlattenSeq` and recursive functions, not with folds, because of those the prover can be told
that they exist and are unique (`RecursionExists`, `RecursionUnique`), and because two of them
that agree in each element are the same. Where an induction is needed, it is over the length
and by the least counterexample (`LeastOf`).

`ModelResolve_proofs`, for any names and number of refreshes: `TypeCorrect`, for any lists;
`ListsAreFollowed`, for lists whose ids are in normal form (`IdsAreNormal`); `ListingIsServed`, for
lists whose ids are ordinary in all ways (`IdsAreOrdinary`). The two are hypotheses of the
theorems, about the backend. What a call has found out at a look-up need not be true
at the next, so the invariant (`Progress`) is about the lists that were current during the call:
for each candidate passed over there is one that does not have it (`Missed`), or one whose ids
do not correct it (`Unhelped`), and what is found is in one of them (`Answered`). All of these
stay true when lists are added (`MoreLists`), so a refresh needs one line. If all lists give
the same answer, `AtOnceIs` (which of the three kinds one list's answer is) leaves the call no
other. That the newest version exists, which `AutoCorrect` chooses, is `NewestExists`, by the
least set without one; `NewerIsOrder` is what it needs of versions. `MCModelResolve` has TLC
evaluate `IdsAreOrdinary` for the lists of the run.

`Translate_proofs`, for any conversation of any number of turns: `TypeCorrect`, `SidesAlternate`,
`ResultsAnswerCalls`, `FittingPiecesArrive`, `PromptLeads`. The assumptions are what a setting may
be (`SettingsAssumption`) and what each decoder makes of its client's turns (`TurnsAssumption`:
an OpenAI tool turn has one result and nothing else, its calls are the assistant's, a system
turn is text). A step translates the whole conversation anew, so the invariant of the
specification is no help with a longer one: what has to be inductive is a statement about
conversations, `Ledger`, which says how a conversation `c` stands in the merged messages `U`,
the results `P` that wait for a user's turn, and the system text `S`:

- `Books`: all that `c` holds with a place upstream is in `U`, `P` or `S`, in number and in elements
  (`Balance`), and nothing in a message is older than anything in a message before it
  (`InOrder`);
- `Answering`: the calls a next result may answer, told from the client's turns (`Calling`),
  are those of the last assistant's message (`Called`), and every result stands right after
  the calls it answers, or waits and will;
- `S` is the system turns of `c`.

Both surfaces enter a turn in one of four ways (`Entered`: to the prompt, to what waits, as
the assistant's message after a flush, as a user's with what waited), and each of them keeps
the ledger (`BooksEntered`, `AnsweringEntered`, `SystemEntered`). `SeqInduction`, induction over
a sequence stated for a set, gives it for every conversation (`OpenAILedger`,
`AnthropicLedger`). That merging can be followed turn by turn while the code converts all
turns first is `MergeDef` and `MergedIs`: merging is itself a step per message, which puts it at
the end or joins it to the last.

`Build` then acts on each merged message alone: `ToolRulesAre` shows the tool rules to be a map
(`Ruled`) that looks at the calls of the message before, `FirstIs`, `PlacedIs` and `ClosedIs`
what the placeholder in front, the prompt and the closing turn change. So `BuildShape` needs
only that merged messages alternate; `EnsureAlternating` has nothing left to do after merging.
For `FittingPiecesArrive`, a message carries the same pieces before and after the rules
(`RuledCarries`: a result inlined as text is the same piece), formatting drops no more than its
side cannot carry (`EntryCarries`), and the prompt is all that placing it adds (`PlacedCarries`). That misfits never arrive
(`MisfitsStay`) is that each piece is of one kind (`PartKinds`), and what arrives is what fits.
For `ResultsAnswerCalls`, the tool rules keep a result exactly if `CallsBefore` has its call,
and `Answering` says that these are the client's. For `PromptLeads`, a converted message holds
no placeholder at all, so the only ones are those that `Build` puts in, alone.

TLC evaluated the parts of the ledger on every conversation of the `translate` run. Recursion in `Translate` is written as functions, for the reasons
given for `Response`.

Only model-checked: all liveness (`WaitersAreReleased`, `RequestSettles`, `OpenSettles`,
`NothingOutlivesTheRequest`, `RequestsGoOn`, `ProcessSettles`), which needs `ENABLED` and is out
of the prover's reach. Every safety property of a passing run is proved.

## Not modelled

- The SQLite reader (`internal/store`): a file is read into memory once, at startup, and
  decoded by a pure function; nothing is kept, and what could be checked is a byte format
  against itself. That startup asks this source last, and what it does when it fails, is in
  `Lifecycle`. The reader takes none of SQLite's locks: a database that kiro-cli is just
  committing to, without a WAL, may be read half old and half new.
- Configuration (`internal/config`): settings are parsed and validated one by one, before
  anything runs.
- Routing, API key, CORS, panic recovery (`internal/api/server.go`, `middleware.go`): one
  decision per request, without state.
- Token accounting (`usageReport`, `count_tokens`): arithmetic at the end of a response.
- The schema sanitizer (rules 8 and 9 of `Build`), strings of blanks, the payload limit.
- The formats of the refresh requests, the status mapping of `errors.go`, random ids,
  redaction, logging, wording and layout.
- The encoder in `eventstream.go`, which only the tests use.
