# openclaw-connector: TLA+ models and proofs

This directory is a verification development for the OpenClaw connector, the
plug-in that keeps an OpenClaw agent registered with a UniAgentGate gateway,
holds a WebSocket to it, and turns the gateway's requests into agent turns. The
models are translated from the TypeScript under `src/src/` (paths below are
relative to the repository root's `src/`). TLC checks them on small instances;
TLAPS proves the theorems named below for every value of the constants.

## 1. The system

| Component (source) | State it keeps | Operations | Model |
|---|---|---|---|
| Connector runtime (`src/runtime.ts`, `src/reconnect.ts`) | `stopped`, `activeHeartbeat`, `reconnectController`, the token and flags of each pass of `start()`'s loop; per reconnect loop `cancelled`, `activeSession`, `attempt` | `start`, `stop`, register with retries, HTTP heartbeat loop, reconnect loop, close handling | `ConnectorRuntime` |
| WebSocket transport (`src/gateway-ws-client.ts`) | the socket, `accepted`/`settled`, a heartbeat timer | `connect`, `send`, `close`, message, error and close events | `GatewayWsTransport`, over `WsSession`; `send` in `EnvelopeRouter` |
| HTTP client (`src/gateway-http-client.ts`) | none | register, heartbeat | its answers are inputs of `ConnectorRuntime` |
| Start guard (`src/runtime-start-guard.ts`) | a registry on `globalThis`, a lock directory with a pid file | `acquireRuntimeStart`, `release` | `StartGuard` |
| Ack tracker (`src/ack-tracker.ts`) | map of pending acks, `closed` | `send`, `handleAck`, `close` | `AckTracker` |
| Dedupe cache (`src/dedupe-cache.ts`) | map of acks with times | `has`, `get`, `add` | `DedupeCache` |
| Envelope router (`src/envelope-router.ts`) | none of its own; the cache, the tracker and the socket | `route` | `EnvelopeRouter` |
| Turn handling (`src/inbound-handler.ts`, `src/outbound-handler.ts`) | `activeAborts`; per turn `seq`, `transportLost` | `handle`, `deliver`, `interrupt`, the `send*` events | `Turns`; with the connections around it `InboundPath` |
| Channel gateway bootstrap (`src/channel-gateway.ts`, `src/channel.ts`, `index.ts`, `src/plugin-runtime.ts`) | the lease, `currentSend`, the runtime | `registerFull`, `startAccount`, `startConnectorRuntime`, `stop`, abort | `ChannelGateway`; `currentSend` in `InboundPath` |
| Outbound media (`src/outbound-media.ts`, `src/outbound-reply-payload.ts`, `src/s3-uploader.ts`) | none | classify, resolve, upload, merge URLs | `OutboundMedia` (operators) |
| Configuration (`src/config.ts`, `src/plugin-config.ts`, `src/channel.ts`) | none | resolve from several sources, configured, enabled | `Configuration` (operators) |
| Delays (`src/reconnect.ts`, `src/runtime.ts`) | none | backoff, heartbeat interval | `Timing` (operators) |
| Protocol validators (`src/protocol.ts`) | none | `validate*` | `Frames` (operators), with what the transport and the router do with each frame |
| Stream emitter, sequence generator | one counter | `emit`, `next` | not modelled: only their tests use them |
| Logging, ids, packaging, scripts | none | | not modelled: formatting, random identifiers, builds |

How they interact. `startConnectorRuntime` takes the lease of the start guard,
builds an `InboundHandler` whose sends go through the variable `currentSend`,
and starts a `ConnectorRuntime`. Each pass of the runtime's loop registers over
HTTP, starts an HTTP heartbeat loop and a reconnect loop. Each dial of the
reconnect loop makes a transport, an ack tracker, a dedupe cache and an
envelope router; messages of the socket go to `router.route`, which is not
awaited, and from there to the handler. Everything runs on one thread, so what
is hard is what happens between two awaits:

* timers, HTTP answers, socket events and user calls come in any order, and
  state read before an await is used after it (`runtime.ts:78`, `runtime.ts:94`,
  `reconnect.ts:48`, `envelope-router.ts:77`);
* loops outlive what they were started for: heartbeat loops of older
  registrations, reconnect loops that were cancelled, retry loops of acked
  messages; and the WebSocket's heartbeat timer is started and cleared by five
  different events of one socket;
* shared maps are keyed by identifiers the gateway chooses (`pending` by message
  id, `activeAborts` by turn id), and keys may come back;
* the start guard works across processes that interleave and crash;
* sends fail at any event of a stream.

What makes each part correct: heartbeats and dials of old registrations are
disposed of, and the current session is kept alive until it is replaced;
`start` and `stop` return; one runtime per key; every acknowledged send is
settled once with what happened; a message is handled once, and one that has a
handler is not acknowledged without being handled, nor left without an answer
after that; a turn's stream is gapless and ends with one terminal event; a
running turn can be interrupted. `PROJECT.json` lists the
hazards line by line with the properties that cover them.

## 2. Modules

Every model follows the same conventions. An action runs from one await (or one
system call) to the next; microtasks that run after an await without leaving the
thread belong to the action. Operators named `X_Something` and introduced by
"Fault" are variants of `X` with a plausible bug; no specification uses them,
they are there to show that the properties notice. `MC*` modules and their
`.cfg` files are the finite instances. Proofs are in `*Proofs` modules.

**ConnectorRuntime** — one runtime object. `main` is where `start()` stands,
`loops` are the heartbeat loops in slots and `active` is `activeHeartbeat`; `ws`
and `cancelled` are the reconnect loop of each registration ("epoch"), `stopCall`
the caller's `stop()`. Handlers of the loops'
callbacks (`onConnected`, `onDisconnected`, `onSessionExpired`,
`shouldReconnect`, `onNeedsRegister`) are part of the actions of the events that
call them. `replaced` is history: the registrations whose session got
`connection.replaced` and whose socket was lost before the close handshake, until
they dial again. `MaxEpoch` bounds registrations; the slots bound the loops alive
at the same time. Delays are not computed: a sleep is an enabled step.
`RegisterOkAfterStop` starts from no active heartbeat because there is none
while registering; this is proved (`HeartbeatOnlyWhilePolling`).

**StartGuard** — one key, any number of processes. An action is one system call
of `acquireProcessLock`, `isStaleLock` or the `rmSync` of `release` (unlink of the
pid file, then rmdir, which fails with ENOTEMPTY if somebody wrote a pid in
between). `writeFileSync` of the pid, which creates and writes, is one step, as
an empty pid file and a missing one are both "stale" to the reader. `Boot` and
`Crash` are the environment; `Boot` may give out the pid of a dead process.
`overlapped` is history: it becomes true when two processes are inside the guard
at the same time, after which its promises about the lock are off.

**WsSession / GatewayWsTransport** — `WsSession` is what the reconnect loop
relies on in one dial: it comes up or fails, once, heartbeats go out only while
it is up, and a session that ends is over at last. `GatewayWsTransport` is the
transport: an action per event of the socket, per tick of its timer and per call.
The socket of package `ws` is external: it delivers messages also while it closes
at our own request, is CLOSING when "error" is emitted, and emits "close" last.
`timers` counts the intervals that run, `heartbeatTimer` says whether the object
still refers to one. Envelopes for the router and what is no envelope change
nothing here, but that the router may call `close` for one, even before the
acceptance (`Routing`, the calls of `route` among the callers of `close`). `Session == INSTANCE WsSession WITH ...` is the refinement mapping;
a dial that failed while its socket is still closing is "failed" already.

**AckedSend / AckTracker** — `AckedSend` says what `send` promises:
bounded copies, none after the outcome, an outcome that is an ack, a reported
failure or the closing of the tracker. `AckTracker` has a retry loop per call and
the map they share. `Promise == INSTANCE AckedSend WITH ...` is the refinement
mapping: a call whose failure is being reported is "failing", and a copy counts
when it is handed to `sendFn`. `IdOf` gives the message id of each call. The
mapping is over `Owned`, the calls whose id no other call uses: nothing in `src/`
sends an id again, but the tracker tells "already pending" apart, so calls that
share an id run beside them.

**DedupeCache** — the map as a function from ids to times, with its iteration order
as a relation; `cleanup` with its expiry and its stable eviction order, in which the
entries stay that fewer than `MaxEntries` others would follow; the clock; and as
history the time each id was last added, to which `RemembersTheLatest` compares the
answers.

**LifeSteps / RuntimeLife** — the life of a runtime as its callers see it:
registering, serving, ended, and the flag `stopped`. `LifeSteps` gives each step as
a set of records, so that `RuntimeLife` (one runtime, with its fairness) and
`ChannelGateway` (many) use the same ones. `Life == INSTANCE RuntimeLife WITH ...`
in `ConnectorRuntime` is the refinement mapping: retries count as registering, the
wait for a cancelled session as serving.

**ChannelGateway** — calls of `startConnectorRuntime`, from `registerFull` and from
`startAccount`, in one process and for one gateway and agent. Each has its lease,
a runtime whose steps are those of `LifeSteps`, and its `stop()`, once by the
abort signal and once by the handle. `StartAcquired` runs to the runtime's first
request; a signal that is aborted already stops it in the same step. The lease
is released at the end of each `stop()` and of `start()`. What other processes
do with the lock is `StartGuard`'s.

**EnvelopeRouter** — calls of `route()` on one connection, each identified by
its position in the order of arrival, the sends the socket has not finished
(`outbox`, first in first out), and the cache (`EXTENDS DedupeCache`). Messages are
the members of five small sets, by the branch of `route` they take. Handlers are
optional: a message of `Unhandled` is routed, acknowledged and remembered like the
others, and starts no handler, as `channel-gateway.ts` wires none for
`channel.session.started` and `channel.session.ended`. A rejected call
ends as "rejected": the process is assumed to survive the unhandled rejection.
`overlapped` is history: the messages that were repeated while their ack was being
sent, of which both copies are handled.

**Turns** — calls of `handle()`, each with a handler and a `deliver` callback
that send through one `OutboundHandler`. A send's outcome is chosen when the
event is sent and takes effect when it settles. `wire` is what went out. The
dispatcher is external; `Drains` says whether it waits for `deliver` before it
settles. The order of media before text inside one `deliver` is abstracted.

**InboundPath** — `EXTENDS Turns` by the transports before and after it, as
`channel-gateway.ts` and `runtime.ts` wire them: per transport the socket and a
router with the requests in its dedupe cache, and the one handler all of them
share. A request arrives, its ack is sent, and only then is the handler called;
`RequestKnown` acknowledges a repetition. `currentSend` is the newest transport,
whether it is up or not. `dying` ties a send that will fail to the transport
whose socket took it. The gateway is external: it repeats a request on any
connection until an ack arrives. Two transports may be open at once, as a dial
that was cancelled can still be accepted (`ConnectorRuntime`). The routers'
other messages, and the limits of the cache, are `EnvelopeRouter`'s.

**Frames, Timing, OutboundMedia, Configuration / Rules** — the pure functions as
operators, and `Rules`, whose only state is the argument that was chosen, so that
each property is about every result. A frame is its type, the fields it lacks, and
the state of its payload and its sequence; a media reference is its class and its
extension or content type; a configuration is two blocks with the fields that
matter. `Frames` also says what becomes of each frame in the transport and in the
router, and what the connector sends for it. `random()` is a multiple of 1/`Parts`.
`MCSequential` has `Rules` and `DedupeCache` side by side, as neither waits for
anything: a behaviour evaluates one function, or uses the cache.

## 3. What the runs show

| Run | Instance | Checks |
|---|---|---|
| `runtime` | 2 registrations, 2 heartbeat slots | no heartbeat loop that nothing can stop (`NoOrphanHeartbeat`); the loop that will send again has the newest token; older reconnect loops are cancelled; after `start()` returned nothing sends heartbeats; a session loses its keep-alive only to a cancelled dial accepted late; status stays "stopped" but for that; under fairness a needed registration is made, a dropped connection that was not replaced is dialled again, and the runtime implements `RuntimeLife` with its fairness: registration ends, `stop` ends `start`, `stop` returns (`ImplementsLife`) |
| `guard` | 2 processes, 3 pids that may be given out again, 2 calls each, 2 crashes, every interleaving | one lease per process; until calls of two processes overlap the holder's pid is in the lock, and a refusal comes only while somebody holds the lease (or the dead holder's pid was given out again); no lock left without a crash |
| `gateway` | 3 calls of `startConnectorRuntime` | of two active runtimes one was told to stop (`OneRuntime`); a start is refused only while another's runtime is active; the lease of a stopped runtime comes back |
| `ws_transport` | 4 messages about the connection, 2 heartbeats, 3 callers of `close`, one of them the router | no heartbeat timer that cannot be cleared or outlives the close event, although an acceptance read while closing starts one anew; a connection that is up has its timer; `connect` and `close` settle; the transport implements `WsSession` with its fairness |
| `ack` | 3 calls, 2 of them with one id, 2 retries | map entries belong to open calls that will look them up; for the call with its own id the tracker implements `AckedSend` with its fairness: promises settle |
| `router` | 3 messages with ack, one of them without a handler, one of each other kind, 4 arrivals, clock to 1 | handled once unless repeated while the ack is being sent; no ack for a message that has a handler and was not given to it; handlers start in order of arrival per ack mode; calls of `route` settle |
| `inbound` | a request, 2 calls for it, 2 connections, 2 events per turn, a dispatcher that drains (about 450 000 states) | gapless streams that end with one terminal event; abort controllers do not leak and are lost only to another call of the turn; a request is handled again only on another connection or during its ack (`OncePerConnection`); events are lost only to a drop or to a redial (`LostOnlyToADrop`); a request whose ack the gateway read is handled and answered (`AckedIsAnswered`, with its liveness) |
| `sequential` | frames lacking any two fields, 12 failed dials in a row with jitter in tenths, intervals and ttls to 45 s, all known and some unknown media types, up to 4 media URLs, all pairs of configuration blocks; a cache of 2 entries under 4 ids, ttl 2, clock to 5 | what is handled can be answered with valid frames and nothing else is passed over (`FramesAreServed`); delays grow to their cap and stay within 10% of it; two heartbeats fit into a ttl; media have the kind of the stored object and a URL that can be fetched; URLs go out once and in order; a configured account can be started, and two entry points that start one agent compete for one lease; the cache remembers exactly what its age and size limits allow, with one entry per id, of the time it was last added (`RemembersTheLatest`) |

Runs that show a disagreement between the code and what a document, comment or
test of the repository says of it (details under "findings"):

| Run | What happens |
|---|---|
| `runtime_stops_cleanly` | `stop()` during a dial or registration: a connection comes up after `stop` and `start` returned |
| `runtime_replaced_stays` | a connector that got `connection.replaced` loses its socket before the close handshake: the close code is 1006 and it dials again, although `progress.md:38` says that it stops |
| `guard_run_once` | two processes that start together both hold the lease |
| `router_dedupes` | a repetition that arrives while the first ack is being sent is handled again |

**Exceptions.** Some properties name a case in which they do not hold, of which
no document says what should happen; the notes of the hazards in `PROJECT.json` say
what each property catches and what it does not. The ones a maintainer may want to
look at:

* an interrupt that needs no ack overtakes the request whose ack is being sent, and
  finds nothing to interrupt (`HandledInOrder` compares messages of one ack mode);
* a dial that the gateway never answers stays pending: `connect` has no timeout
  (`CallsSettle` is about dials that get an answer, a close or an error);
* a lock left by a crash whose pid now belongs to another process is never taken
  for stale (`RefusedOnlyByHolder`);
* a dispatcher that settles while `deliver` is still sending would let output follow
  the terminal event (`TerminalIsLast` is claimed under `Drains`);

* a request handled twice, on two connections or because it was repeated during
  its ack: the call that ends first deletes the other's abort controller, and the
  other can no longer be interrupted (`CanBeInterrupted`);
* an acceptance without a numeric `heartbeat_interval_sec` is ignored and the dial
  stays pending; a rejection without a payload is valid, and reading `payload.error`
  throws in the listener (`FramesAreServed`);
* the router's answer to `ws.heartbeat` lacks `connection_id` and `agent_id`, which
  `validateHeartbeatMessage` and its type require; the transport's own heartbeats
  have both;
* a start right after an abort is refused while the old runtime closes its session,
  and nothing starts again later (`RefusedOnlyWhileActive` bounds the refusal);
* an account that only `plugins.entries` configures is shown as configured, but
  `startAccount` throws; `registerFull` ignores the channel's `enabled` flag
  (`ConfiguredStarts`);
* a public base, or a path-style endpoint, that is configured without a scheme gives
  URLs without one (`MediaIsPlayable`).

**Bounds.** Two registrations are the least with an "old" and a "new" one, and
every mistake known in this code is between two; a third adds a loop in a role
that already occurs. Two heartbeat slots hold the loop of the old registration
while the new one's runs; a slot is used again once its loop ended. Two crashes
leave a stale lock and strike its reclaimer too. Three starts are a holder, one
that is refused or comes after it, and one after that. Four messages allow an
acceptance, a rejection or replacement, and another acceptance read while the
socket closes. Two retries distinguish the first, a middle and the last attempt.
The cache instance has two more ids than entries and a clock that runs past
two ttls. Four arrivals allow a message, its repetition and two others between.
In `inbound`, two connections are the one a request came in on and the one that
replaces it or is accepted late beside it, two calls the least that share a turn,
and `MaxEvents = 2` lets a stream fail before, between and after outputs. In
`sequential`, the delay reaches its cap at the fifth dial. The theorems below have none
of these bounds.

**Fairness.** Timers fire, HTTP requests settle (`fetch` errors are caught), so
steps that wait for them are weakly fair. A closing socket closes, because `ws`
destroys it after its close timeout; a socket with data to send finishes or is
closed by TCP. `sendFn` and `onFailure` settle. *No* fairness is assumed of
dials: `connect()` has no timeout, and a gateway that accepts the socket and
stays silent keeps it pending; nor of the gateway's messages or the user's
`stop()`. `ChannelGateway` assumes of each runtime what `RuntimeLife` promises,
which the `runtime` run checks. `InboundPath` assumes of the external dispatcher
that it settles and that a reply has an end, strongly, as other steps of the turn
may interrupt the wait: only `AckedIsAnswered` rests on it. Of its sockets it
assumes that one with a send outstanding finishes it or closes.

**Deadlock** checking is off everywhere: each bounded instance ends (the last
registration used, all calls made), and a stopped connector stops.

## 4. What is proved

The theorems hold for every value of the constants under the named assumptions,
which say that a null value is distinct from the real ones (`NoCall`, `NoLoop`,
`NoPid`, `Absent`), that each call has one id or turn, that an ack mode is a
message's own and that those without a handler are among the ones routed to one
(`KindsAssumption`), that the router's calls are among the callers of `close`
(`ClosersAssumption`), that `random()` has some number of steps (`PartsAssumption`),
that limits are numbers and that the cache holds
at least one entry (`SizeAssumption`; the code creates it for 1000). Every
safety invariant and every action property that a run checks is proved, the streams
of a turn under the hypothesis `Drains` and `HandledOnce` under `InLimits`. The argument
is the same each time: an invariant that the initial states satisfy and each action
keeps, proved action by action; what makes it inductive is said below.

*ConnectorRuntimeProofs*: `TypeCorrect`, `NoOrphan`, `TokenCurrent`, `OneLoop`,
`ReturnedQuiet`, `NeverRedials`, `StatusSticks`, `KeepAlive`. The safety
invariants are not inductive alone: that no loop is orphaned needs that a loop
is started only where `activeHeartbeat` was just cleared, and that needs to know
where `start()` stands. The strengthening relates `main` to which heartbeat and
reconnect loops can exist (`HeartbeatOnlyWhilePolling` and its companions).
`KeepAlive` and `StatusSticks` are action properties from the same invariant, and
so is `NeverRedials` (a cancelled loop does not dial again). `RuntimeLives` is the
refinement of `RuntimeLife` without its fairness: one lemma per kind of step, most
of which stutter; that only a served registration can be replaced needs the
invariant about cancelled loops.

*StartGuardProofs*: `GuardTypeCorrect` and `OneLease` for every interleaving
(`CallsMatchRegistry`: a call that acquires works for an unused lease of a
process without registry entry). `SerialLockNamesHolder` and `SerialOneHolder`
hold until calls overlap; their invariant says what the calling process may rely
on between its system calls (`CallerKnows`: once it reads a dead pid nobody holds
the lease), which is what overlapping calls break. `SerialRefusals`, that a start is
refused only while somebody holds the lease, adds `PidAccounted`: a lock with a pid is
its holder's, or about to be emptied by who released it, or was left by a crash.
`LockIsRemoved` needs no order of the calls: without a crash, a lock directory has a
holder or a process on its way to hold or to remove it, and an `rmdir` that fails
leaves it to somebody else (`Attended`).

*GatewayWsTransportProofs*: `TransportTypeCorrect`, `NoTimerLeft`, `KeptAlive`, and
`TransportIsSession`, the refinement of `WsSession` without its fairness. The
invariant ties the flags of `connect` to its promise and to the socket
(`DialInStep`: a dial is rejected only on a socket that is closing) and the timer to
both (`TimerInStep`: an interval runs only on a settled dial and never after the
close event); without the first a heartbeat on a failed dial could not be excluded.

*AckTrackerProofs*: `TrackerTypeCorrect`, `EntriesTended` for any assignment of
ids; `TrackerKeepsPromise`, that the tracker refines `AckedSend` (without its
liveness) for the calls whose id no other call uses. The link invariant
`CallsInStep` says that such a call is open exactly while it has its entry or its
failure is being reported; steps of the other calls are stutters.

*EnvelopeRouterProofs*, the cache: `CacheRemembersTheLatest`, for any number of ids
and any limits. The invariant (`CacheInv`) describes the entries by what was added
last: an entry has the time it was last added, whatever was added after an entry has
one too, and an id without entry is too old or as many others were added since as the
cache has room for. That a clean-up keeps it needs that eviction removes a beginning
of a total order; this is a lemma about sets and their cardinality, without induction.

*EnvelopeRouterProofs*, the router: `HandledAsTheyArrived` rests on sends being queued
in the order of arrival and on everything handled having arrived before what is still
to be sent (`HandledBeforeSends`); it needs nothing of the cache.
`RouterKeepsCache`: the router is a user of `DedupeCache`, so the cache inside it
remembers what it should. `AckedAfterHandled` is `AckMeansHandled`: what is in the
cache, or about to be acknowledged from it, has a call whose handler was started, or
is of a kind that has none (`Served`, `AckedAreHandled`). `OnceInLimits` is `HandledOnce`, which is true only while the
cache forgets nothing: its hypothesis `InLimits` (room for every message, a ttl past
the clock) is the property's own "as long as it is in the cache's limits", and the
checked instance satisfies it. What holds without it is `HandledAgainForCause`: a
handled message is taken for new only when its last ack is too old or as many others
were acknowledged since as the cache has room for. `RouterTypes` says of the queue
that each send in it is awaited by its call.

*InboundPathProofs*, the turns: `NoLeakedController` and `Interruptible` for any
assignment of turns; `NoGap` and `TerminalLast` under a dispatcher that drains, from an
invariant that ties the counter to the length of what went out unless a send failed or
is about to. `AnsweredOrLost` holds of any dispatcher: a call that is over has a
terminal event on the wire or has lost its transport; inductive is that one that is
ending has, or its last send is about to fail (`Ending`).

*InboundPathProofs*, the path: `PathImplementsTurns` (`PathSpec => Spec`): connections,
routers and repetitions only restrict the turns, so the theorems above hold of the
composition for any number of connections (`TurnsOnThePath`). `OncePerRouter`: a router
calls the handler once per request, unless a repetition overlapped the ack; its
invariant ties the calls of each router to the requests in its cache.
`AckedWereHandled` and `AckedAndOverIsAnswered` are the safety part of
`AckedIsAnswered`: a request is cached and acknowledged only when a call for it was
made (`SeenIsHandled`), and calls that are over are answered or lost. `LossHasCause`
(`LostOnlyToADrop`): transports are made in turn, a connection that was closed or
superseded stays so, and a send that is going to fail was given to its call's own
transport, which closed, or found another one in place (`FailureHasCause`).

*RulesProofs*: each function for every input, and from that the run's property.
`EveryFrameIsServed` for frames that lack any set of fields (the run: any two),
`EverySessionIsKept` for every interval and ttl, `EveryMediaIsPlayable` for every
extension and content type, `EveryConfigurationStarts` for any two blocks.
`EveryDelayGrows` is for any number of failures and any fineness of `random()`, and `EveryUrlGoesOutOnce` for any
number of candidates: both are inductions over data, done without the library's
induction theorems, which the provers cannot use. Natural numbers are well-founded
(a theorem of the library without operator parameters), so every set of them has a
least element (`LeastNumber`); the least number at which a claim failed leads to a
contradiction. The same argument shows that the recursive functions `power` and the
one of `resolveOutboundMediaUrls` exist and satisfy their equations.

*ChannelGatewayProofs*: `OneActive` and `RefusedForTheActive` for any number of
starts. The invariant: the registry has the key as long as exactly one start holds
the lease; the holder's runtime is active (`HeldIsActive`), and an active runtime
without the lease was told to stop (`UnstoppedHolds`); a `stop()` that waits has told
its runtime (`WaitsForStopped`), which is why its release cannot free a lease of a
runtime that goes on.

Only model-checked is liveness: under fairness it needs ENABLED, which the installed
provers cannot do. These are `NeedsRegisterServed`, `DroppedIsRedialled`, `CallsSettle`,
`RoutesSettle`, `LeaseComesBack`, the last conjunct of `AckedIsAnswered`, and the
fairness of the refinements `ImplementsLife`, `ImplementsSession` and `KeepsPromise`,
whose steps are proved (`RuntimeLives`, `TransportIsSession`, `TrackerKeepsPromise`).
The type invariants are theorems and not listed in the runs.

## 5. What is left out, and the plan

Left out of the models: message contents, durations (a sleep is an enabled step),
file-system errors other than EEXIST, ENOENT and ENOTEMPTY, clocks that run
backwards, sends whose callback reports an error although the data arrived, the
rejection of a heartbeat of the WebSocket whose send fails. In `InboundPath` a turn
sends only on a transport that was accepted; the code's `send` asks for an open
socket, which is so a little earlier.

Not modelled:

* the stream emitter and the sequence generator, which no part of the program uses:
  whether their calls overlap is not for the source to say;
* `validateVisualEventPayload`, which is used by no part of the program;
* the HTTP client's requests, the S3 client and the decoding of `data:` URLs, which
  are I/O (an upload that throws is a step of `Turns`);
* logging, identifiers, packaging and scripts: formatting and random values.

Next, in this order:

1. `WsSession` under `ConnectorRuntime`: its dials and sessions shown to use only
   what `WsSession` promises.
2. The acks of `InboundPath` with the cache's limits, so that a repetition later
   than the ttl is handled again.
3. Proofs: the registry and lock of `StartGuard` as the lease `ChannelGateway` takes;
   the router of each connection of `InboundPath` as an `EnvelopeRouter`, which needs
   the order of arrivals as history.
