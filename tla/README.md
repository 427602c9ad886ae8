# Loggregator Agent in TLA+

TLA+ models of the programs of this repository, checked by TLC on small
instances and, for every invariant and action property of the passing runs,
proved with TLAPS for every value of the constants. `PROJECT.json` lists the runs, the definition-to-source
map, the hazards and the theorems.

The first two sections are an inventory and a plan, the others say what the
modules on disk model, check and prove.

## 1. The system

The repository builds eight programs out of shared packages.

| Part | State | Operations | Interacts with |
| --- | --- | --- | --- |
| Binding manager (`pkg/binding/manager.go`) | source -> binding -> holder (context, writer), access times, two gauges | `Run` (poll), `GetDrains`, `updateDrains`, `idleCleanup` | fetcher, connector, dispatcher; one mutex |
| Diode writer (`pkg/egress/diode_writer.go`) | diode, goroutine, context, wait group | `Write`, `start` | dispatcher in front, a `WriteCloser` behind |
| Diodes (`pkg/diodes`, external `go-diodes`) | ring buffer, read and write index | `Set`, `TryNext`, `Next`, alerter | every pipeline |
| Syslog agent (`cmd/syslog-agent`) | ingress diode, dispatcher | receive, dispatch | receiver, manager, diode writers |
| Syslog writers (`pkg/egress/syslog`) | TCP connection, HTTP client, retry counter | `Connect`, `Write`, `Close` | diode writer, user's drains |
| Poller and store (`pkg/binding`) | page number, collected pages, published list | `poll`, `Set`, `Get` | cloud controller API, handler |
| Binding cache (`cmd/syslog-binding-cache`, `pkg/cache`) | the store, in memory | boot, serve, crash | poller, agents |
| Fetchers (`pkg/ingress/cups`) | none; limit and filters | `FetchBindings` | cache, DNS, manager |
| Client pool (`pkg/clientpool/v1`, `v2`) | one atomic pointer, reset channel and ticker per manager | `Write`, `maintainConn`, `Connect`, `Fetch` | pipelines, DNS, dopplers |
| v2 pipeline (`pkg/egress/v2`, `cmd/agent`) | ingress diode, batch, counter totals | `Start`, `Process`, `Write` | receiver, client pool |
| v1 pipeline (`pkg/ingress/v1`, `pkg/egress/v1`) | UDP socket, diode, counter totals | read, unmarshal, aggregate, marshal | client pool |
| UDP forwarder (`cmd/udp-forwarder`) | the v1 reader's | read, tag, convert, emit | forwarder agent |
| Envelope averager (`pkg/plumbing`) | one 64-bit word: 16-bit count, 48-bit total | `Track`, `Start` | gRPC stats handler |
| Forwarder agent | ingress diode, one client per downstream with totals and a diode | fan-out | agent, syslog agent, others |
| Scrapers (`pkg/scraper`, `cmd/metric-scraper`, `cmd/prom-scraper`) | targets, error channel, gauges | `Scrape`, `Stop` | leadership server, metric endpoints |
| System metrics (`pkg/collector`, `pkg/egress/stats`, `cmd/system-metrics-agent`) | first CPU times, registered gauges | `Collect`, `Send` | operating system, registry, scrapers |

What is hard about them, by part (the full list, at its lines, is `hazards`):

* Binding manager: three goroutines share the registry; the fetch is outside the
  mutex; holders and access times are deleted independently; connects fail.
* Diode writer: lapping; cancellation against a blocked read or a failing write.
* Syslog agent: writers are used after the mutex under which they were looked up
  is released.
* Cache: partial polls, empty results, restarts, failing lookups.
* Client pool: a lock-free pointer with two parties, bounded reset channels,
  wear, failures, address choice.
* Agent pipelines: totals are kept in two processes, each of which may lose
  envelopes after it counted them; a batch fails as a whole or waits to be filled.
* Averager: two numbers of different widths in one word, both wrap.
* Forwarder: one envelope, shared by pointer, changed by each of several clients.
* Syslog writers: a message is two writes, a connection breaks at any byte, the
  answer to a post is lost, tries repeat an envelope from its beginning.
* Scrapers: goroutines per target, one bounded error channel, a stop request that
  competes with a ticker, a source that changes while it is gathered.

## 2. Plan

1. *(done)* `BindingManager`, with its proofs: the core of the syslog agent.
2. *(done)* `Diode`, `DiodeWriter`, and `SyslogAgent`, which composes them with
   the manager.
3. *(done)* `BindingCache`, where the manager's bindings come from.
4. *(done)* `ClientPool`, with its proofs: the core of the agent.
5. *(done)* `DiodeWriterProofs`: `RunsUntilCancelled` and `FlushedUnlessFailed`.
6. *(done)* `AgentPipeline` over `AgentV1`, `Forwarder`, `AgentV2`, `CounterTotals`
   and `EnvelopeAverager`: the way of an envelope from its sender to Doppler.
7. *(done)* `SyslogDrain`: the protocol writers, as an implementation of
   `DiodeWriter`, which is the abstract specification of a drain's writer.
8. *(done)* `MetricsChain` over `SystemMetrics` and `Scraper`.
9. *(done)* A proof module for each of the other runs: `SyslogDrainProofs`,
   `SyslogAgentProofs`, `BindingCacheProofs`, `MetricsChainProofs`,
   `AgentPipelineProofs`.  Every invariant and action property of the passing runs
   is now a theorem; what is left to TLC is liveness (section 5).
10. Open: that the manager's steps in `SyslogAgent` are, step by step, those of
   `BindingManager` under the mapping `Running`, and the writers' those of
   `DiodeWriter` (so far their invariants are carried over, not their steps);
   `ClientPool` as the implementation of the take-or-fail pool of `AgentV2`.

## 3. Modules

### BindingManager

`sourceDrainMap` is one function `drains` from bindings to holders: the outer key,
the app, is a field of the binding, and an app without bindings has no entry in
the code either. A holder is a context and whether it has a writer. `live` is
the set of contexts not cancelled, `running` those under which a writer runs.
Time is `accessAge`, the age of each access, saturated at `IdleTimeout + 1`
because the code compares with `IdleTimeout` only. `Fetch` and `updateDrains` are
two steps because the fetch is outside the mutex; each function that holds the
mutex is one action. `LaterFetchFails` changes nothing and is there because that
is what the code promises. `activeDrainCount` is an `int64` and is kept modulo
`CountMod`, a stand-in for 2^64.

The model enumerates answers as sets: a list that names a binding twice, which
would make the `drains` gauge exceed the registry, is not an answer it gives.

### Diode and DiodeWriter

`Diode` represents a ring buffer by the sequence of the messages set since the
last read, overwritten ones included, so that lapping is arithmetic on a length.
It is external code, modelled from what `pkg/diodes` and the alerters rely on.
`DiodeWriter` has one action per step of `start`, the deferred `Done` and `Close`
included; a write of the `WriteCloser` succeeds or fails freely. `fate`,
`accepted` and `flushTo` are history. `Accounted` compares the drain's output with
what was accepted place by place: the message of rank k among those with the
fate "delivered" is the k-th that went out.

### SyslogAgent

Instantiates both: a context is a number and a writer is known by its context, so
the manager's `running` is a function of the writers' state. An action that
cancels contexts is the manager's action and the writers' `Cancel` in one step.
`LookUp` is `GetDrains` together with the goroutines it starts; `WriteTo` is one
iteration of the dispatcher's loop and the place where a stale writer is used.
What a writer was given, `Given`, includes the envelope the dispatcher is about to
write to it; a drain's stream is asked for from its first envelope on.

### BindingCache

A poll is one step per page, so apps can be rebound, agents can fetch and the
cache can crash between two pages. The agent's fetch is two steps, the handler's
answer and the filters with the manager's update. DNS and API are switches the
environment turns. Drains are numbers in sort order, classified by `Kind` into
what the filters tell apart.

`hung` says whose request waits for ever, the poller's (`PageHangs`) or the agent's
(`FetchHangs`): both programs use the client of `NewTLSHTTPClient`, which limits dial
and handshake (`tls.go:228`) but not the wait for an answer, and both call it from
their one loop. Only a crash of the cache can end such a request: the poller's goes
with its process, the agent's, like an answer under way, may fail with the
connection. `Converges` says what is left: the store ends up with the bindings that
are wanted unless the poller hangs or nothing is wanted (the finding about `nil`),
and the agent with what is usable of the store unless its own fetch hangs, or the
cache never came to serve because its first poll hangs. `AgentWithinPolicy` says
that what an agent drains for an app comes from one list the app has had, cut to the
limit before it was filtered.

### ClientPool

`ConnManager.Write` is cut at each access of shared state: load, send, clear,
close, signal; `maintainConn` likewise: select, check, connect, store. The pool
has one writer, which is what both pipelines of the agent have. The network is
what a lookup and a dial of the AZ's address meet, and whether the general
address leads to live dopplers.

### CounterTotals, EnvelopeAverager

What taggers and aggregators do to an envelope, as operators on a record and a
function of totals; one tag stands for all of them, and the hash of the tags for
the tags. `NewTotal` is both aggregators' rule: adopt a total that came along, add
to one's own otherwise. The averager is the one word of the code with widths as
constants; the compare-and-swap loop of `Track` is one step, and `Report` is what
the next tick will say, so that its property can be asked in every state.

### AgentV1, Forwarder, AgentV2, AgentPipeline

One variable per diode, batch, totals map and counter of the three programs.
`AgentV1` is the reader both the agent and the UDP forwarder use, with the agent's
chain behind it. `Forwarder` keeps envelopes in a heap, `envelope`, and pointers in
its diodes: what a client encodes is what the envelope says at that moment.
`AgentV2` has one action per iteration of the transponder's loop, submission
included; the pool takes a batch or fails (`ClientPool` says how). `AgentPipeline`
puts them in one next-state relation: a gRPC call is one step in which the envelope
arrives or is lost. `ledger`, `encoded` and `doppler` are history. The ledger lists
what the forwarder agent counted; `ExpectedTotal` reads a total off it: the last
total the counter came with and the increments since, back to the last reset
(`Increments`, a recursive function).

### SyslogDrain

EXTENDS `DiodeWriter` and replaces its one-step write by the writers behind it:
dial, prefix, body, post, failure, sleep, retry. `pc` stays `"write"` meanwhile, so
the refinement mapping is the identity on `DiodeWriter`'s variables and every inner
step is a stutter of it, except the last. Envelopes are written once each, and their
messages are told apart, so that one that goes out twice shows. `conns` is history, a sequence of what
each connection took, cut writes included. `posted` is what the drain got over HTTPS.
The HTTP client is fasthttp, which is not in the repository: its `Do` (`https.go:57`)
sends a request again by itself, a POST included, when the connection is closed before
the answer, five times at most. `Do(k)` is an external operator: of up to `MaxSends`
sends k brought the message to the drain, at least one if the call succeeds and
possibly all if it fails. `SuccessIsSent` therefore allows a message to arrive
repeatedly over HTTPS, in places that follow one another and are no more than
`MaxSends`, and otherwise only with a RetryWriter. RetryWriter is modelled although no
program uses it; `retrying` says whether there is one.

### SystemMetrics, Scraper, MetricsChain

`SystemMetrics` keeps for each group of gauges the collection it was set from:
which groups a collection has decides what goes stale. `Scraper` has both loops,
told apart by `program`, with one goroutine per scrape and target. `MetricsChain`
makes the agent one of the targets: a request gathers its gauges one by one between
the steps of the sender. What was gathered so far is lost when the agent's process
ends by the collector's panic.

## 4. Runs

| Run | Bounds | Shows |
| --- | --- | --- |
| `manager_safety` | 3 bindings of 2 apps (one of them unconnectable), 6 contexts, timeout 1, contexts symmetric | accounting of writers, contexts, counts under all interleavings |
| `manager_idle` | 2 bindings of 2 apps | silent apps are disconnected |
| `manager_gauge` | as `manager_safety`, all connectable | **violated**: the cleanup over-decrements the active-drains gauge |
| `diode_writer` | 1 writer, diode of 2 slots, 6 messages | two laps, cancellation and failure at every point |
| `syslog_agent` | 2 bindings of 1 app, a source without drains, 2 envelopes, 2 contexts, diodes of 1 slot | streams, staleness, at most one envelope lost to a cancellation, liveness of the dispatcher |
| `binding_cache` | 2 apps on 2 pages, 4 drains (2 usable), limit 2, 1 crash | steady apps keep drains; limit before filters; convergence, as far as no request hangs |
| `poll_result` | same | **violated**: an empty complete poll is not stored |
| `client_pool` | 2 managers, 3 connections, wear after 2 sends, reset channels of 1 slot | ownership, gauge, wear, retries, reconnection |
| `pool_fallback` | 1 manager | **violated**: no fall-back while the AZ's name resolves |
| `agent_pipeline` | 3 datagrams or envelopes, 2 downstreams, diodes of 1 slot, batches of 2, totals forgotten above 1 counter, count modulo 2, 1 tick | accounting, totals across losses, agreement of downstreams, averages, flushing |
| `syslog_drain` | 2 envelopes of any of 4 kinds (one gauge at most) over 3 protocols, diode of 1 slot, 2 tries, 2 sends of a post | framing, success, implementation of `DiodeWriter` |
| `metrics_chain` | 2 scrapes of 2 targets, 2 collections, a health group that comes and goes, 1 core added | outcome of a scrape, order of values, `Stop` |

Why the bounds are enough. Two apps are needed for one to be cleaned up while the
other is used; two bindings of one app for a connect that fails next to one that
works. Six contexts cover three holders replaced at once. A diode of two slots
and six messages can be lapped twice in one read; one slot in `syslog_agent` makes
every overlap a lap. Two contexts let a binding be cut and bound again, with
the cancelled writer still flushing. Two pages are needed for a poll that fails
half way. Of the four drains one does not parse and one is blacklisted, and an app has
none, the two of which the first is blacklisted, or the unparsable one and both good
ones: there the limit cuts a good drain that filtering first would have kept. Two sends
of a post stand for fasthttp's five: one repetition is all that can be told apart from
none, and a gauge, whose envelope makes several messages, is one of the two envelopes at
most, for the order of its messages multiplies the states. A reset channel of one slot is full at once, where the code's hundred
would hide the wait; two managers are needed for a second try of a batch, and
three connections are all that can be open: one for each manager and one being
closed. Six contexts, 3 connections and `MaxContexts` bound identities, which the
code never runs out of; `ContextsLeft` holds a fetch or cleanup back when they
are used up, and no property of `syslog_agent` asks for a fetch or a cleanup to
happen. With two envelopes in `syslog_agent` the ingress diode is not lapped while
an envelope is in hand, and three are more than TLC gets through in minutes; that
the accounting holds then is what the theorem `IngressIsAccounted` says
for any number.

Three envelopes in `agent_pipeline` are enough for one to be lost between two of
the same counter, for a third name to have the totals forgotten, and for a batch of
two to be filled next to one that is not; the count wraps at 2 so that one batch
wraps it, the total is wide enough not to. Two collections and two scrapes let a
slow answer of the first meet the second. `MaxEnvelopes`, `MaxTicks`, `MaxWrites`,
`MaxSends`, `MaxScrapes`, `MaxCollections`, `MaxCores`, `MaxCrashes` bound the environment.

`diode_writer`, `syslog_drain` and `metrics_chain` are checked without deadlock
detection: a closed writer whose callers are done has nothing left to do, nor has a
scraper that was stopped.

### Fairness

* The clock and the cleanup ticker of the manager (weak). Nothing is assumed of
  the poll loop: the HTTP client it uses has no overall timeout.
* Goroutines are scheduled (weak). A write to a drain returns: the writers have
  dial and I/O timeouts.
* The cache's and agents' tickers fire, a crashed cache is restarted (weak). A request
  of the poller or of the agent ends, with an answer or an error (weak), unless it
  hangs; it may always do so, and nothing is assumed to end it then, because
  `NewTLSHTTPClient` sets no timeout for an answer.
* `maintainConn` is scheduled (weak), and takes a signal if one is waiting again
  and again (strong): Go's `select` chooses at random among ready cases.
* The transponder's loop is scheduled and its interval passes (weak): `TryNext`
  does not block, and the pool's write returns.
* In `syslog_drain` the goroutine is scheduled (weak): dials, writes and posts have
  timeouts, and the sleeps of `RetryWriter` are bounded by 15 seconds.
* The scrape loop and its goroutines are scheduled (weak), but a pending request ends
  only for the metric scraper, whose client has a timeout. `Stopped` is strongly
  fair: `select` chooses at random among ready cases.
* Nothing is assumed of envelopes, callers of `Write`, rebinding, DNS, dopplers.

### Findings

* `manager.go:200`: `idleCleanup` lowers the active-drains count for each holder
  of an expired app, also if it has no writer.
* `store.go:23` with `poller.go:50`: the last binding of the platform cannot be
  withdrawn, because an empty result is `nil`.
* `grpc_connector.go:33`: the general address is tried only when the AZ's does not
  resolve, not when it cannot be dialed, against `README.md:14`.

## 5. Proofs

`BindingManagerProofs` proves, for any finite set of bindings, any apps, timeout,
count width and supply of contexts: `TypeOK`, `WritersAccounted`,
`ConnectedIsTracked`, `RegistryMatchesLastGoodFetch` and the action property
`WriterCutOnlyForCause`. The inductive invariant is their conjunction with
`PollInv`: between a fetch and its application the list in hand is the published
one and the gauge is its size, without which the application could not restore
the registry's invariant. The step is one lemma per action; `updateDrains` and
`idleCleanup` share a lemma about replacing holders. Assumed: `ManagerAssumption`.

`ClientPoolProofs` proves, for any managers, connections, wear bound and channel
capacity: `TypeOK` (which no run repeats), `NothingLeaks`, `OneConnectionEach`, `LoadedIsCurrent`,
`GaugeIsOpen`, `WornConnectionsReplaced`, `BatchSentOnce`. None of them is
inductive: the invariant adds, for each program point of the writer and of
`maintainConn`, who holds which connection (`WriterHolds`, `ManagersHold`), that
a connection not open has no writes (`WritesCounted`) and how often the batch was
sent (`BatchInv`). There is one lemma per part, with one step per action.
Assumed: `PoolAssumption`.

In the same way `CountMovesWithConnections` is proved as an action property:
`GetDrains` connects drains that were not connected and `updateDrains` cuts kept
holders from removed ones, so that the number of connected drains changes by exactly
what the count is changed by; that the count wraps is arithmetic (`MovesBy`).

`DiodeWriterProofs` proves, for any finite set of writers, any messages and number
of slots: `WriterTypeOK`, `RunsUntilCancelled`, `FlushedUnlessFailed` and
`Accounted`. The invariant adds `Counted`: the messages a writer accepted are as
many as those with a fate, in hand and in the diode together, which is why an empty
diode means a complete flush; `Placed`: the message in hand and those in the diode
are the accepted ones at the places that follow; and `Tallied`: as many messages
reached the drain as have that fate, and as many were reported as were dropped. It rests on
`ReadOfDiode`: a lapped read skips whole laps and never the whole diode. Assumed:
`DiodeWriterAssumption`.

`SyslogDrainProofs` EXTENDS these and proves, for any envelopes and messages in
them, protocols and number of tries, `FramesWhole`, `SuccessIsSent` and that every
step is a step of `DiodeWriter` or leaves its variables alone
(`StepsAreDiodeWriters`), so that what is proved of `DiodeWriter` holds of the drain
(`DrainKeepsPromises`). The invariant says where in `Write` the goroutine can be
(`Where`), what the open connection has taken when the next write is a length or a
message (`Frames`), that what was sent and what is left make up the envelope
(`Remaining`), that the counter follows the places where a message arrived
(`Counter`), that what may have been sent belongs to envelopes already tried (`Once`), and that the
posts of one message are the sends of one `Do` (`Repeats`; `Between` is the lemma that
adjacent places have nothing else between them). Assumed: `DrainAssumption`, that an envelope makes finitely many messages
and two envelopes none in common; `DiodeWriterAssumption`.

`SyslogAgentProofs` proves, for any bindings, apps, diode sizes and supply of
contexts, `IngressAccounted`, `DrainGetsItsStream`, `AtMostOneStaleWrite` and
`LossIsOneStaleEnvelope`. It takes the invariants of the manager and of the writers
from instances of their proof modules, with the substitutions of `SyslogAgent`, and
their step lemmas with them; `PartsKeepTheirPromises` is what comes of that. New in
the invariant are the parts that relate the components: no held context is cancelled
and no writer was given anything before it was started (`ContextsInUse`), the
numbers of the envelopes in the ingress diode, in hand and dispatched follow each
other (`Numbered`), a connected drain's stream follows the dispatched envelopes of
its app (`Streams`), and a cancelled writer has at most the dispatcher's current
envelope to come (`Stale`). The last one with the writers' flush bounds what a
cancellation costs (`OneEnvelopeLost`). Assumed: `AgentAssumption`.

`BindingCacheProofs` proves, for any apps, pages, drains and limit,
`SteadyAppKeepsDrains` and `AgentWithinPolicy`. The first is not inductive: the
invariant adds that the bindings of a steady app are the right ones wherever they
are on their way, in the pages collected so far, in the store and in an answer
(`SteadyOnTheWay`), and, for the second, that what is on its way for any app is
nothing or the whole of one list the app has had (`ListsOnTheWay`). That the limit takes at most `Limit` drains of the sorted list is
a fact about cardinalities (its lemma goes by a greatest element). Assumed:
`CacheAssumption`.

`MetricsChainProofs` proves, for any targets, answers, groups and numbers of scrapes
and collections, `ScrapeOutcome` and the action property `EmittedInOrder`. The
invariant ties a goroutine's program point to what it was answered, what is left of
that, what went out and whether it is reported (`Stages`, `Reports`, `Emissions`),
and says of the values that a gauge is as new as anything gathered from it, and a
value on its way as new as what went out (`NewestIsSet`, `NothingOlder`). Assumed:
`ScraperAssumption`.

`AgentPipelineProofs` proves, for any envelopes, sizes of diodes and batches, number
of downstreams and widths of the averager's word:

* `Accounted` and `AverageOfInterval`, from what the word and the previous reading
  say together (`AveragerInv`), and the arithmetic of remainders;
* `DownstreamsAgree`. It holds because tagging and aggregating an envelope twice
  with the same totals changes nothing more (`ProcessedTwice`): in `InStep`, a client
  that has had the current envelope has the first one's totals, and one that has not
  will come to the envelope and the totals that are there already. `Unchanged` then
  says that no encoded envelope was changed afterwards;
* `TotalsSurviveLosses`. `LedgerInv` says that the forwarder agent's totals are those
  its ledger makes one expect, and that every counter downstream of it carries the
  total of an entry of the ledger. The theorem has a hypothesis, `CountersChange`:
  every counter sent comes with an increment or a total. It is needed: TLC finds the
  property violated by a counter with neither which, after the forwarder agent has
  forgotten its totals, leaves it with total 0 and is given the remembered total by
  the agent. The run's envelopes satisfy it.

Assumed: `PipelineAssumption` (increments and totals are unsigned), `V1Assumption`,
and the assumptions of the modules it composes.

`Increments` is a recursive function. The induction theorems of the library take an
operator as a parameter, which the provers cannot instantiate; the lemmas about it
reason about a first place where they fail (`FirstFailure`, from the well-foundedness
of the natural numbers), also for the function's existence (`SumsExist`).

Only model-checked: everything under fairness (`IdleDrainReleased`,
`CancelledWriterCloses`, `MessageIsRead`, `IngressDrains`, `Converges`,
`SignalReturns`, `Reconnects`, `BatchIsSent`, `StopReturns`, and the fairness part of
`ImplementsDiodeWriter`), because liveness needs `ENABLED`, which the prover does not
handle. The violated properties of section 4 are refuted by TLC's traces.

### What the models show besides

Three things the models have because the code has them, without a property, since no
document promises otherwise. The prom scraper's requests have no timeout
(`prom_scraper.go:112`): one target that never answers ends all scraping. The
collector's methods have value receivers (`collector.go:138`): the first reading
stays the previous one for ever, and a core it has not seen is out of range. A gauge
is registered before it is set (`prom_registry.go:43`) and keeps its last value when
its disk, network or health is gone.

## 6. Not modelled

* `pkg/plumbing/tls.go`, but for its HTTP client's lack of a timeout, credentials and
  server set-up in the `Run` functions: configuration of `crypto/tls` and gRPC; `grpc.pb.go` is generated.
* Configuration, `main` functions, debug servers, `pkg/ingress/v2/server.go`: no
  state that changes.
* `pkg/metrics`: registration of the programs' own counters; the counters are
  variables of the models.
* `internal/testhelper`, `internal/testservers`: test code and embedded certificates.
* `pkg/egress/v1/eventwriter.go`: no program calls it. `RetryWriter` is modelled
  although none does either, for it is the only retry the repository has.
* Formatting and parsing (RFC 5424, label and tag conversion, hashes, URLs, IP
  ranges, the arithmetic of percentages): what depends on their results is a constant
  classification.
* The race of an encoder with a later client's writes to the same map of tags, which
  Go's runtime answers by ending the process: an envelope is encoded in one step.
* The error log the connector sends to an app whose drain loses messages, the
  latency metric of the fetcher, `TimeoutWaitGroup.Wait`, which no program calls.
