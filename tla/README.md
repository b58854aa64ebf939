# Verification of the MCP security gateway and monitor

TLA+ models of `mcp_monitor` (Python, under `src/src/mcp_monitor/`), the TLC
configurations that check them on small instances, and TLAPS proofs of the
properties that matter most.

Run a check with `tlc -workers 2 -config MCX.cfg MCX` (`DashboardFeed` needs no MC module:
`tlc -config MCDashboardFeed.cfg DashboardFeed`), a proof with `tlapm XProofs.tla`.
`PROJECT.json` lists the runs, the mutants that show each property can fail, the source lines
every definition stands for, the findings, the hazards and the theorems.

## 1. The system

The package holds three programs and the parts they share.

| part | state it keeps | operations | used by |
|---|---|---|---|
| audit log `audit/log.py` | entries in memory, a file of lines | `append`, `_load`, `verify_chain` | monitor |
| write-ahead log `audit/wal.py` | a file, two counters | `write`, `recover`, `checkpoint`, `truncate` | production server |
| monitor `monitor.py`, detectors `detectors/` | its audit log, the registered servers and their use, a classifier made on first use | `inspect_call`, `inspect_output`, `register_server`, `score_server_trust` | production server, proxy |
| circuit breaker `production/circuit_breaker.py` | state, failures, time of the last | `call`, `state`, `reset` | production server (one per endpoint) |
| rate limiter `production/rate_limiter.py` | tokens, time of the last refill | `allow`, `remaining_tokens`, `reset` | production server |
| shutdown `production/shutdown.py` | a flag, a count of active requests | signals, drain, callback | production server |
| production server `production/server.py` | all of the above | one task per connection | HTTP clients |
| proxy `layers/proxy.py` | rules, decisions, counts, quarantine | `intercept`, `intercept_output`, `add_rule`, `release_quarantined` | orchestrator |
| egress policy `layers/egress.py` | rules, decisions | `evaluate`, `add_rule` | orchestrator |
| orchestrator `layers/orchestrator.py` | known servers, verdicts | `evaluate_call`, `register_server` | realtime server |
| kernel monitor `layers/kernel.py` | policies, events, connection times, alerts | `process_event` | orchestrator |
| realtime server `server/realtime.py` | list of WebSockets, statistics | `/ws`, `/api/scan`, demo agent | browsers, gateway client |
| defense10 `defense10/` | intents, sliding windows, approvals, canary tokens, verdicts | `inspect_call`, `inspect_egress`, `scan_network` | library users |
| advanced `advanced/` | baselines, probes, a window of calls, signed manifests | `check_drift`, `evaluate_response`, `record_call`, `verify`, `check_call` | library users |
| alerting, metrics, tracing, logging, config | cooldown times, counters, spans | | production server |
| semantic analyzer `layers/semantic.py` | a list of findings | `analyze_call` | orchestrator |
| network monitor `defense10/network_monitor.py` | allowed and blocked remotes | `allow`, `block`, `scan` | defense10 |
| client `client.py` | none that lasts | `guard`, `scan` | agents |
| classifier `defense10/ml_classifier.py` | a model, two files | `train`, `save`, `load`, `classify` | defense10, injection detector |
| red team `redteam/` | the results of its runs | `run_full_catalog`, `run_category`, `run_single` | operators, through the orchestrator |
| workload `server/workload.py` | none | `next_tool_call` | the agent of the realtime server |
| JSON-RPC adapter, dashboards | none that lasts | | |

What is hard in it:

- **Concurrency.** Three kinds: threads that share a breaker; tasks of one event
  loop that run between two awaits (connections, WebSockets, broadcasts); and
  processes that open the same log file.
- **Failure.** A crash or a loss of power between any two file operations, a line
  written in part, a disk that refuses a write, an exception in the middle of an
  evaluation.
- **Time.** The breaker's timeout, the refill of the bucket, windows and cooldowns.
- **Aliasing.** Python objects that two components hold: the list of findings an
  audit entry shares with the proxy, a list that a loop walks while others change it.

What makes each part correct: the log verifies, and a damaged line is reported at
its place; what was acknowledged is stored; what was logged and not committed is
replayed; the breaker is open exactly when it should be and comes back; no interval
gets more than burst and refill; every request that is read ends, an answer that comes
from an inspection is on record and one of an open circuit is not, nothing is logged
after the flush; no dashboard gets a scan twice, and one that stays misses a scan only
when a removal overtakes the broadcast (which happens, section 5); the counters of the
layers agree; an index into the quarantine names the call that was seen there exactly
while nothing up to it has been released.

## 2. Modules

```
HashChain ── AuditLog ── MCAuditLog                          AuditLogProofs
   │            └── (refines) Ledger
   └──────── FiveLayers ── MCFiveLayers                      FiveLayersProofs
Breaker ─┬── CircuitBreaker ───┐                             CircuitBreakerProofs
         └── ProductionServer ─┴ MCProductionServer          ProductionServerProofs
                 └── (refines) InspectionService
IntentRegistry ─┐
SlidingWindow ──┴ Defense10 ── MCDefense10                   Defense10Proofs
DashboardFeed                                                DashboardFeedProofs
Drift, Canary, Manifest, Correlation, Enforcer ── MCAdvanced AdvancedProofs
      Semantic ── Gateway ─────┬─ GatewayClient ─┐
Lists ─┬───────── Kernel ──────┴─ RedTeam ───────┤
       └ Gateway, JsonRpc, Tracing, RedTeam      │
Detectors ── Monitor ────────────────────────────┤
TokenBucket, WriteAheadLog, ModelStore,          │
    NetworkMonitor, Alerting, Tracing, JsonRpc ──┴ MCServices ServicesProofs
```

`MCAdvanced`, `MCServices` and `MCProductionServer` put modules into one run whose components
share no state (the server has its own breakers beside the one that threads share): the
variable `part` is chosen at the start and says which of them moves. Their definitions
therefore have names of their own.

### HashChain, AuditLog, Ledger

`HashChain` holds the entry, its hash and `verify_chain()`. SHA-256 is taken to be
free of collisions: a digest is the sequence of the contents chained into it.
`AuditLog` gives every process its entries in memory and all of them one file.
`append()` is two steps, `append` (up to `self._entries.append`) and `persist`,
because the process can die, and the write can be refused, in between.
`persist_raises` is the refused write: the entry stays in memory, the caller gets the
exception. `Crash` may leave the pending line in the file whole, in part, or whole
but for its newline; the next write then lands on the same line (`Written`).
`PowerLoss` drops any suffix, since `_persist` never calls fsync. `Damage` changes one
hashed field of one line. `Reload` is what a content becomes by being written as
JSON and read again: a tuple comes back as a list, and `str(data)`, which is what is
hashed, changes with it. The constant `Faults` says which of these can happen, and
the variable `happened` which have; each property names the faults it does not
survive, so that the exceptions can be read off it.

`Ledger` is the abstract specification: one sequence, which recorders open, extend
and close, and whose newest records a loss of power may drop. The end of `AuditLog` maps
the file's contents to its records and each process's memory to what a recorder sees.
TLC checks that `AuditLog` implements it up to the first spoiling fault
(`LedgerSpec`), and `AuditLogProofs` proves it. `Closed`, what a recorder that is not
running shows, is a constant that is no sequence of contents.

### WriteAheadLog

`write()` is four steps: the temporary file, the append to the WAL, the fsync, and
the unlink with the count. After each the process may die, power may be lost (lines
that no fsync has covered may go), or the disk may refuse. `recover` is the suffix
of the file after `committed_count`. `acked` and `settled` are history: what
`write()` returned for, and what was in the file at a checkpoint.

A failed fsync is simplified: it leaves the line in the page cache as any other.

### Breaker, CircuitBreaker

`Breaker` holds the data of one breaker and what each block under its lock does:
`Read` (the `state` property, which moves an open breaker whose timeout is over),
`_on_success`, `_on_failure`. `CircuitBreaker` runs threads over it; the protected
function runs between `call` and `succeed` or `fail`, outside the lock. The failure
count is only ever compared with the threshold, so it is counted up to it. The model
asks for `failure_threshold >= 1`; the configuration does not check that, and with 0
the first failure opens the circuit.

### TokenBucket

Time is a clock of seconds and tokens are counted in sixtieths, so the refill is
exact; floating point error is not modelled. `before` is history: how many
requests had been granted when each second began.

### ProductionServer

Each connection is a task with one request: `Arrive`, `ReadFails` (malformed, too large, timed
out, gone), `Admit` (shutdown flag, rate limit, `request_started`), `Route` (`_route` up to
the WAL write), `Inspect` (breaker, monitor, audit write, shadow mode), `Send`. Shadow mode is
configured for a process, so `Start` chooses it from `ShadowModes`. It sets `allowed` in every
result, that of the open circuit included, and leaves the findings: `Shadowed` keeps the two
results apart by them, as `shadow_allow` and `shadow_fail_closed`, and both tell the client
"allowed". The clients of `Dribbling` send header after header: each has ten seconds of its
own and nothing bounds their number, so their requests may be read for ever. Between two
awaits a task runs alone, which `loop` says: `Route` and `Inspect` run while the connection
holds the loop. They are two steps because the process can die between the WAL write and the
audit write. `Signal` only sets the flag. `Cancel` is the cancellation of `start()`:
`execute_shutdown()` runs on the loop itself, drains, and checkpoints the WAL. `Exit` ends the
process and drops the open connections; `Start` begins again and, as in the code, does not
call `recover()`. The breakers are `Breaker`'s; the WAL and the audit log are the sets of
requests they hold, since they have modules of their own; the bucket counts whole tokens. Left
out: tracer, logger, alerting hook, request and duration metrics, none of which changes an
answer or a log.

`InspectionService` is what the server is to its clients: `Note` a request, `Record`
its inspection, `Answer` with what fits both, `Open`, `Close`. The mapping takes the WAL
for what is noted, the audit log for what is recorded, and what a client has heard for
the answer: a response computed but not sent was never given, so a crash or a lost
connection between the logs and the client is a stutter. TLC checks the refinement
(`ServiceSpec`) and `ProductionServerProofs` proves it.

### DashboardFeed

`broadcast()` walks `self.active` by index while `connect()` and `disconnect()` change
it at every await. `GoOn` is the step from one await to the next: the next socket,
or the end of the list and the removal of the dead. `list.remove` of a socket that
is no longer there raises, which ends the scan. `Without` is the list that is left,
its sockets ranked among those that stay. A removal at or before the position of a walk
moves those behind it up, so the walk passes over the next: `Overtaken` are the walks
this happens to, `pulled` their history. `NothingMissed` says what holds of the other
walks, and `PushedToEvery`, which fails, what the documentation of the endpoint promises
of all. `Leavers` bounds who may go.

### FiveLayers

`evaluate_call()` is one step (nothing in it waits): registry, proxy, arguments,
semantics, egress, with its early returns, and the exceptions that end it half way:
a rule's condition that raises, arguments that are no object. A call is what the layers tell
apart of it: its server, the monitor's score, whether a shell is named, whether the
intent is dangerous, its destination. Decisions and verdicts are counted, not
listed. The monitor's audit log is `HashChain`'s, in memory and on file: the findings
list is shared between the entry and the decision, so the proxy's reason
changes the entry in memory (`Amended`) after it was written. An operator reads the
quarantine (`get_quarantined`, a copy) and releases by an index into what he read, at any
later time; `arrival` tells calls apart that look the same, and `seen` is what each read
last. Payload sizes do not
occur: `evaluate_call` never passes one. The payload that REDACT produces is left out:
the orchestrator does not use it, and the verdict does not carry it.

### IntentRegistry, SlidingWindow, Defense10

`IntentRegistry` and `SlidingWindow` are what `defense10/egress_proxy.py` does to its
dict of intents and `defense10/rate_limiter.py` to one deque of times. `Defense10`
is the orchestrator over them. `inspect_call` records the intent (which first evicts
old ones), then asks honeypot, classifier, whitelist and rate limit in that order; one
disjunct for each way it ends. A call is its server, the recipients its agent
stated (`to`, `recipient`, `recipients`, `cc`), all addresses anywhere in it, the
canary tokens in it and the classifier's opinion, which counts only when the
classifier could be trained. `inspect_egress` comes at any later time with any
of `Outbound` for recipients. `request` is the addon of a live proxy, which answers by
the same registry and so evicts from it too; `check_rate_limit` is a route of the web
application that asks the same limiter, so its calls use up the room of the sends.
`auto_learn` is the whitelist's option, which the orchestrator leaves off and which is
off in the run. Correlation ids are numbered in the order of the calls, which is the order
of their times and of the dict: ties in the eviction's sort keep that order. `calls`
and `attempts` are history, which the properties compare the registry and the window
with. Lists that only grow are counted. `record()` evicts half of the registry,
rounded down, before it enters the new intent, so the bound is `max_entries + 1`, and two
when `max_entries` is 0 (`MostHeld`).

### Drift, Canary, Manifest, Correlation, Enforcer

`Drift` keeps, as the code does, samples, known fields and sizes apart: the first and
the last are windows, the second never forgets. An output is its field paths and its
size. `Canary` keeps the probes in the order `_find_probe` walks them, since ids may be
taken twice; each registration brings a probe object of its own. `Manifest` has
objects that can be changed by whoever holds them: registration stores the object,
not a copy. A signature is `Unsigned`, one with a `Foreign` key, or the team's of a
content (`Signature`). A content has a version, which the signature covers and `verify`
does not compare. `Correlation` keeps the window
as a sequence that drops its first call; the calls a rule may still combine are a set
of positions in it (`InTime`), and `Places` takes among these the first for each
pattern, as the loop of `_match_sequence` does; a call is the kind of its tool's name, its server,
what it returns and the data in its arguments. `Enforcer` compares documents, maps
from dotted paths to values, with invariants of every kind; a value is what the
kinds tell apart of it (is it text, truthy, can it be hashed). Looking up a value
without a hash raises, which is a verdict of its own. `asked` is the last question; it is
compared with `Worded`, what the comment on each kind says, and `Lenient`, the cases in
which the code is milder.

### Semantic, Gateway, GatewayClient

`Gateway` is what `server/realtime.py` makes of the layers: the thirteen rules of
`_build_defense` that can decide, the registry, the analyzer (`Semantic`) and the one egress
rule, as well as the rule against rogue servers. A call is its kind of tool, its server, the
keys of its arguments and the marks the rules' expressions would find, so a rule is its
priority, its tools and one mark. `Refusing` is the set of layers that would refuse a call,
`BlockedBy` the first of them. `SecurityEvent` is what `_broadcast_scan` makes of the verdict
and `_record_event` keeps the statistics; it has no await, so it is one step. `FiveLayers` has
the layers in general, with any rules and a monitor that scores; here they are as deployed,
where the proxy has no monitor. The agent of the demo draws its calls from the builders of
`server/workload.py`, which the module has at its top; layer, risk, severity and category of
its calls, computed from the model, agree with those the Python code gives. `GatewayClient`
puts agents behind `guard()` in front of it: a request, its handling and its answer are three
steps, and any of them can be lost or late. An agent whose call failed may call again. The
exception of a failed request reaches the caller and the tool is not run: the code fails
closed where its docstring says "fail-open", which is the mutant `scan_fails_open`.

### RedTeam

`RedTeam` is the catalogue of `redteam/payloads.py`, 37 attacks as tool calls and kernel
events, and the simulator: a run takes the attacks of its selection in order, each
as its call (`evaluate_attack`), its kernel events one by one (`feed_event`, an
event of `Kernel`) and its result (`attack_ends`); `run_ends` builds the report. A policy
may be registered between any two of these. The verdict and the layer the model
gives for each attack are those of a run of the Python simulator. Attacks are named by
their place in the catalogue; severities, findings and times are left out.

### Detectors, Monitor

`Detectors` describes a text by the patterns found in its normal form, in each of
its decoded variants and in what normalisation strips, by its personal data and
whether it holds a URL; a regular expression is a name. The classifier's
probability, in percent, is part of a call. `Monitor` runs the four detectors in the
code's order. Two exceptions leave `inspect_call`: the untrained classifier's
(`classify_raises`) and that of an argument that is no object on an e-mail tool
(`exfiltration_raises`), which comes after the use of the server has been counted.
Whether scikit-learn is installed is chosen at the start. `past` is history: the
verdicts and the trust in a server are compared with what it says was registered.

### ModelStore

`save()` is the open that empties the file, the write, and both again for the checksum;
`load()` reads the checksum first, the model after. Several processes run them, with no
lock, as in the code. A write that meets what another process wrote may leave a mixture
(`Partial`); a loss of power takes each file back to anything it ever was, since
nothing is fsynced. A checksum is the content it was taken of.

### Kernel, NetworkMonitor, Alerting, Tracing, JsonRpc

`Lists` has two operators that several of the services use where the code filters a
list or a deque drops its oldest: `Filtered`, a sequence at some of its places, and
`Newest`, its last n. Both are functions of the places, which the prover can reason
about; of `SelectSeq` it knows nothing.

`Kernel` compares each system call with the policy in force and counts connections by
their times; `connects` is history. `NetworkMonitor` compares the rows of the two
tables of connections with the lists that `allow()` and `block()` fill; a port that is
allowed with one remote is allowed with all. `_parse_addr` makes a dotted address of a
row of `tcp` and a text of its own of every row of `tcp6`, IPv4-mapped ones too, which
`_is_local` takes for local: so an address is a form and a host, and `seen` is what the
last scan read and returned. `Tracing` keeps every span ever started beside the
bounded list of the code; a header is one the client was given or any other it makes
up, and a well-formed one is believed. `Alerting` is four steps for each reporter: it
reads the clock, takes the lock and looks up and sets the time, lets go, and starts a
thread, which may fail and ends on its own. Its second half is the histogram, which
counts durations by the first bucket they reach: the stored counts are cumulative, as
the loop makes them, while its docstring calls them non-cumulative and `expose()` sums
them up again. `JsonRpc` walks a batch one entry a step;
a single message is a batch of one, except that a single thing that is no object is
an error (`parse_nothing`).

## 3. What the runs show

| run | instance | shows |
|---|---|---|
| `audit_log` | 2 processes, 3 appends, 2 contents (one that JSON changes), every fault | `LogInv` (types, and no two lines continue the same entry), `ChainIntact`, `MemoryIsFile`, `DamageLocated`, `AckedOnFile`, and the refinement `LedgerSpec` |
| `server` | server: 2 connections, one of a client that dribbles, every kind of request, shadow mode or not at every start, burst 1, threshold 2; breaker: 3 threads, threshold 2, timeout 1 | `ServerInv` (the drain never waits), `RecordsInv` (WAL before audit, inspected answers have their record and those of an open circuit none), `FlushedIsFinal`, `EveryRequestEnds`, the refinement `ServiceSpec`; `BreakerInv` (closed exactly below the threshold), `FailedProbeReopens`, `Recovers` |
| `server_signal` | 1 connection | **violated**: a signal does not end the server (`SignalExits`) |
| `dashboard_feed` | 3 sockets of which 2 may leave, 2 scans | `SentOnce`; `NothingMissed`, of walks that are not overtaken; ended is unlisted (`FeedInv`); broadcasts end (`BroadcastEnds`) |
| `dashboard_missed` | 2 sockets, 1 scan | **violated**: a leaving dashboard makes a broadcast pass over a connected one (`PushedToEvery`) |
| `dashboard_raise` | 2 sockets, 1 scan | **violated**: a leaving dashboard makes a scan fail (`ScanReturns`) |
| `five_layers` | 3 evaluations of 8 calls and an output, 3 proxy rules, 1 egress rule, 2 servers, 2 operators | `LayersInv` (the statistics agree, the first rule wins), `IndexNamesSeen`, `FileVerifies` |
| `five_layers_memory` | the same, 2 evaluations, 1 operator | **violated**: the running log does not verify after a blocked call (`MemoryVerifies`) |
| `defense10` | 4 calls of 4 kinds, a registry of 2 entries, a window and an age of 1, a limit of 1, asked by one route before any send | the registry keeps its bound and its fresh intents (`RegistryInv`); nothing is sent but as stated (`SentAsStated`); no window holds more than the limit (`WindowBound`); refusals are due (`RefusedWhenFull`) |
| `advanced` | a window of 5 samples of 6; 3 probes, 2 of one id; 2 manifests, 7 contents, one of another version and one of another tool; 3 of 4 calls in the window, 4 rules; 4 documents, 2 built-in invariants and one added of 6 | drift is judged by the history (`ChecksAgainstHistory`); `VerdictsHold`: a forbidden field compromises for good, what verifies has the interface of one that was signed, the enforcer passes what its comments say, with named exceptions; sequences in the window are found (`SequencesFound`) |
| `correlation_pivot` | the same | **violated**: a pivot after two calls to one server is not seen (`PivotFound`) |
| `services` | bucket: 40 a minute, burst 3, 6 seconds; WAL: 4 writes, every fault; kernel: 4 connections, 3 policies; network: 5 tables of 4 remotes over `tcp` and `tcp6`, 2 forms of address, 2 alerts; alerting: 2 reporters, 2 kinds of finding, a cooldown of 2, 3 seconds; histogram: 3 buckets; tracing: 4 spans, 2 retained, also under headers the tracer never sent; JSON-RPC: batches of 3 of 10 entries; gateway: 3 scans of 17 calls of the workload and 5 of clients; client: 2 agents, 2 calls, 3 scans; red team: 2 runs of any selection of 37 attacks; monitor: 2 inspections of 10 calls and 2 outputs, 2 registrations; store: 2 processes, 2 models | `BucketInv`, `RateBound`, `RefusalIsDue`; `WalKept` (`WalInv` with `RecoverComplete`, `WrittenSurvives`); `RateAlertExact`; `ScanIsTrue`; `ReportsInv` (`OnePerCooldown`, `BucketsCumulative`, `SpansExact`, `BatchIsItsParts`); `DeployedInv` (`StatsExact`, `GuardedRuns`); `SimulatorInv` (`CatalogHolds`, `ReportAdds`); `VerdictIsDue`, `TrustIsUse`; `StoreInv` (`LoadedIsSaved`, `SavedLoads`) |

The invariants that end in `Inv` join the module's type invariant to the safety
property that speaks of the same variables.

**Bounds.** Three appends give a line before and after a damaged or torn one and two processes
that continue the same entry. Four writes let an entry be lost, kept, checkpointed and
replayed in one behaviour. Three threads are needed for a late success and a late failure
around a probe. In the server two connections suffice because a task holds the loop alone: one
holds it or waits to send, the other is in any place; the threshold of 2 makes one request's
failure meet another's. Three sockets, two of which leave, put a departure before, at and
behind the position of a walk with a dashboard that stays to be missed, and the second
broadcast walks what the first leaves. Three evaluations put two calls in the quarantine and
one after a release, between another operator's look and his release. A registry of 2 entries
overflows at the fourth call, and a clock of twice the window lets times sit inside, at and
beyond its edge. A sixth sample pushes the first out of a window of 5, which is also the
number of sizes the anomaly check asks for. A fourth call pushes the first out of the window
of the correlation. Three scans overflow lists of two, and a clock of twice the window of the
rate lets a scan leave it; two agents and three scans let an answer be lost, its call be made
again and the abandoned request arrive last. Four spans fill a list of two twice. A second run
of the simulator replays an attack after any others and after a policy came. Two inspections
let the first make or break the classifier for the second, two registrations let the second
start the count again; a use earns 30 points instead of 5, so that the trust meets its cap.
Two reporters read the clock in one order and take the lock in the other, and three seconds
put a cooldown of two between them or not. Two processes are enough for one `save()` inside
the other, the third model such a mixture would need being `Partial`. `MaxAppends`,
`MaxWrites`, `MaxTime`, `MaxCalls`, `MaxListed`, `MaxRecords`, `MaxProbes`, `MaxChecks`,
`MaxSigned`, `MaxRecorded`, `MaxClock`, `MaxEvents`, `MaxUptime`, `MaxAlertTime`,
`MaxObserved`, `MaxBatch`, `MaxAlerts`, `MaxCustom`, `MaxSpans`, `MaxRouted`, `MaxScans`,
`MaxScanTime`, `MaxReplays`, `MaxInspections` and `MaxRegistrations` bound the counters, in
the guards of the actions that count.

**Fairness.** It is stated in `MCProductionServer` for the part that runs. Of the
threads and their breaker: the clock advances, started calls end, and callers keep calling
(only a caller moves an open breaker; without callers there is nothing to recover for);
`reset` and `Heal` are not fair. Of the server: the event loop runs every task that can
run; `writer.drain()` is assumed to end; the operator restarts a server that is down; the
clock advances. A request is read to its end, or the reading fails, only of connections
that are not in `Dribbling`: those the timeouts of 30 and 10 seconds bound. Of a client
that dribbles nothing of the kind is assumed, since nothing in the code ends it;
`EveryRequestEnds` says that it holds up no other, and that once its request is read it
ends too. `DashboardFeed!FairSpec`: every `send_json` ends (uvicorn's keep-alive drops a
silent peer) and an endpoint whose peer has left notices. Crashes, signals, departures and
arrivals are never fair.

`CHECK_DEADLOCK FALSE` is set for `ProductionServer`, `DashboardFeed` and `MCServices`:
there the bounded sets of connections, scans and observations are used up and
everything really stops. The
other models run with the deadlock check on.

## 4. What is proved

For every value of the constants, by TLAPS. Each theorem names the property the run of
the same module checks; the invariant that makes it inductive was checked by TLC first,
what it says of every number or sequence over those that occur.

- `AuditLogProofs`: type correctness; `LogVerifies`; `MemoryMatchesFile`;
  `AcknowledgedIsStored`; `DamageIsLocated`; `LogIsOneHistory`; `ImplementsLedger`.
  The inductive invariant `ChainInv` says: without the
  spoiling faults at most one process is up; the whole lines of the file chain up
  to the last (a torn line, and nothing after it but torn text, may end it); an
  idle process's memory is the file; a persisting process's memory is the file and
  one entry more, linked to it. It is needed because `ChainIntact` alone speaks of
  memory and says nothing of what the next `Load` will find. `DamageIsLocated` carries
  the same through a damaged line: the chain is whole up to it and what is read later
  still breaks there. `LogIsOneHistory` holds because digests grow: each
  line continues a longer chain than all lines before it, and so does what a process will
  write next (`Ascends`). In the refinement `append` is a stutter, `persist` is
  `Ledger`'s `Record`, and a `Crash` is its `Close`, or its `LastRecord` when the pending
  line was left whole.
- `DashboardFeedProofs`, for any number of dashboards and scans: `ListIsSound`,
  `NoneSentTwice`, `NoneMisses`. `SentOnce` alone says nothing of the future, so
  `AheadUnsent` says it of every position a broadcast has still to reach: whoever is
  there has not been sent the scan and is not the one it waits on. It survives removals
  because `Without` moves nobody to a later position (`WithoutRemoves`), which rests on
  `RanksFill`: ranks within a finite set of positions are a bijection. For
  `NothingMissed`, `NoneLost` adds to what is shown and sent what is still ahead, and
  `AllListed` that a dashboard is in the list from the moment a snapshot could be built.
  Dashboards leave as they like: a removal behind a walk or by another broadcast keeps
  what is ahead of it (`RemovalKeeps`), and one at or before its position puts the scan
  into `pulled`, the walks of which nothing is claimed; that one of these does miss a
  dashboard is what the run `dashboard_missed` finds.
- `FiveLayersProofs`: `TypeCorrect`; `PriorityDecides`, from the fact that the list of rules
  is at all times the added ones in descending priority, the older first among equals
  (`InOrder`); `FileIsChained`; `IndicesNameSeen`, for any number of operators that release
  behind each other's backs: the quarantine rises by arrival, and by the release of any place
  each index that was read either still names its entry or has come to name a later one
  (`SeenInv`, `NamedRemoved`); `CountsAgree`, whose invariant is the balance of the counts
  itself, shown for each of the ways an evaluation ends, those that raise included.
- `Defense10Proofs`: `RegistryIsBounded`, `SendsAreStated`, `WindowsAreBounded`,
  `RefusalsAreDue`. The invariant relates the registry to the history of calls (an id in the
  registry holds what the call of that id stated, and an eviction takes the oldest) and each
  window to the history of attempts (the deque is the last attempts in the order they came,
  and what left it is older than the window).
- `CircuitBreakerProofs`: `BreakerInvariant` (types, and closed exactly below the
  threshold); `ProbesReopen`; and
  `LoopClosesByProbe`: with one caller, as on the server's event loop,
  `ClosedOnlyByProbe` holds, which two threads refute. The invariant adds to the type that
  the circuit is closed exactly below the threshold, and for the last theorem that
  a running call saw a circuit that is not open.
- `ProductionServerProofs`, for any number of connections: `RecordsHold` (the WAL comes
  before the audit log, an answer that comes from an inspection has its record and one of
  an open circuit has none, in shadow mode too), `FlushHolds`, `ServerCorrect`
  (`ServerInv`, with the drain that never waits) and `ServerImplementsService`, the
  refinement. The invariant is built in three layers, each a lemma that uses the one
  before: `ServingInv`, the stages of the connections and that at most one is between
  `Route` and `Send` while `loop` names it; `LoggedInv`, what the logs hold of a request
  at each stage, without which `RecordsInv` says nothing of a request half way; and
  `CountsOK`, which is where the drain comes from: a server that is up has one active
  request if a handler holds the loop and none otherwise.
- `ServicesProofs`, all of the services:
  - the bucket: `BucketInvariant`, the types with the accounts (`Balance`, `Tight`,
    `Settled`), from which `RateIsBounded` and `RefusalsAreDue` follow. `RateBound` is
    not inductive: it does not say what the tokens at hand may still buy.
  - the classifier's files: `StoreCorrect` (`StoreInv`: what `load()` accepts was saved
    by one `save()`, and what a process saved alone and undisturbed loads). It needs to
    know that every checksum on the disk, now or after a loss of power, is of something
    saved (`ChecksumsSealed`), and that a lone `save()` has its own bytes in the files
    behind it (`AloneInv`, `KeptInv`).
  - the WAL: `WalIsKept` (`WalKept`). `WrittenSurvives` speaks of the file and a loss of
    power takes what was not fsynced, so `AckedSynced` says that what was acknowledged is
    among the lines an fsync covered, or that a torn line, which stops `recover`, is;
    `RecoverComplete` needs that the lines up to `committed_count` are settled
    (`CheckpointCovers`), and `RecoverInOrder` that no line is newer than the write at hand
    (`LinesInOrder`).
  - the monitor: `VerdictsAreDue` and `TrustIsEarned`. `VerdictIsDue` computes again,
    from the registrations and calls before an inspection, what it should have said. The
    invariant `MonitorIInv` therefore says of every state that the shadow detector holds
    what that history says: a server's latest registration and its uses since
    (`Remembers`), and whether the classifier exists and is trained (`Learned`). Entries
    of the past do not change, so a verdict that was due stays due.
  - the kernel monitor: `RatesAreTold` (`RateAlertExact`), of the composition, since the
    red team drives the same kernel monitor (`MonitorsBehave`). Between two connections the
    list of times holds ones that are too old and have not been filtered yet, so the
    invariant (`TalliesAgree` in `KernelIInv`) counts from a moment on: list and history agree
    on every count a later connection may ask for. The filter keeps numbers because ranks
    in a finite set of places are a bijection (`RanksFill`, `FilterKeeps`).
  - the network monitor: `ScansAreTrue` (`ScanIsTrue`). The invariant says that the lists
    are what the operators said (`ListsAgree`) and that the last scan returned what they
    make of the rows it read (`ScanAgrees`). Addresses are compared as the code reads them,
    so nothing is proved of the host behind a row of `tcp6` (section 5).
  - what the server reports of itself: `ReportsAreTrue` (`ReportsInv`). `ReportsIInv` joins
    four invariants. `AlertIInv`: whatever the order in which the reporters read the clock
    and took the lock, the time kept of a kind of finding is that of the alert marked last,
    which is the latest of its kind (`LastMarked`), without which `OnePerCooldown` says
    nothing of the next one. `HistogramIInv`:
    each bucket is a sum over the observations, so that an observation adds one to all
    the buckets it reaches and to no other (`SumPlusOne`). `TracingIInv`: the spans
    retained are the newest in a row, whatever `clear()` dropped and whatever headers
    clients send. `RpcIInv`: of what came, so much has been walked, and what is parsed
    is what the walked part yields, in its order (`FilterAppends`).
  - the deployed gateway and its clients: `GatewayIsTrue` (`DeployedInv`). `GatewayIInv`
    says of each statistic what it is of the history of scans: the counters add up and
    each tally is that of one field (`CountersAgree`, `FieldsTallied`); the window of times
    agrees with the history on every count a later scan may ask for (`WindowAgrees`, with
    `WindowCounts`), which makes the rate recorded that of its window (`RatesAgree`); the
    latencies and the recent events are the newest ones. `StatsExact` alone does not say
    what the window will hold next. For the clients,
    `ClientIInv` is an account: of each call, what was run and what is answered and not
    yet read are together at most the scans that allowed it. A lost or late answer only
    lowers the left side.
  - the red team: `CatalogIsReplayed` (`SimulatorInv`), of the composition, since the
    simulator feeds the kernel monitor. Each of the 37 attacks is accounted for: it is
    expected to be caught and carries something a layer refuses or an event the kernel monitor
    reports, with the gateway's policy or none, or it is expected to pass and carries nothing
    (`Accounted`, `CatalogTold`, `EventsAreFound`). So a result does not depend on what was
    replayed before: `SimIInv` keeps, with `PoliciesKnown`, that every result, also of the
    attack under way, is that of its attack. That a report adds up holds of any list of
    results (`KindsAddUp`, `PartsAddUp`).
- `AdvancedProofs`, five components:
  - `DriftIsOfHistory`: the window is the last samples recorded, and a field is known
    exactly when some sample ever had it (`DriftIInv`), which is what ties the two to the
    one history although samples leave the window and fields never do.
  - `SequencesAreFound`: the window is the last calls recorded (`WindowIsLast`). The rest
    is about the loop: the places it takes ascend and match (`PlacesAscend`), and no
    choice of places is earlier at any pattern (`PlacesEarliest`), so that where any
    choice fits the loop finds one, and what it finds is a choice. These two hold by
    induction over the patterns.
  - `VerdictsAreHeld`, for the composition: an id that answered with a forbidden field has a
    failure on record, and records are never taken back (`CanaryIInv`); every signature of the
    team's is of a content it signed (`ManifestIInv`), so that what verifies has the
    description, parameters and capabilities of one, though not always its version; the
    invariants of the enforcer are only ever added to (`EnforcerIInv`), and of each the code
    finds violated just what its comment forbids but for `Lenient` (`AsWorded`). `PartsBehave`
    shows that a behaviour of the composition is one of each component.

The assumptions are those named in the modules (`FaultsAssumption`, `DataAssumption`,
`TornAssumption`, `ThresholdAssumption`, `TimeoutAssumption`, `BucketAssumption`,
`ClosedAssumption`, `DetectorsAssumption`, `ContentsAssumption`, `SignaturesAssumption`,
`RulesAssumption`, `MinuteAssumption`, `PoliciesAssumption`, ...), which TLC evaluates on
every run. Those of the last three bullets: the limits of the lists are positive
(`GatewayLimitsAssumption`, `SpanBoundsAssumption`, `CooldownAssumption`); the buckets are 1
to some number (`BucketsAssumption`); there are finitely many agents (`AgentsAssumption`); the
rogue server is not registered (`RogueAssumption`); and what the catalogue's texts rest on:
its servers are known, its addresses are not on the allow-list, its synonym is one of the
analyzer's (`CatalogAssumption`).

The proofs use no induction over data as such: the prover cannot instantiate the
library's induction theorems. Where a least element of a set of positions is needed
(the first rule that matches, the first time of a window that is fresh), it is had from
the library's well-founded ordering of finite subsets (`FirstExists` in
`FiveLayersProofs`, and the first lemma of `Defense10Proofs`). Over a bounded range of
numbers the same gives induction on sets: one that has 0 and, with any number, the next
is the whole range (`StepsReach` in `AdvancedProofs`). For sums, which the community
modules define by a fold, the induction is over the subsets of a finite set, its
statement again a set (`SmallerFirst`, `OneByOne` in `ServicesProofs`): the fold exists
(`SumsExist`), does not depend on the order (`SumWithout`), and counting by kinds counts
everything once (`SumOfKinds`).

**Only model-checked:** every liveness property (fairness and ENABLED are out of the
prover's reach): `Recovers`, `EveryRequestEnds`, `BroadcastEnds`. Every invariant and every
action property of a passing run is a theorem. Promises of the source that fail, beside
the five runs that show one, are stated in the modules and not run: `CheckpointHolds`
(`WriteAheadLog`), `ClosedOnlyByProbe` for several threads (`CircuitBreaker`),
`ExposedCountsAll` (`Alerting`), `RollbackDetected` (`Manifest`), `BlockedIsReported`
(`NetworkMonitor`), `BenignPasses` (`Gateway`), `DegradesGracefully` and
`FindingsAddUp` (`Monitor`) and `ExpectedLayersRefuse` (`RedTeam`).

## 5. Where the code and its words differ

What the modules say is what the code does. Where a comment, a docstring or a document of
the repository says otherwise, the entry under `findings` of `PROJECT.json` quotes it;
paths here are under `src/src/mcp_monitor/`.

Shown by a run that is violated:

- `production/shutdown.py:69`: a signal is to drain, flush and exit; it sets a flag and
  nothing then ends the server (`server_signal`).
- `server/realtime.py:560`: a scan is to be "pushed to every connected dashboard"; one is
  passed over when another leaves at or before the walk's position (`dashboard_missed`).
- `server/realtime.py:566`: a scan is to return its verdict; it raises when a dashboard the
  broadcast found dead has been removed by its endpoint (`dashboard_raise`).
- `layers/proxy.py:81`: the audit log is to be immutable; the proxy appends to a list that
  an entry in memory holds (`five_layers_memory`).
- `advanced/correlation.py:265`: the rule for pivots asks about the earliest two calls
  only (`correlation_pivot`).

Stated as a promise in a module, and refuted by TLC when run:

- `audit/wal.py:27`: what was checkpointed comes back from `recover()` after a restart
  (`CheckpointHolds`).
- `production/circuit_breaker.py:110`: a late success closes an open circuit without a
  probe (`ClosedOnlyByProbe`).
- `production/metrics.py:94`: the buckets are to be non-cumulative, the loop makes them
  cumulative and `expose()` sums them again (`ExposedCountsAll`).
- `defense10/network_monitor.py:169`: a connection to a blocked host is to appear; a row of
  `tcp6` never equals a dotted address and passes for local (`BlockedIsReported`).
- `advanced/manifest.py:100`: "Version rollback/jump" is to be detected; versions are not
  compared (`RollbackDetected`).
- `server/realtime.py:518`: two of the eight kinds of everyday calls of the workload are
  refused (`BenignPasses`).
- `detectors/prompt_injection.py:628`: without scikit-learn the first call no pattern
  matches raises (`DegradesGracefully`); `:703`: the scores are not combined
  (`FindingsAddUp`).
- `redteam/payloads.py:51`: three attacks name a layer that would let them pass
  (`ExpectedLayersRefuse`).

Met while modelling, and part of the model:

- `audit/log.py:59`: an append that is refused leaves its entry in memory, and the file
  written after it does not verify.
- `audit/wal.py:61`: the server does not call `recover()`, and a torn line makes it raise.
- `production/rate_limiter.py:62`: "Maximum requests allowed per minute" is the refill; the
  burst comes on top (`RateBound` states what holds).
- `client.py:77`: "fail-open" on a transport error; the call raises and the tool is not run.
- `production/server.py:297`: an unauthorized request is counted as two errors.
- `advanced/correlation.py:219`: an old match is reported again at every later call; `:77`:
  outputs are cut by an index of events.
- `advanced/invariants.py:36`: `FIELD_ABSENT`, `VALUE_MATCHES` and `VALUE_IN_SET` pass
  cases their comments forbid (`Lenient`).
- `protocol/jsonrpc.py:165`: `tools/list` and notifications count as tool calls.
- `defense10/orchestrator10.py:208`: the verdicts of blocked calls are not bounded.
- `server/realtime.py:700`: refused command injections are put down as prompt injections;
  `:603`: the nearest rank is rounded down; `:828`: the classifier that is warmed is not
  the one a scan would use.

## 6. What is not modelled, and the plan

`PROJECT.json` gives the reason per component.

Not modelled:

- The classifier's arithmetic and the corpora it is trained on: floating point over
  text. Its probability is an input of `Monitor`, its opinion one of `Defense10`; its
  files are `ModelStore`.
- The sandbox: each run starts one container through docker or podman, waits for
  it and keeps nothing.
- Logging, configuration, dashboards and reports: they format or show what other
  components keep.

Modelled in part: the semantic analyzer (the list of its findings only grows and is only
read by reports; `analyze_output` is never called), and alerting and metrics (the
counters other than the histogram are plain sums).

A regular expression is a name everywhere: what it matches in a text is an input, what
is made of the match is the model.

Next, in this order:

1. A sliding window as "at most n in any interval", an abstract specification that
   `SlidingWindow` and `Kernel` would both implement.
2. The gateway's statistics in `DashboardFeed`, so that a snapshot and the stream agree
   in numbers and not only in events.
3. The tracer and the metrics in `ProductionServer`, so that counts, spans and answers
   are compared across refusals and failures.
