# proxy-proxy in TLA+

proxy-proxy merges proxy subscriptions: it fetches them on their intervals,
serves the merged node list under `/sub`, and can run relays, local listeners
whose traffic an embedded mihomo sends through those nodes. It is one process of
cooperating goroutines; nothing is persisted. This directory models its
concurrent core and the pure functions its behaviour hangs on, checks the models
with TLC, and proves the central results with TLAPS.

    tlc -workers 2 -config SubStore.cfg MCSubStore.tla      # one run
    tlapm SubStore_proof.tla                                # one proof module

`PROJECT.json` maps every definition to the lines it models and lists runs,
mutants, hazards, findings and theorems.

## 1. The system

| Component | Code | State | Operations | Modelled in |
|---|---|---|---|---|
| Store and render cache | `internal/agg/store.go` | `subs`, `gen`, `cache`, `changed` (channel of 1) under one mutex | `SetNodes`, `SetError`, `Touch`, `Prune`, `Changed`, `Render`, reads | `SubSnapshots`, `Merging`, `Payloads`, `SubStore`, `AggSpec` |
| Refreshers | `internal/agg/refresh.go` | one goroutine per fetched sub and configuration; locals, backoff | `Run`, `Fetch`, `fetchHTTP`, `storeBody` | `Refresh` |
| Reload loop | `main.go` `reloadLoop` | `cfgPtr`, the cancel function of the running refreshers | cancel, swap, prune, start, `SetPlan` | `Refresh`, `Server`, `RelayManager` |
| Watcher and triggers | `main.go` `watchConfig`, `startReloadTriggers`, `loadConfig` | last mtime, size and hash; `reloadCh` and `hup` (channels of 1) | poll, read, signal, load | `ConfigWatch` |
| HTTP server `/sub` | `internal/server/server.go` | none of its own; reads `cfgPtr` and the store | `handleSub` | `Server` |
| HTTP server `/healthz` | `internal/server/server.go`, `Store.Statuses` | none of its own | `handleHealthz` | `Server` |
| Client address | `internal/server/client_ip.go` | the source, immutable | `Resolve` | `ClientIP`, `Computations` |
| Configuration | `internal/config/config.go` | the loaded `Config`, immutable | `Load`, `validate`, `resolveRelaySubs` | `ConfigNames`, `Computations` |
| Relay plan | `internal/relay/plan.go` | none | `NewPlan` | `RelayPlan` |
| Relay rendering | `internal/relay/render.go` | none; a registry per render | `Render`, `proxyRegistry` | `ProxyRegistry`, `Computations` |
| Relay manager | `internal/relay/manager.go`, `render.go` | `plans` (channel of 1); locals of `Run`: plan, debounce timer, last configuration | `SetPlan`, `Run`, `apply`, `Render` | `RelayManager` |
| Relay core | `internal/relay/core.go` | `current`, `proxies`, `groups`, `draining`; the sweep timer of `Run` | `apply`, `markStale`, `sweep`, `nextDeadline` | `RelayCore` |
| Node formats | `internal/node`, `render` of `store.go` | none | parse, build, dedup key, unique names | `ShareLinks`, `NodeLists`, `Computations`; in `Payloads` as keys and variants |
| Start and stop, flags, YAML, durations | various | none | | not modelled, section 7 |

How they interact. Refreshers write the store and never read each other; every
change of nodes bumps `gen` and leaves a coalesced signal on `Changed()`, which
only the relay manager consumes. Requests load `cfgPtr` once and read the store
twice. The watcher and SIGHUP put requests into `reloadCh`; the reload loop takes
one, loads the file, cancels the old refreshers *without waiting for them*, swaps
`cfgPtr`, prunes the store, starts new refreshers and hands the new plan to the
relay manager. The manager renders by reading the store once per sub upstream
and applies the result to mihomo through the core.

What is hard, and what each part therefore has to guarantee:

* **Store.** `Render` takes the mutex twice and renders in between: a body made
  of old nodes must never be cached as new; signals that coalesce must not lose
  a change.
* **Refreshers.** Stragglers of a cancelled configuration write after the reload;
  304s confirm nodes by validators that were stored with them, and a document may
  have no usable node; failures must neither end a refresher nor lose nodes.
* **Watcher.** File, watcher, loader and two lossy channels run at their own pace:
  the last good text must come into use.
* **Server.** A request between the swap and the prune of a reload must be that of
  one configuration.
* **Relay manager.** `SetPlan` must not block on a busy `Run`; a plan cancels the
  debounce timer, and store changes fall between two reads of one render: no
  wake-up may be lost.
* **Relay core.** Objects that hold others are kept across changes; mihomo routes
  connections while it is switched over; connections are compared with successive
  configurations, not with the one that routed them; one timer serves many
  deadlines.
* **Relay plan, configuration names.** Whole-configuration conditions: conflicts
  among any number of relays, names made from hosts colliding with given ones.
* **Relay rendering.** One namespace for proxies, groups and mihomo's own
  proxies; suffixes that depend on other nodes; proxies shared by relays.
* **Node formats.** The same node in two formats must be one node; what is
  written must be read back; a body is recognised by what it contains.
* **Client address.** Header entries are counted or walked from the right, and
  the client may have written the first of them.

## 2. Modules

| Module | What it is | Correspondence |
|---|---|---|
| `SubSnapshots` | the map `Store.subs` and what each method does to it | pure operators, shared by `SubStore`, `Refresh`, `Server` |
| `Merging` | `collectLocked`: the nodes of several subs, one of each dedup key | lists of nodes, which may be values (`SubStore`) or records (`Computations`) |
| `Payloads` | `render`, as the store needs it, over `Merging` | a node is its dedup key and the variants that can show it; a body is the list of nodes shown |
| `SubStore` | the store as a state machine | one action per method; `Render` is `RenderHit`, or `RenderMiss` then `FinishRender`, the two critical sections |
| `AggSpec` | what the store promises | no cache, no generation: a render is one atomic step |
| `Refresh` | refreshers under the reload loop | `ref[e][s]` is the goroutine of sub `s` started by reload `e`; `pc` follows `Run` and `fetchHTTP`; `phase` follows `reloadLoop`; a document is a URL and a time, and the `Barren` ones have no usable node |
| `ConfigWatch` | file to configuration in use | one action per system call or channel operation of watcher, signal goroutine and loader |
| `Server` | one request, to `/sub` or `/healthz`, against refreshes and reloads | `LoadConfig`, `FindKey`, `RenderBody`, `SetHeaders`, `ReadStatuses`: the reads of the handlers; `Render` is atomic, as `SubStore` shows it may be |
| `RelayManager` | `SetPlan` and the select loop of `Run` | drain and send are two steps, every read of `Render` is one; a render ends in one of four ways: nothing new, installed, refused by `core.apply`, or abandoned because marshalling or `core.start` failed |
| `RelayCore` | `apply`, `markStale`, `sweep` and the sweep timer | an object is told apart by the apply that built it; `apply` is four steps, `UpdateProxies`, `UpdateRules`, `PatchInboundListeners` and `Commit`, and `table`, `rules` and `users` are what mihomo has of the configuration at the moment |
| `RelayPlan` | `NewPlan` as a function | endpoints are pairs of places; `FindConflicts` works per port as the code does |
| `FreeNames` | numbering of taken names (`uniqueName`) | names are sequences of parts, so that made and given names can collide; used by the next four |
| `ConfigNames` | `validate` as a function | subs, keys and the subs of relay URLs, in the order of the code |
| `ShareLinks` | `FromURI`, `BuildURI`, the Clash map and the dedup key | a link is a record of what its escapes and base64 decode to; one operator per protocol and transport |
| `NodeLists` | `ParseContent`, `UniqueNames` and the documents `render` writes | a body is a list of entries and the marks by which its format is recognised |
| `ProxyRegistry` | `Plan.Render` as a function | proxies with their names, members of groups, targets of routes |
| `ClientIP` | `ClientIPSource.Resolve` | addresses are values; `Forwarded` is a request as proxies pass it on |
| `Computations` | `Merging` and the five above as one machine | an initial state for every input of a menu, one action per computation, and the properties of the results |
| `..._proof` | the theorems | section 5 |
| `MC...` | instances for TLC | constants and menus of inputs; `MCRelayCore` makes its configurations with `ProxyRegistry` |

`SubStore` instantiates `AggSpec` with a refinement mapping: a caller in the
middle of `Render` already has the answer it is bound to get. `Refresh` and
`Server` instantiate `SubSnapshots` with their own contents, so that all three
state machines do to a snapshot exactly the same thing. `MCRelayCore` composes
`ProxyRegistry` and `RelayCore`: the configurations the core goes through are
those `Render` makes of relays and nodes, with the names it gives the proxies, so
that what a changing list of nodes does to connections goes through both.

Definitions whose comment begins with "Mutant" are the plausible bugs used to
show that each property can fail: substituted for the definition they name, they
make TLC report the property.

History variables, which the code does not have: `mishaps` in `ConfigWatch`;
`during`, `before`, `dropped`, `emptied` in `Server`; `abandoned` in `RelayManager`;
`moved`, `early` and `late` in `RelayCore`; the counters behind the bounds everywhere.

## 3. Runs

### Passing

| Run | Shows | Bounds, and why they are enough |
|---|---|---|
| `store` | the cache is coherent (`CacheCoherent`), because the generation of a render in flight vouches for its nodes and none is used ahead of its time (`IndInv`, the invariant of the proof, with the types); no change goes unsignalled (`ChangeIsSignalled`); the store implements `AggSpec` (`RendersAtomically`) | two subs that share a dedup key, two variants, one node missing from one of them, two concurrent renders (symmetric), two generations. A wrong fill needs one render, one change and a second reader; the theorems cover all other values |
| `refresh` | exactly one live fetcher per configured sub whenever the reload loop rests; validators belong to the document the nodes come from, also when that has none; nodes go only when a reload drops the sub or a document without any replaces them; finally the store shows the present documents and stragglers are gone | one reload out of three configurations (move to another URL, leave, arrive), one upstream change, two failures, upstreams with tags, with dates and with neither; a document without nodes is the second one of an upstream with tags, and the first one of the upstream with dates. Interval 3 with two failures reaches the cap of the backoff. Stragglers of different ages behave alike, so one old generation is enough |
| `watch` | at rest the file's text is in use; the last text comes into use; a SIGHUP brings it in whatever the watcher missed | three writes make room for a text that does not load (text 2), one that comes back and a good one after them; two SIGHUPs fill the `hup` channel and `reloadCh` at once; every stat and read of the watcher may fail, the first ones too |
| `server` | every answer follows one configuration in force during the request; its quota is not older than its body; a sub that was kept throughout is served and reported | one request (requests only read), two bodies, two reloads (the request may span both), configurations that add and remove subs and keys, intervals below an hour and not whole hours |
| `manager` | `SetPlan` never waits; when `Run` rests out of step something will wake it; in the end mihomo runs what the last plan and the nodes ask for, unless the last render was abandoned | two store changes and two plans handed over at any point, a plan without relays, a plan that reads one sub twice, a content mihomo refuses |
| `plan` | exactly the conflicting relays are rejected; every downstream of the rest is served with its type, address and password; no listener confuses callers | all 61 460 configurations of two menus: three relays crowding two ports, and two relays with every form of downstream, valid or not (ports below, at and beyond the limits, unknown and empty types). Conflicts are between pairs; the third relay is there for chains |
| `core` | groups hold live proxies; health checks follow groups; connections off their route are draining; the timer is never later than a deadline; nobody is closed early but those routed during the change; a moved connection comes to its end | two connections, three applies out of four configurations made by `Render` (two nodes of one name; one that inherits the name; another node under the name in an unchanged group, with a changed password; an empty sub and a lost route), two ticks of drain time: two deadlines in different applies and one sweep between them. Connections are routed, registered and finished between any two steps of an apply |
| `functions` | the nine properties of the computations, below | 48 500 inputs: menus made to collide, see below |

The properties of `functions`:

* `NamesAreUnique`. Subs, proxies of a Clash document and proxies of mihomo: no
  name is used twice, nor that of a group or of one of mihomo's own proxies. Menus
  of given names that look like made ones (`a 2` next to two nodes `a`), hosts
  `a` and `a-2`.
* `KeysResolveInOrder`, `SharedFetch`. Keys are served in the order of `subs`; one
  URL has one fetch, at the shortest interval asked for.
* `LinksReadBack`, `LinksSurvive`. A complete map (a server, a port that is one, and
  who is allowed in) written as a link is read back as the same node; what was
  understood of a link is still there after another round. All five protocols, each
  with all its transports and with its options present and absent, well-formed or
  not.
* `ReadsOwnOutput`. One aggregator may subscribe to another in any of the three
  formats, which is recognised without being told: place by place, the nodes read
  are the nodes written, with the names and keys they were served with. All lists of
  up to three of ten nodes, among them a link without a server and a map without
  who is allowed in.
* `MergeKeepsFirst`. A key is served one node of each dedup key, the first one in the
  order of its subs. Two subs of up to two nodes, two of which share a key under
  different names.
* `GroupsAreTheirUpstreams`. The group of a relay is exactly its upstreams, in
  order and once; proxies are shared exactly when they are the same.
* `ClientAddressFound`. A source that describes the proxies in front of the server
  finds the client, whatever the client claims. Up to two proxies and two claimed
  entries, over three addresses and one entry that is no address.

`plan` and `functions` do not check deadlock, as functions stop after their one
step, and neither does `manager`, which rests when nobody changes anything.

Exceptions the properties state, because the code has them: a node that its source
calls `AUTO` or `PROXY` keeps the name in a full Clash document, next to the group of
that name; a full document without nodes is not a Clash body and is then read as
links, its test URL among them; a vless map with `reality-opts` and without `tls`
gains `tls` when it is read from its link; a map with `network: http` loses the
transport in a link; a Clash document loses the nodes without a server, which
`parseClash` skips (`parse.go:60`), and the link of a map that is not complete is passed
through without being understood.

### Violations: where code and documentation part

| Run | What happens |
|---|---|
| `refresh_dates` | Validators are stored under the sub's *name*. When its URL changes and both upstreams send only Last-Modified, the new one may answer 304 to the old one's date, and the old nodes stay for good (`refresh.go:99`). README.md:95: "Changes to the config file are hot-reloaded automatically". |
| `watch_read` | The watcher remembers mtime and size *before* it reads; if that read fails, the change is forgotten (`main.go:255`). README.md:218: the file "is watched (2s poll + content hash) and applied atomically". |
| `dedup` | The dedup key of a Clash map has the network as it is written. A map that says `network: tcp`, the default, has another key than the link of the same node, and both are served (`node.go:71`). README.md:203-205: "Dedup is format-independent". |
| `core_rename` | Nodes of one name are told apart by numbers in their order, and the core keeps a proxy only under its name. When the first of two is gone, the other one inherits its name: it is rebuilt and its connections are drained (`render.go:203`). README.md:189-190: "unchanged upstreams keep their handshakes and health-check results". |

Each of these runs checks one property under the same specification as the
passing run of its module; `core_rename` and `dedup` are about safety and need no
fairness. `ConfigWatch` names two more ways to lose a write, the
mishaps `early` (a write between the first load and the watcher's baseline) and
`revert` (a text put back while its successor is on its way into use: the watcher
compares with what *it* read, not with what was loaded). `WritesTakeEffect` is
false without its exception for either. A SIGHUP repairs all of them, as
`SignalTakesEffect` shows.

A request that loads the old configuration may render the store after the new one
has pruned it (`main.go:166`), and then lacks the subs the reload has dropped.
That is an answer of a request which spans the reload, and no promise of the
documentation is broken by it; `KeptSubServed` speaks of the subs that every
configuration since the request's arrival has.

## 4. Fairness

* `Refresh`: weak fairness of each refresher's `Step` and of the rest of a reload
  once it has begun. Goroutines that can run do, `time.After` fires, and an HTTP
  request ends because the client has a timeout. Failing, publishing and
  reloading are never forced, and a `FetchFails` is as good an end of a request
  as an answer. After finitely many failures fetches succeed: the bound
  `MaxFaults` is what says that failures are over.
* `ConfigWatch`: weak fairness of watcher, signal goroutine and loader. Stats, reads and
  loads may fail whenever they are tried, and nothing says they do not.
* `RelayManager`: weak fairness of `Run` as a whole, not of its branches: Go's
  select picks among ready cases at random, and the result needs no more than
  that it picks one. `SendPlan` is fair because the reload loop is a goroutine.
* `RelayCore`: time passes, `Run` takes the sweep timer, and an apply that has begun
  to switch over goes on to its end, as nothing in it can fail or wait any more. No
  connection is assumed to finish.

The other modules state no fairness.

## 5. Proofs

Eight modules of theorems, for every value of the constants and of the bounds.
Each inductive invariant is named `IndInv` or `Inv`.

* **`SubStore_proof`**: `StoreInvariant`, `CacheIsCoherent`, `ChangesAreSignalled` and the
  refinement `StoreRefinesAggSpec`. `CacheCoherent` alone is not inductive:
  `FinishRender` fills the cache with nodes collected earlier, so a render in
  flight whose generation is current must hold the current nodes
  (`InFlightCoherent`); a new generation must not make an old entry fresh, so no
  entry and no render may carry a generation yet to come (`NoFutureGen`); and a
  render in flight must know a real key (`RenderingHasKey`). Each writer either
  leaves every list of nodes and `gen` alone (`QuietStep`) or bumps `gen`
  (`NewGeneration`); these two lemmas carry five of the nine actions. In the
  refinement `CacheCoherent` is what makes a hit an atomic answer; `FinishRender`
  and the bookkeeping map to stutters.
* **`Refresh_proof`**: `RefreshTyped`, `OneFetcher`, `ValidatorsAreTrue` and
  `NodesAreKept`. The generations of refreshers are numbered: those ahead are off
  (`NoneAhead`), those of the past are cancelled, and at rest those of the present
  are what the configuration asks for and none of them has given up
  (`PresentMatch`), since only a cancelled one does. That validators stay with the
  document of their nodes needs nothing but that every write of one brings or keeps
  the other. What a step of a refresher may do to the store is one lemma
  (`RefresherSteps`): only a refresher that stores a document replaces nodes, so that
  nodes which go without a prune go for a document without any.
* **`ConfigWatch_proof`**: `OnlyGoodTextsInUse`, `RestMeansApplied`. A change travels
  from the file over the watcher's stamp and hash, the channel and the loader into
  use; the invariant says where on this way the last write is: not yet seen but
  about to be noticed (`UnseenIsNoticed`), or loaded or about to be (`SeenIsLoaded`);
  a watcher that could not read the file at first has seen no text at all.
* **`Server_proof`**: `ServerTypeOK`, `OneConfigurationServed`, `KeptSubsServed`,
  `QuotaFresh`. The properties speak of answers; the invariant says what the handler's
  locals mean at each of its steps (`FollowsConfig`, `BodyKeepsSubs`, `QuotaSinceBody`),
  and what the store still has of what the request found (`KeepsSubs`, `QuotaInStore`).
  The types include the interval told to clients: the shortest of the subs', in
  hours, and never none (`HoursAnnounced`).
* **`RelayManager_proof`**: `ManagerTyped`, `SetPlanDoesNotBlock`, `WakeupsAreKept`.
  `NoLostWakeup` says nothing of a render under way. The invariant adds that what
  was read so far is what the store holds, or a signal is pending (`ReadsAreFresh`),
  that at rest the plan is settled unless its render was abandoned (`RestsSettled`),
  and that the latest plan is Run's own, in the channel or about to be sent
  (`PlanArrives`).
* **`RelayCore_proof`**: `GroupsAreCurrent`, `ChecksAreCurrent`, `StaleAreDrained`,
  `DeadlinesAreCovered`, `NoneClosedEarly`. Two ideas: the number in an object is
  that of a past apply, so that a new object differs from all old ones
  (`LiveProxies`, `LiveGroups`); and a connection nothing has moved agrees with the
  configuration in force (`UnmovedAgree`), though `markStale` compares only two
  configurations at a time, while one that is drained was moved at least as long
  ago as its draining has lasted (`DrainedMoved`). A connection routed in the middle of
  a switch may come from the table, rules and listeners of two configurations; what
  it agrees with then is said by `EarlyAgree`, and `Running` says what mihomo has at
  each step of the switch.
* **`RelayPlan_proof`**: `ConflictsAreRejected`, `DownstreamsAreServed`, `CallersAreTold`,
  `PlanTyped`. The loops of `findConflicts`, which go port by port, give up early on
  mixed addresses or a missing username, and otherwise compare owners of a username, reject exactly the valid relays of
  which some downstream conflicts with one of another valid relay. The crux is the
  pair `MeetingIsRejected` and `RejectedMeets`; the latter uses that the downstreams of
  *one* relay fit together (`OwnEndsFit`, from `checkOwnPorts`): if some endpoint on a
  port has another address than the others, or no username, then every relay on
  that port has an endpoint that meets one of another relay. Relays that are kept do not
  meet (`KeptAreUnmet`), so all endpoints on a port agree with the first of them, from
  which the listener is made (`SharedPort`, `ListenerOf`), and a username on a port
  belongs to one relay (`UserOf`).
* **`Computations_proof`**: all nine properties of `functions`, for inputs of every
  size. The loops of the code are folds, and what a fold computes needs induction
  over the sequence. The library's induction theorems take an operator as a
  parameter and cannot be used; `Induction` states the same of a set, from the fact
  that the natural numbers are well-founded, and `FoldExists` gets from the definition
  of `FoldLeft` the results after 0, 1, .. n elements. A lemma cannot have the
  operation as a parameter either, so each loop has its own instance (`AddSubRuns` and
  the like), all with one proof. On these rest:
  * `NamesStayUnique`: of each of the four loops that name things, the names given so
    far are distinct, and `FreeName` finds one that is not taken (`FreeNameIsFree`, by
    counting the numbered names).
  * `KeysAreResolvedInOrder`, `UrlsAreFetchedOnce`: the subs of a key are those at the
    allowed places, in order (`InOrder`, which five other loops share); each
    upstream either finds the sub of its URL or makes it, and the sub keeps the
    shortest interval so far.
  * `FirstsAreKept`: the nodes kept are those at the first place of each key.
  * `GroupsFollowThePlan`: the registry maps what an upstream is to one proxy, and two
    different upstreams to two; the members of a group are the first of each name.
  * `NothingIsLost`, `MapsAreReadBack`: the options of each protocol and transport,
    field by field, parsed, written and parsed again (`VlessAgain`, `TransportAgain` and
    the like); that the parser accepts what the builder writes (`BuiltParses`).
  * `OwnOutputIsRead`: the entries written are at some places of the list, and those
    read at some places of the entries; `RanksOfRanks` says that a place has then the
    same rank in both views. What is read there is `MapsAreReadBack` again.
  * `ClientsAreFound`: the entries of the header are what was claimed, the client, and
    the proxies but the last (`Entries`); counting from the right ends at the client,
    and so does walking, as all entries on its right are trusted.

Assumptions used are those of the modules, each evaluated by TLC in a passing
run, and none restricts the program. Some say that model values are different:
the absent entry, plan or username is not one of the present ones
(`AbsenceAssumption`, `NoneAssumption`), no address is Junk. The others are shapes
the code guarantees before the modelled part begins: a configuration has finitely
many subs and grants a key subs of its own (`validateKeys`), groups that `Render`
makes have members and its routes lead to groups, `xff:0` is refused
(`ParseClientIPSource`). In `Computations` they are what is decoded from a file
(`FilesAssumption`: lists are lists, intervals numbers), that mihomo has finitely many
proxies of its own (`BuiltinsAssumption`), that relays of a plan have names of their own,
as `NewPlan` sees to, and that a node of a list was made by `FromURI` or `FromClashMap`,
as nowhere else nodes are made (`NodesAssumption`).

## 6. Only model-checked

* Liveness (`SettlesOnUpstream`, `StragglersExit`, `WritesTakeEffect`,
  `SignalTakesEffect`, `EventuallyInSync`, `DrainedComesToEnd`): out of the prover's
  reach.

All other properties of the passing runs are theorems.

## 7. Abstractions, and what is left out

* **Texts.** Escapes, base64, YAML, JSON and URLs are what they decode to; a link is a
  record of its parts, with what is malformed in it as a value of a part. How YAML
  is decoded, how durations are spelt and how `file:` URLs become paths is
  character processing without state and not modelled.
* **Client addresses** are values; zones, the forms of one address and prefixes are
  left out, so that "trusted" is membership in a set. A source is given as parsed.
* **Rendering.** Warnings, listeners and rules as YAML are left out. What `checkProxy`
  refuses is a set of maps that cannot be loaded.
* **Start and stop**: linear; every goroutine returns on `ctx.Done`, and nothing is
  persisted. `core.stop` is left out, and so are flags and logging.
* **Cache keys.** The code joins sub names with NUL; the model uses the sequence
  of names. The two agree as long as no name contains NUL.
* **`-watch=false`** starts no watcher; then only SIGHUP reloads, which `SignalTakesEffect` covers.
* **HTTP details.** Size limits, redirects and timeouts are one kind of failure.
  Every upstream that sends a validator honours it as HTTP says; an upstream that
  violates HTTP is not modelled. Tags are unique across URLs, which HTTP does not
  promise, so the finding on dates applies to colliding tags too.
* **mihomo** is external: how a connection is routed, dialled and registered is
  taken from how `core.go` uses it. A connection that is being dialled while a
  configuration is applied is not visible to `markStale`; `StaleIsDraining` and
  `DrainedComesToEnd` except it (`late`). A connection that is routed while `apply`
  switches mihomo over (`core.go:145`-`148`) is compared with `c.current`, which is still
  the old configuration (`core.go:154`): if the change touches its route or its upstream it
  is drained and closed after the timeout, even though the new configuration routed
  it. `NotClosedEarly` and `UnchangedIsKept` except exactly these (`early`); without the
  exception TLC finds `NotClosedEarly` violated.
* **A failed apply** leaves the core unchanged and is modelled in `RelayManager`, as is a
  `core.start` that fails.
* **Nodes of a document** stand for each other: a document has one node or none. How
  several are merged and named is in `Computations`.
* **The backoff** is shown to stay within the interval; that a success forgets it is
  part of the model (`Rested`), and no property is about it.
* **The announced interval** is shown to be at least an hour and that of the
  configuration the answer follows; how the code rounds intervals that are not whole
  hours is translated, not judged.
* **Ghost entries.** A straggler may write a sub that `Prune` has just dropped. The
  entry stays until the next reload; answers follow the configuration and not the
  entries of the store (`OneConfiguration`).
* **304 of `/sub`** means that the client has the body and is not told apart from it.

## 8. Plan

Done, in this order: the store with its refinement and proofs; refreshers, reloads
and the watcher; requests against reloads; relay manager, core and plan; the
computations (names, links, lists, groups, client addresses); core composed with
rendering; the safety proofs of all state machines; the proofs about the plan and the
computations.

Left, in order of importance:

1. An abstract specification of the relay manager (mihomo follows plan and nodes),
   and of a reload (one configuration at a time), with refinements.
2. Manager, rendering and core as one state machine, with the store's changes at
   the one end and connections at the other.
