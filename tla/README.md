# Zoeken in TLA+

Zoeken is a metasearch server: one HTTP request becomes a query, the query
selects search engines, each engine call goes through a shared cache, a health
circuit and a network layer that limits what every remote origin gets to see,
and the answers are merged into one page. Around the search stand a limiter, a
favicon service, an image proxy and an autocompleter. This directory models
these parts, checks them with TLC, and proves the main results with TLAPS.
Paths below are relative to `zoeken/`.

## 1. Inventory

| Component | State it keeps | Operations | Talks to | What is hard |
|---|---|---|---|---|
| Origin permits (`zoeken-storage`) | `origin_leases`, `origin_budgets` | `acquire_origin`, `renew_origin`, `release_origin`, `defer_origin`, `maintenance` | SQLite or Postgres, shared by replicas | a `now` read before the transaction; rows written by all replicas |
| Network manager (`zoeken-network`) | the phase of each request, its lease and timers | `NetworkManager::request` | permits, the origin | renewal racing expiry, cancellation at any await, failing storage |
| Engine circuit (`zoeken-server/src/{executor,engine_health}.rs`) | `engine_health` rows per hour | `latest_engine_health`, `circuit_is_open`, `record_health`, `PendingHealth::drop`, `maintenance` | storage, network manager | the row is read before the request and used after it; retention |
| Engine execution (`zoeken-search/src/{execution,lib}.rs`) | a `JoinSet` of tasks, their outcomes | `run_engines`, `run_one` | executor, tokio timers | two deadlines, panics, join order, dropped searches |
| Response cache (`zoeken-server/src/outbound_cache.rs`) | a moka cache with loads in flight | `get`, `get_or_load` | executor | a leader that is cancelled, failures that must not be kept |
| Image proxy (`zoeken-server/src/image_proxy.rs`, `zoeken-favicons/src/{proxy,safe_outbound}.rs`) | the same | `image_proxy_get` | remote hosts | the policy at every redirect, the size of the body |
| Autocomplete (`zoeken-autocomplete`) | the same | `suggest` | 18 backends | replies of any shape, one timeout for all |
| Favicon service (`zoeken-favicons/src/service.rs`) | `in_flight`: a lock per authority | `get_storage` | favicon tables, resolver | the lock map, cancelled holders |
| Favicon tables (`zoeken-storage`) | `favicon_mappings`, `favicon_blobs` | `favicon_get`, `favicon_put`, `maintenance`, triggers | favicon service | shared blobs, pruning, two-statement reads |
| Limiter (`zoeken-botdetect`, `zoeken-server/src/limiter.rs`) | token buckets, verified networks | `evaluate_at`, `check_at`, `ping`, `derive_client_ip` | router | time read before the lock, eviction, chains of proxies |
| Server lifecycle (`zoeken-server/src/{main,boot,serve,readiness}.rs`) | two readiness flags | boot, drain, storage monitor | everything | order of shutdown, monitor against drain |
| Registry and selection (`zoeken-engines/src/registry.rs`, `zoeken-search/src/selection.rs`) | the registry, fixed at boot | `registry_from_settings`, `select` | settings, preferences | two modes, names against ids |
| Preferences (`zoeken-prefs`) | a cookie in the browser | `resolve`, save, clear | settings, forms | locks set after a cookie was saved |
| Query parsing (`zoeken-query`) | none | `from_params`, `parse_raw` | forms | the order in which words, fields and preferences win |
| Engines (`zoeken-engines`, `zoeken-engine-core`) | none | `request`, `response` | upstream services | paging conventions, filters, refusals that look like success |
| Aggregation (`zoeken-search/src/aggregation.rs`) | none | merge, score, order, coalesce | results | many spellings of one page, order of arrival |
| Settings, data files, serialization, routing, client | none, or fixed at boot | translation | | none that depends on interleaving |

What makes each component correct:

* permits: never more than `max_concurrent` requests at an origin, never more
  permits than the token bucket gives, none before a `Retry-After` has passed,
  and no permit lost for good;
* circuit: only errors with a duration open it, counted ones only from the
  threshold on, a cooldown ends when it runs out, not because a row was deleted
  or overwritten unseen, and no lockout grows without bound;
* execution: the client gets an answer by its deadline, every engine's outcome
  is in it, and timeouts are blamed on the bound that was reached;
* shared loads: one load per key at a time, waiters are never stranded,
  failures and private responses are not kept, durations are told once;
* favicons: mappings and blobs agree, one resolution per authority at a time,
  every lookup returns;
* limiter: no client network gets more than its bucket allows, an unverified
  one not even that, clients are charged under their own address, and a browser
  is refused only for want of a token;
* lifecycle: ready only between start and drain with a healthy storage, nothing
  cut before the grace period is over, and the process ends within it;
* selection and preferences: no engine twice, none that is switched off, locks
  hold and saved choices apply;
* engines: pages meet without gap or overlap, declared filters reach the
  upstream, a refusal does not look like an empty result;
* aggregation: each page once, in the order of merit, one panel per id, none
  that tells of two things.

`PROJECT.json` lists the hazards with their lines, and under each the
properties that would catch it.

## 2. Modules

| Module | Models |
|---|---|
| `OriginStore` | the permit tables; each operator is one transaction with the `now` its caller read |
| `NetworkManager` | `NetworkManager::request` over `OriginStore` |
| `PermitPool` | abstract specification: a pool of permits per origin |
| `EngineCircuit` | the executor's path from the cache miss to `record_health`, with the rows of one engine |
| `EngineExecution` | one search |
| `SharedLoad` | moka's `try_get_with` (external) as its three users rely on it |
| `ResponseCache`, `ImageProxy`, `Autocomplete` | the three users, each with its loads |
| `OutboundLoads` | a service of the three with its callers, cancellation, expiry and eviction |
| `FaviconStore`, `FaviconService` | the favicon tables, and `get_storage` over them |
| `RequestHeaders`, `ClientAddress` | the header heuristics; the client address behind a chain of proxies |
| `BotDetect` | the limiter over both, with buckets and link tokens |
| `ServerLifecycle` | one process from `main` to its end |
| `EngineCore` | `RequestParams`, `EngineResults`, eligibility, challenges, the mapping of statuses |
| `EnginesWeb`, `EnginesAnswers`, `EnginesCode`, `EnginesMedia`, `EnginesPlaces` | the requests and responses of the built-in engines |
| `EngineCatalog` | the engines by name, and the generic engines with the kinds of entries of the catalogue |
| `EngineSearch` | a user paging through one engine |
| `QueryParsing`, `Preferences`, `EngineRegistry` | what their names say |
| `SearchRequest` | the search, preferences and cookie handlers over the three |
| `KnowledgePanels`, `Aggregation` | from the outcomes of the engines to the page |
| `MCNetworkManager`, `MCEngineCircuit`, `MCFaviconService`, `MCSearchRequest`, `MCAggregation`, `MCBotDetect` | model values and inputs of one component for TLC |
| `MCOutbound`, `MCServer`, `MCEngines` | several components that share no state, in one run (see Runs) |
| `*Proofs` | theorems and proofs; `SearchProofs` is about `SearchRequest` and `EngineExecution`, `SharedLoadProofs` about `OutboundLoads` and `FaviconService`, and `ServerLifecycle` has its few proofs at its end |

Compositions. `NetworkManager` extends `OriginStore` and instantiates
`PermitPool`; `FaviconService` extends `FaviconStore`; `OutboundLoads` extends
the three services, all over `SharedLoad`; `BotDetect` extends `ClientAddress`
and `RequestHeaders`; `SearchRequest` composes `EngineRegistry` with
`Preferences`, both over `QueryParsing`; `EngineSearch` takes every engine
through `EngineCatalog`; `Aggregation` extends `KnowledgePanels`. What crosses
from one composition to another, as the result of a network request in
`EngineCircuit` or of a load in `ResponseCache`, is a nondeterministic choice
over everything the other side may deliver.

Definitions named `Mutant of ...` in a comment are wrong variants of the
definition that follows them. No specification uses them; they exist to show
that the properties notice such a mistake.

### Origin permits

A request is `acquiring` (a storage call is pending), `sleeping` (the permit
was refused), `requesting` (the HTTP exchange, with its renewal timer),
`renewing`, `deferring` (a `Retry-After` is being recorded), `releasing` or
`done`. A storage call reads the clock when it is made (`readAt`) and commits
up to `Latency` ticks later: `acquire_origin` on Postgres computes `now`, then
begins a transaction and waits for the advisory lock. Every call may fail, and
`Cancel` drops the future at any await; nothing releases the lease then. A
crash of a replica is the cancellation of its requests. `Maintain` is the
storage monitor of `main.rs`, which runs in every replica.

Abstractions: a lease id is the request that owns it; a token is `Unit` units,
of which `Rate` come back per tick; time is in ticks; the HTTP exchange with
its retries is one step that ends by its deadline. Requests of the `favicon`
network bypass the permits and are not in the model. Replicas share one clock:
clock skew between them is covered only as far as `Latency` stands for it.
The tick that ends a timer is disabled until the timer has been served, so
`Latency` bounds storage delay and scheduling delay together.

`grants` and `notBefore` are history variables that no guard reads.

### Engine circuit

An attempt is `looking` (the select of the latest row), `checking`,
`requesting` (guarded by `PendingHealth`), `recording` (with its own `now`) or
`dropped` (the drop handler's spawned record waits to run). Rows are kept per
bucket with their counters, status, cooldown and category; inserting a row
fires the retention trigger, updating one does not. Records may be lost: the
write fails and is only counted, the future is dropped after `complete()`, or
the process ends. Threshold and durations are constants, so the theorems hold
for every policy. `failed` is a history of the attempts that ended badly; it
lets `RowsConsistent` say that a counted error opens the circuit only when at
least `threshold` attempts really ended so, whatever rows they had read.

`record_health` writes `half_open` only after a success, without a category
(`engine_health.rs:157-176`). The test `recurrent_circuit_failure_escalates_cooldown`
(`executor.rs:590`) gives `cooldown_for` a `half_open` row with a category,
made by hand. `Recurrent` models the function, which doubles for such a row; no
behaviour of the program has one, and no property speaks of it. What doubles is
a failure that finds an open row of its own category whose time has passed. The
double is capped at a day (`engine_health.rs:138-141`), also where the base is
longer: a second Cloudflare captcha suspends for less than the first.

### Engine execution

`Spawn` selects, computes the deadline and spawns; `RunOne` is the first poll
of a task, at most `StartDelay` ticks later; `EngineAnswers`, `TimeOut` and
`Panic` end it; `Join`, `JoinError` and `Report` are `run_engines`; `DropSearch` is the
client leaving. At the tick at which a budget ends the executor's answer and
the timer are both possible, as `tokio::time::timeout` polls its future first.
That a task is first polled no later than the deadline
(`StartDelay <= RequestTimeout`) is an assumption on the runtime.

### Shared loads

A caller asks the cache, joins (it leads, or waits for the leader), and gets
what the leader's load ended with. A leader may be cancelled at every await of
its load; its waiters then start over. `before` is a history of the loads that
had ended when a caller first asked; without it "an old answer" could not be
said. An entry has the class that decides its time to live. A response is what
decides whether it may be kept (status, `Set-Cookie`, `Cache-Control`,
`Vary`), an address what the outbound policy tells apart, a reply of a
suggestion backend its shape and the kinds of its rows.

### Favicons

A caller reads mapping and blob in two steps, as SQLite does (Postgres joins
them, which is the two steps in a row), takes the lock of its authority from
the map or creates one, waits, looks again, resolves, stores and removes the
lock from the map. An icon is its digest, expiry is a flag that an action sets,
and pruning may meet the blobs in any order. On Postgres a foreign key refuses
a mapping whose blob a concurrent clean-up removed: the put fails, which is one
of the storage failures of the model. Transactions are atomic in the model.

### Limiter

A request reads the clock (`timed`), asks whether its network is verified
(`judged`) and locks the bucket (`Charge`), at most `Skew` ticks after it read
the clock; other requests may come in between. `ClientAddress` enumerates what
a client may write into the header and the proxies that may follow; each
arrival carries the address the server derives and the one it should derive.
`start`, `granted`, `behind` and `shown` are histories: an observer begins to
count at any moment. moka drops a bucket when the cache overflows, and the
network starts with a full one; the observer starts over then, so the rate is a
statement about intervals without overflow.

### Lifecycle

`stage` is where `main` is; before `serving` a signal has its default effect.
The storage monitor runs beside it and may set and clear its own flag at any
time, also during the drain. A database outage begins and ends at any time.

### Engines

A query is the kind of its text, page, period, level of filtering and locale.
A request is the window of results it asks for, counted in pages or results,
the period and level it asks for, and two flags for the transport. A reply is a
body of one of eight kinds with the fields of its item, a status, a challenge
marker and header names. URLs, selectors and field extraction are abstracted
away: what stays is paging arithmetic, limits of pages, filters, the reading of
refusals and whether results have links.

### Selection and preferences

`ReadEntry` folds one entry of `settings.engines` into the registry.
`SavePreferences`, `ClearCookies`, `Search` and `NativeSearch` are the
handlers; `Reconfigure` is a restart with other settings while browsers keep
their cookies. `chose` is a history of what the user saved.

### Aggregation

A URL is the record of what its canonical form looks at; `page` and `about`
say which page or entity is meant, and no definition of the code reads them.
Scores are integers, 1200 times those of the code. A text is a set of words in
a panel, and whether it has the term of the query in a result.

## 3. Runs

| Run | What holds, or fails | Instance |
|---|---|---|
| `outbound` | `TypeOK`, `InFlightWithinLimit`, `RetryAfterHonoured`, `ImplementsPermitPool`, `EveryRequestReturns`, `LeaseReclaimed` | two requests on one origin with one permit, burst 2, half a token per tick, lease 5, latency 1, timeout 6 so that requests outlast their first lease, 20 ticks |
| | `OneLoadPerKey`, `WaitersHaveLeader`, `OldAnswersAreFresh`, `ProducerReportsDuration`, `CallersReturn` | three callers of one key; responses, images, and three backends (one disabled); times to live 1 and 2, one redirect, one second |
| `engines` | `FiltersReachUpstream`, `WindowsAbut`, `RefusalsAreErrors` | every engine, eight kinds of text, all periods and levels, two locales, twelve pages; on the first page of a plain search every kind of reply |
| | `RowsConsistent`, `LockoutBounded`, `OnlyLateResultsClose` | three attempts, five kinds of error (the captcha's duration is zero, the Cloudflare captcha's longer than the retention), threshold 2, two ticks per bucket, retention 2, 7 ticks |
| | `RankedByMerit`, `EachPageOnce`, `OnePanelPerId`, `PanelsTellOfTied` | three engines in three orders with up to two results each, whose texts of a page differ; two engines and twelve spellings of three pages; suggestions; an answer and infoboxes of two entities with and without ids, whose titles may overlap |
| `server` | `AnswersByDeadline`, `AnswersReported`, `BlameTrue`, `SearchEnds` | three engines with timeouts below, at and above the request's, one panicking, late starts |
| | `NeverReadyAgain`, `CutOnlyAfterGrace`, `SignalEnds`, `OutageSeen` | three requests, grace 2 |
| | `TablesAgree`, `LookupsReturn` | three callers, two authorities, three icons of which one is too large, failures, expiry and pruning |
| `limiter` | `GrantsWithinRate`, `UnverifiedWithinSuspiciousRate`, `OwnAddress`, `BrowsersServed` | three requests of one network under two addresses, up to two proxies, up to two header tokens of the client's own, capacity 4 and refill 2 (suspicious 2 and 1), cost 2, room for one bucket, idle 2, skew 1, 2 ticks |
| `request` | `AskedTwiceOnlyIfListed`, `SwitchedOffStaysOff`, `LockedPreferencesHold`, `SavedPreferencesApply` | registries of up to two entries, by id, name and alias, in both modes; three configurations, four saved forms, sixteen searches |
| `permits_stale_clock` | `GrantsWithinBudget` fails | four requests on one origin, four permits, burst 1, a token per tick, latency 1, no Retry-After, 6 ticks |
| `favicon_errors` | `SingleFlight` fails | three callers of one authority; the resolver may fail, the storage may not |
| `circuit_retention` | `RetentionKeepsCooldowns` fails | the circuit of `engines` |
| `request_aliases` | `AskedOnce` fails | the inputs of `request` |
| `request_locked_categories` | `LockedCategoriesKept` fails | the inputs of `request` |
| `startpage_captcha` | `CaptchaRedirectSuspends` fails | the requests of `engines` |
| `panels_namesake` | `FactsStayWithEntity` fails | the panels of `engines` |

Parts. `outbound`, `engines` and `server` each run components that share no
state. A behaviour is of one of them, which `part` names in the initial state,
while the variables of the others stay as they began: the states of a run are
the sum, not the product, of those of its parts, and each property is checked
on the part that it is about. Fairness is that of the components, restricted to
their part.

Bounds. Three requests, attempts or callers are the smallest number at which
one can overtake two that already conflict: a waiter, the holder and a
newcomer. `outbound` has two requests, since its clock must be long enough for every
lease to expire after the last request could have renewed it; the theorems
cover any number. The clock bounds are long enough for a grant, a renewal, the
expiry of an abandoned lease and another grant; for a bucket to be filled, left
and retained; for a deadline after a late start; for an entry to outlive the
shorter time to live; for a token bucket to go idle. The bad grant of `permits_stale_clock` takes
four: one is granted, one reads the clock and is late, one is granted the refill
before it commits, and one the same refill after it. When a clock reaches its
bound time stands still while everything else can still happen, except in a
drain, whose grace timer is always served. One key is enough for the loads and
one origin for the permits: nothing is shared between two. Twelve pages pass
the limits of Qwant (5), Brave and Mojeek (10), and the pages at which
DuckDuckGo's size changes.

Deadlock is checked in the failing runs `permits_stale_clock` and
`circuit_retention`. The others switch it off: once a search has reported, all
callers have returned, the process has ended or the page is made, nothing is
left to do. The symmetries of attempts and of the limiter's requests are sound
because they are interchangeable and those runs have no liveness property.

`EveryRequestReturns` and `LeaseReclaimed` say that again and again all requests
are over, or no lease is left. Each request is made once and the clock is
bounded, so this is the same as that each is over, or reclaimed, in the end.

Exceptions. `engines` names engines that are known to fall short of one
property, as constants of the run: `Unfiltered` declare a period or filter they
do not send (`dailymotion`, `bing_images`, `duckduckgo`, and `search360` in the
place of the catalogue entries that set the flag alone), `Unpaged` is
`search360` in the place of entries that declare paging without a placeholder
for it, and `OwnStatus` read the status of a reply themselves and pass over
some refusals (`wikipedia`, `wikidata`, `core`, `qwant`, `github code`). Every
other engine is checked.

Fairness. `NetworkManager`: weak fairness of each request's steps (the runtime
polls a task whose await is ready and every storage call ends, well or not), of
`Tick` and of `Maintain` (the monitor loops every five seconds as long as the
process runs). `EngineExecution`: weak fairness of the first poll, of the timer
of each task, of the joining loop and of time; none of `EngineAnswers`, so an
engine may hang. `FaviconService`: weak fairness of each caller, and strong fairness
of `Lock`, since tokio's mutex is FIFO and a waiter is not overtaken forever.
`OutboundLoads`: weak fairness of each caller's own steps; its loads end since
every client they use has a timeout. `ServerLifecycle`: weak fairness of `main`,
of the monitor's loop and of time; none of requests, so a request may hang.
Nothing is assumed about starts, cancellations, panics, signals and outages.

### What the failing runs show

* `permits_stale_clock`: a caller of `acquire_origin` that waited for its
  transaction writes its old `now` to `last_refill_ms`, also when it finds no
  token; the next caller refills the same interval again. Under load an origin
  gets more than `requests_per_second`. `Budget` proves that nothing else
  breaks the bound.
* `favicon_errors`: after a resolver error the lock leaves the map while
  callers wait for it, and a newcomer resolves in parallel to them.
* `circuit_retention`: `maintenance` deletes health rows after seven days
  because "older data has no bearing on active cooldowns"
  (`zoeken-storage/src/sqlite.rs:362`), while the default suspension after a
  Cloudflare captcha lasts fifteen (`zoeken-search/src/selection.rs:188`).
* `request_aliases`: an entry that names an engine by an alias is not merged
  with the one of the catalogue (`zoeken-engines/src/registry.rs:62`), and one
  search asks both. For the same reason `disabled` in such an entry leaves the
  catalogue's copy on, which `SwitchedOffStaysOff` allows in just this case.
* `request_locked_categories`: `!it` in the query selects a category although
  categories are locked (`zoeken-query/src/lib.rs:541`). The other locks hold.
* `startpage_captcha`: the engine looks up `Location` among header names that
  the HTTP library has put in lower case (`startpage.rs:159`), and takes the
  redirect to the captcha for an answer without results.
* `panels_namesake`: an infobox is folded into a Wikipedia answer if their
  titles overlap, also when both have ids and the ids differ
  (`aggregation.rs:798-801`). This is the case of a real search: the infoboxes
  are those of Wikidata (`wikidata.rs:234`), which always have an id, and a
  namesake or a longer title that contains the answer's is enough. Between two
  infoboxes the ids decide (`aggregation.rs:859`), which `PanelsTellOfTied`
  relies on.

### What the bounds and inputs leave aside

Reading the code for the models showed the following, which no property speaks
of, or which no run reaches because its constants or inputs stay clear of it:

* A refusal of status 200, or a redirect, is an error only for engines that look
  for the signs of their own upstream; the others find no results in it.
  `RefusalsAreErrors` speaks of statuses.
* Of two real texts of a page the one of the engine that comes first in the
  registry is shown and counts for the relevance (`aggregation.rs:640`), so the
  order of the list depends on the order of the engines as far as their texts
  differ; `RankedByMerit` is stated of the text shown, and of nothing else
  that depends on who came first.
* How many panels infoboxes make that have a title but no id depends on their
  order, since being related is not transitive. `OnePanelPerId` claims nothing
  of them; no built-in engine makes one.
* An engine that panicked is reported as cut off by the deadline
  (`execution.rs:132`).
* A verified network that stays active is forgotten after the idle time all the
  same (`link_token.rs:58`), and a `now` older than the bucket's sets the
  bucket's clock back (`token_bucket.rs:93`; the `behind` of `GrantsWithinRate`).
* A caller that finds the favicon under the lock, or is cancelled, leaves its
  entry in `in_flight` (`service.rs:200`).
* The body is read after the lease was released (`executor.rs:203`), and the
  retries inside `Network::request` run under one permit (`zoeken-network`,
  `lib.rs:601`).
* Lease ids are a millisecond and a per-process counter, so replicas may
  collide (`zoeken-storage/src/lib.rs:234`).
* DuckDuckGo's and other next pages need `engine_data` that the client must
  bring back; `Threaded` says whether it does.
* 63 of the 196 catalogue entries declare paging without a place for the page
  (`generic.rs:553`).
* Preferences hold entry ids, so engines with another name are not selected
  once a cookie lists engines (`zoeken-prefs/src/lib.rs:277`).
* A saved language that is not valid refuses every search until the cookie is
  cleared (`zoeken-query/src/lib.rs:695`), and a `timeout_limit` above what a
  `Duration` holds panics (`lib.rs:690`).
* A reply of Google's suggestions with its brackets in the wrong order panics
  (`zoeken-autocomplete/src/lib.rs:503`); the panic ends the load as a
  cancellation does.
* The merge key drops ports (`aggregation.rs:471`) and takes any root path of
  two letters for a locale (`aggregation.rs:575`), and agreement of image
  engines does not break ties (`aggregation.rs:416`); the reports of the runs
  have none of these.

## 4. Proofs

All theorems hold for every value of the constants that satisfies the named
assumptions: any number of requests, origins, attempts, engines, callers,
networks and icons.

**`NetworkManagerProofs`.** `InFlightWithinLimit` counts requests while the code
counts lease rows; the two agree only if a lease outlives the request's next
renewal. The inductive invariant `IInv` says so: a pending call is at most
`Latency` old (`CallsFresh`); the lease of a request in flight is there and
expires later than any `now` an acquirer or the monitor may delete with, at
present and until the next renewal has committed (`PermitsLive`); lease rows
respect the limit; a `Retry-After` that has not passed is still in the budget
row although acquirers write NULL there (`RetryAfterKept`). `PermitsLive` is
inductive if `2 * Latency + RenewEvery < LeaseDuration`
(`LeaseOutlivesRenewal`, a hypothesis of `Invariance`, `ConcurrencyLimit` and
`Refinement`); with the default lease of 15 s this leaves 3.75 s for a storage
call. `Refinement` maps `held` to the lease rows and `working` to the requests
in flight: whoever deletes a row, its request has stopped. `RetryAfter` needs
no hypothesis. `Budget` proves `GrantsWithinBudget` for every latency in the
behaviours in which no call writes a `last_refill_ms` older than the stored one
(`Forward`): granted plus unspent tokens never exceed the burst plus what
refills added (`BudgetInv`). The code does not keep to `Forward`, as
`permits_stale_clock` shows; the theorem says that keeping the later of the two
times would be enough.

**`EngineCircuitProofs`.** No theorem has a hypothesis; durations may be zero
or longer than the retention, and the threshold zero. `RowsTheorem`: the
counters of a row, those an attempt has read, and the failures that wait to be
recorded are failures of different attempts, and never more than there were
(`FailuresCounted`); what a record writes is then justified by its error
(`Justified`) and bounded by its duration (`Bounded`). `CooldownsHold`: an
admitted attempt saw no open circuit (`AdmittedNotOpen`), so if the row it saw
is still the latest there is no cooldown that it could end.

**`SearchProofs`, how a search is put together.** Two invariants and a history.
`RegistryInv`: after any number of entries an engine that is registered
twice has an entry, and one that is on is so in the catalogue or in an entry
(`Sourced`); a list that replaces the
catalogue has registered a copy for each (`OwnCopies`); and as long as all
entries call their engines by their ids the registry is `Merged`, that is, the
catalogue's engines still stand in front in their order (`CatalogueFirst`), no
name is twice in the list (`NamedOnce`), and an engine that the last entry
about it switches off is disabled (`LastCounts`). The induction over the entries is the specification's own:
`ReadEntry` reads one at a time. `ReplyInv`: what the browser shows is what the
handler makes of form, settings, registry and cookie (`Replied`), which are
unchanged until it is read. `ChoiceKept`: for each key a search uses, what the
user last saved is in the cookie, a language by its locale. From these:

* `LocksHold` (`LockedPreferencesHold`) needs no hypothesis: after settings and
  locks changed under an old cookie, a locked preference has the operator's
  value whatever cookie and form say; words of the query change no locked
  language and no engines, but take the place of locked categories.
* `ChoicesHold` (`SavedPreferencesApply`) assumes `CookiesReadable`:
  preferences that were encoded are neither no cookie nor an unreadable one.
* `EnginesAskedOnce` (`AskedTwiceOnlyIfListed`) and `EnginesStayOff`
  (`SwitchedOffStaysOff`) need no hypothesis either: the properties themselves
  say what holds for lists with an entry that calls its engine by an alias, or
  by the name of another one.

**`SearchProofs`, how its engines are run.** `ExecutionInv` ties each task's
timer to its start and the deadline, and joined names to outcomes.
`DeadlineKept`, `ReportTrue` and `NothingLost` follow.

**`EngineSearchProofs`.** `SearchInv` says at which stage of a search what is
known: a selected engine is eligible for the query (`Selected`), the request is
what the engine makes of it (`Asked`), the last request was the one for the
page before (`Continued`), and the result is what the engine makes of the reply
(`Answered`). The rest is a case for each of the engines: `FiltersAskedFor`,
`PagesFollowOn` and `RefusalsFail` hold for all queries, page numbers, locales,
statuses, headers and bodies, where the run has twelve pages and chosen
replies. The exceptions are hypotheses, and as narrow as the run's: the engines
known to fall short must be among `Unfiltered`, `Unpaged` and `OwnStatus`
(`KnownUnfiltered`, `KnownOwnStatus`), and Piped pages on only if clients bring
`engine_data` back. `RepliesTyped` says that a reply is an `EngineResponse`.

**`SharedLoadProofs`, outbound loads.** `FlightInv`: a key's leader is loading that key,
whoever loads a key is its leader, and who waits has one. The steps of the
three services change the table of leaders in four ways only (a call moves,
joins, is settled or abandoned), so the proof has four cases for some twenty
actions; `OneLoad` and `NoOrphanedWaiter` follow. `CacheInv` adds where entries
come from: an entry was kept by a load that ended well, has a class of its
service, and is not from the future; who led a load knows it. `OnlyFreshSuccesses`
and `DurationOfProducer` follow if no backend is called like another service
(`ServicesDistinct`).

**`SharedLoadProofs`, favicons.** `TablesInv` adds to `TablesAgree` that what is about
to be stored is an answer of the resolver; `TablesTheorem` follows for any
sizes, failures, expiry and pruning, with digests that differ from the words
the mapping uses (`IconsAreDigests`).

**`BotDetectProofs`.** A network's account is covered if what it was granted
plus what its bucket holds is within capacity plus refills, whenever the bucket
is next used; `LimiterInv` keeps every account covered at the full rate, and
that of a network that has not shown the token at the suspicious one, for which
every request between its steps must already be judged suspicious
(`UnshownSuspicious`). Of `Rate` and `SuspiciousRate` the hypotheses are `Limits`: suspicion is no laxer
(`SuspicionIsStricter`), a bucket that goes idle would have been full
(`IdleRefills`), and `None` is no state.
`ChargedToSender` (`OwnAddress`) is an induction over the chain of proxies: a
header that was passed on has, after whatever the client typed, the client's
address and then only proxies (`Signed`).
The prover unrolls `Relayed[h]` for every `h` up to `MaxHops`, so neither the
length of the chain nor of what the client typed is bounded; the hypothesis is
that no client has a proxy's address (`NoClientIsTrusted`).
`BrowsersRefusedForTokens` (`BrowsersServed`) needs no hypothesis: the checks
that are made before the bucket let through what browsers send, for every
configuration.

**`ServerLifecycle`.** `LifecycleInv`: a drain has the readiness flag
down, a process that does not serve yet has no requests, a draining one knows
when it began. `ReadinessGone` and `GraceGranted` follow without a hypothesis.

**`AggregationProofs`.** `AggregationInv`: the list merged so far tells what
was found so far (`Lists`). A finding is a page, an engine, a position and a
text; each page found has one entry and each entry is of a found page, credits
the engines of the page's findings once each with their best positions, and
shows a stub only if all findings are stubs (`Credited`). `MergeStep` shows
that `merge_main` keeps this for one result, `ResultsMerged` for the results of
an engine; `SortPermutes` shows that the sort, written as a count of what is
ahead of an item, is a permutation without inversions for any strict weak
order, and `BeforeIsStrict` that the comparison of the code is one. The sums
are the hard part of the merit: the code adds points along a list of engines,
the definition along a set of outcomes in an unknown order; `SumOfList` shows
that they agree.

* `PagesListedOnce` (`EachPageOnce`) assumes `KeyedByPage` of what a report
  lists: every result has a merge key, and two have the same exactly if they
  lead to the same page. It fails for addresses that differ in their port only
  (listed above) and for results without an address, which are not merged.
* `PagesRankedByMerit` (`RankedByMerit`) assumes `PlainReport`: besides
  `KeyedByPage`, each engine has one outcome, and results are of the main kind
  and of no special priority. Texts may differ: merit is defined from the set
  of findings and the text shown, the first that is no stub (`ShownText`).

The panels have an invariant of their own, `PanelsInv`: while outcomes come in,
the answers and infoboxes are among those the report tells; when the page is
done they are what `coalesce_knowledge_panels` makes of them. That is two
folds, written out as `BoxesCoalesced` and `BoxesMerged`.

* `OnePanelEach` (`OnePanelPerId`) has no hypothesis. While boxes are absorbed
  an answer keeps its id, and a box that is kept has the id of no answer
  (`KeepsApart`); while the kept ones are merged no two have one id
  (`MergesById`).
* `UntiedApart` (`PanelsTellOfTied`) has none either. For a set of entities
  that nothing told ties to any other, every answer and every merged box stands
  on one side (`StandsOn`, `MergesOn`): what it may take in next is tied to
  something it was made of, although it gains ids, addresses, a longer title
  and a text on the way (`AbsorbStands`, `MergeStands`).

`KeyedByPage` and `PlainReport` are in `Aggregation`, and `MCAggregation`
assumes them of the reports of the run, so TLC evaluates them.

Induction over data. The library's induction theorems take a predicate as a
parameter, which the provers cannot instantiate. `BotDetectProofs`,
`SearchProofs` and `AggregationProofs` use well-foundedness instead: a set of
numbers that is not empty has a least element (`NatLessThanWellFounded` with
`WFMin`), so a set of counterexamples is empty. The lemmas `Smallest`, `Induction`, `LeastIndex`,
`LeastNat` and `Climb` say it once for sets, which the provers can instantiate.
A fold is the value of a recursive function that CHOOSE picks; `FoldExists` and
`SumExists` show that there is one, so that its equation may be used.

Only model-checked. Liveness under fairness, and ENABLED, are out of this
prover's reach: `EveryRequestReturns`, `LeaseReclaimed`, `SearchEnds`,
`LookupsReturn`, `CallersReturn`, `SignalEnds`, `OutageSeen`. All safety
properties and all action properties of the passing runs are theorems.

## 5. Not modelled

* Loading, merging and validating settings: what they guarantee enters the
  other modules as the assumptions on their constants.
* Routing, response headers, output formats, info pages and static assets;
  data files and their loaders; the client: stateless translation.
* In the engines the text of URLs and the extraction of fields from HTML, JSON
  and XML, and the `sqlite` engine, which reads a local file.
* In the network layer client construction, TLS, proxies and Tor; the HTTP
  exchange with its retries is one step.
* The in-memory favicon backend and the HTTP of the favicon resolvers.
* Of a knowledge panel the image, extract, attributes and related topics: only
  what they are about (`about`) is kept.
* Metrics, logging and the latencies stored in `engine_health`.

## 6. Plan

1. The retry loop of `Network::request` inside the permit, composed with
   `NetworkManager`, for the requests that one token pays for.
2. Settings: environment over file over defaults, and validation.
3. Circuit and permits composed: the body read after the release, and
   `QueueExpired`, which the circuit ignores.
4. Proofs: `SingleFlight` for favicons whose resolver does not fail.
