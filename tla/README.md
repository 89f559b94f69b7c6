# A TLA+ model of scuffinger

scuffinger is a Go service that watches GitHub repositories: an HTTP API with
health endpoints, and a collector that copies the state of GitHub Actions
workflows to Prometheus metrics and PostgreSQL. It runs as several pods that
share one Valkey and one PostgreSQL. This directory holds TLA+ modules of its
state machines, TLC configurations that check them on small instances, and
theorems about ten of them that TLAPS checks for all values of the constants.

Paths below are relative to the repository. `tlc -config X.cfg M` checks a
configuration, `tlapm M.tla` the proofs of a module.

## 1. Inventory

| Component | State | Operations | Hard behaviour |
|---|---|---|---|
| GitHub collector, `internal/services/github_collector.go` | loop variables of `collect`, `lastErr`, the context, the ticker; lock keys in Valkey | `Start`, `collect`, `tryLock`, `collectRepo`, `collectRun`, `collectAnnotations`, `Close`, `Ping` | several pods, locks that expire and are never released, crashes, failed or retried `SET NX`, a `select` between a tick and `ctx.Done` |
| Workflow metrics registry, `internal/metrics/github_collector.go` | gauge vectors, five lists of tracked keys | `Record...`, `ResetTrackedWorkflowMetricsForRepos` | label sets that change from call to call; lists and vectors that must agree |
| Service manager, `internal/services/service.go`, `bootstrap.go`, `cmd/root.go`, `cmd/serve.go`, `cmd/github_monitor.go` | registered services, statuses, context of the health loop, outcome of the process | `Bootstrap` (`ConnectAll`, `AddService`, `RunSelfTests`), `StartHealthChecks`, `CheckHealth`, `CloseAll`, drain of the server | three goroutines and the order in which they are stopped; one step of several failing |
| Readiness and gauges, `internal/server/health.go`, `internal/metrics/health.go` | `health_status`, `health_service_status` | `ReadyHandler`, `SetOverallHealth`, `SetServiceHealth` | requests and the health loop write the same gauges from statuses read earlier |
| GitHub credential pool, `internal/services/github.go` | entries with their last known limits, the active one | `Ping`, `SelfTest`, `rotate`, `Client` | a candidate may not answer, and its count is then an old one |
| Cache and database services, `cache.go`, `database.go` | a connection each; during a self-test a key or a database shared by all pods | `Connect`, `Ping`, `SelfTest`, `Close` | `pgxpool.Close` waits for connections in use; self-tests of two pods that start together |
| GitHub App token cache, `ghauth.go` | token and expiry under a mutex | `RoundTrip`, `installationToken`, `createJWT`, `exchangeJWT` | a cached value that expires by a clock; an exchange under the mutex |
| Device flow and vault, `internal/auth`, `internal/vault`, `cmd/github_auth.go` | stored token and user | `PollForToken`, `Set`, `Get`, `Delete` | polling against a deadline, `slow_down`, a two-step `Set` |
| GitHub proxy, `internal/server/github.go` | none of its own | three lists collected page by page, four single calls | lists that change between two pages |
| Debug browser, `internal/server/debug.go` | none of its own | lists of names, `QueryRows`, `ScanKeys`, `GetKey`, `CacheStats` | offsets, cursors and limits while rows and keys come and go |
| Configuration, `internal/config` | the settings, read once | `Load`, `Migrate`, `CollectorDuration` | old and new settings, environment, file and vault meet in one pool |
| HTTP server, logging, messages, SQL, charts | static, or set once | - | - |

How they interact. `Bootstrap` builds the services in order (cache, database,
GitHub, collector), and the `Manager` calls `Connect`, `SelfTest`, `Ping` and
`Close` of each. Three goroutines run afterwards: main, which serves HTTP until a
signal and then drains and closes; the health loop, which pings every service and
writes statuses and gauges; the collector loop, which uses the cache client for
locks, the credential pool for GitHub and the connection pool for rows. Each
request is one more goroutine. Pods interact through Valkey and PostgreSQL only.

What makes each correct:

- Collector: no two pods collect a repository within one lock lifetime; grants of
  a repository are an interval apart; no repository is starved by a lock nobody
  releases; errors of a cycle reach `Ping`; `Close` ends the loop.
- Registry: a series that is to be deleted is remembered; the lists do not grow;
  no run is shown with two conclusions; nothing is counted twice.
- Manager and readiness: an outage is seen in the end and so is a recovery; the
  process ends after a signal; nothing is closed under a request; nothing stays
  open after `CloseAll`.
- Device flow and vault: polls keep the interval GitHub asks for; a code entered in
  time does not expire; whatever a killed or failing command leaves in the vault,
  Bootstrap uses only tokens that were verified.
- Credential pool: a usable credential is found if there is one, otherwise the
  best; the pool never moves to a worse one. It holds what was configured.
- Token cache: no request carries a token that expires on its way; no token is
  replaced that could still be used.
- Self-tests: pods may make each other fail, but a pod that is left alone gets up,
  and `testdb` is not left behind.
- Proxy and debug browser: what is there all the time is on one of the pages.

## 2. Modules

| Module | Models | Uses |
|---|---|---|
| `RepoLease` | the promise of the distributed lock: one grant of a repository per interval | - |
| `Collector` | the collector loop of several pods, Valkey, time, crashes | refines `RepoLease` |
| `WorkflowSeries` | one cycle in detail, with the metrics registry and GitHub changing meanwhile | - |
| `Manager` | one process: bootstrap, health loop, signal, drain, `CloseAll` | - |
| `Readiness` | the same process with requests for `/health/ready` | extends `Manager` |
| `Rotation` | `Ping` and `rotate` of the credential pool, and GitHub's limits | - |
| `DeviceLogin` | the commands `auth` and `logout`, the device flow with its clock, the vault on three platforms, and `Bootstrap` reading it | - |
| `TokenSource` | what a caller may rely on: a token it is given outlives its request | - |
| `AppTransport` | the transport of an App credential: mutex, cache, exchange, two clocks | refines `TokenSource` |
| `Proxy` | the handlers of the GitHub proxy, over the transport | extends `AppTransport` |
| `DebugBrowser` | lists, paging by offset and by cursor in the debug browser | - |
| `Configuration` | GitHub credentials from the settings to the pool | - |
| `SelfTests` | the self-tests of several pods on one Valkey and one PostgreSQL | - |
| `CollectorProofs`, `RotationProofs`, `ReadinessProofs`, `WorkflowSeriesProofs`, `DeviceLoginProofs`, `DebugBrowserProofs` | theorems and proofs | extend the module they are named after |
| `ProxyProofs` | theorems about `AppTransport` and `Proxy` | extends `Proxy` |
| `StartupProofs` | theorems about `SelfTests` and `Configuration` | extends the two |
| `MCRequests` | `Proxy`, `DebugBrowser` and `Configuration` side by side, for TLC | extends the three |
| other `MC...` | values of the constants for TLC | extend the module they are named after |

### Collector and RepoLease

`pc[p]` is where the goroutine of `Start` is. `loop` is the head of the `for` of
`collect` at repository `next[p]`; `fetch` is `collectRepo` up to
`ListRepositoryWorkflowRuns`, the calls that can fail it; `record` is the rest,
whose errors are only logged; `idle` is the `select`. The five ways through
`tryLock` are actions: `LockGranted`, `LockHeld`, `LockFails` (the call fails with
or without having set the key, the pod collects in degraded mode), `LockRetried`
(the client repeats a command whose answer was lost and finds its own key) and
`LockAfterClose` (the context is cancelled, which the code takes for an
unreachable Valkey). `rdb == nil`, which `Bootstrap` never passes, is not modelled.
`FinishCycle` is the end of `collect` with the reset of the series and the
publication of the error.

Time advances by `Tick`. Lock lifetimes, tickers and collections in progress are
kept as remaining or elapsed units, so no bound on time is needed. The ticker
holds one pending tick and drops others, as `time.Ticker` does. Variables under
*history* (`mode`, `spent`, `sinceGrant`, `waited`, `disruptions`) guard nothing
the program does, except that `spent` and `disruptions` carry the named bounds
`MaxBusy` and `MaxDisruptions`.

A crash forgets the memory of the pod and leaves its locks; `Start` then stands
for the replacement. `Exit` is the process ending without waiting for the
goroutine, as it does after `CloseAll`.

`RepoLease` states the comment on `GitHubCollectorService`. Its variable
`sinceGrant` is a history variable of `Collector`, so the refinement mapping is the
identity on it, and `LockGranted`, `Tick` and `ValkeyLosesKeys` are mapped to
`Grant`, `Elapse` and `Forget`. Degraded collections are not grants: the comment
on `tryLock` gives up exclusion for them.

### WorkflowSeries

One pod, one action per call to GitHub or per `Record...` function. `exposed` maps a
gauge family to the label sets that have a series, `tracked` maps it to the keys in
its list, `total` is the annotation counter. `listed` holds conclusions as the
first call reported them, `jobSaid` as the later one did; `Conclude` changes them in
between. Families that share a list and a label set in the code (duration, status
and timestamps of a step, for example) are one family. Every early return of
`collectRepo` and `collectRun` is an action or a disjunct. The configured names are
assumed to be distinct: one that is configured twice may be collected twice in a
cycle in degraded mode, and then shows the conclusions of both times.

### Manager and Readiness

`phase` and `at` follow main through the loops of `ConnectAll`, `RunSelfTests` and
`CloseAll`; `hpc` follows `CheckHealth`: `Ping`, then `Store` under the lock, for
each service, then `ReadAggregate` and `SetOverall`, which the code does not join
under a lock. `cpc` is the collector reduced to its use of other services: `lock`
needs the cache client, `query` holds a connection of the pool. `conn` is what
`Close` closes; `BeginPoolClose` is `pgxpool.Close` waiting. `rpc` follows
`ReadyHandler` through `IsHealthy`, the overall gauge, a snapshot of `Statuses`, the
gauges in any order, and the second `Statuses` for the body. `well` is whether a
ping would succeed and flips while main serves.

### Rotation

Each stretch of `Ping` and `rotate` between two requests to GitHub is one action:
the mutex is held for the part of it that touches shared state. `remaining` is what
the entries remember, `actual` what GitHub would answer. `JudgeAndGoOn` computes the
next candidate from the credential active at that time, as the code does on each
pass. `Callers` is a parameter since `CheckHealth` is exported, but a process has
one caller: `RunSelfTests` ends before the health loop starts.

### DeviceLogin

`pc[p]` follows a command through `RequestDeviceCode`, the loop of `PollForToken`
(`loop`, `sleep`, `poll`), the verification of the token, and `Set` of the token and
of the user in two steps each (`set`, `add`); or through the two deletions of `logout`.
Each answer GitHub may give to a poll is an action. GitHub keeps its own age of the
code and its own required interval, which the code only follows through the answers:
the deadline of `PollForToken` starts later than the code's lifetime, by the time the
answer took. A unit of the clock is five seconds. An answer is taken to arrive when it
is given; the way to GitHub takes up to `MaxDelay`. GitHub may be slow to answer
`expired_token`, so the deadline of the client has work to do. `Kill` ends a command anywhere.

The vault is what `Get` finds. The first step of `Set` empties the file (Linux) or
deletes the entry, perhaps in vain (macOS, Windows); the second writes. On Windows the
second step may write to the store `Get` does not read. `Load` is `Bootstrap` of
another process.

### AppTransport, TokenSource and Proxy

`pc[c]` is where a caller is in `RoundTrip`: `lock` waits for the mutex, `ask` and
`answer` are the two ways of the exchange, during which the mutex is held, `send` is
the request on its way. Lifetimes are kept as what remains of them on GitHub's clock, and
`drift` is by how much the clock of the pod is ahead, so time is not bounded. `cached`
is counted down only while the token may still be used: a stale one stays stale.
GitHub checks the times of the JWT when it arrives (`ClaimsValid`). All times are in
units of which `Minute` make a minute; `Margin`, `JWTBack` and `JWTAhead` are the minute,
the minute and the nine minutes of the code, `JWTMax` the ten minutes of GitHub.
`ClaimsAccepted` says that these numbers fit together. The assumption
`MaxDelay - Margin <= d` on a drift says that a clock is not behind by more than the
minute of the code less the way to GitHub; without it a token from the cache
may expire on the way, and nothing in the code prevents that.

The refinement maps waiting to everything from the call to the token, and what a
caller holds to what remains of the token of its request. `TokenSource` has no step in
which a token ends while it is held.

`Proxy` adds a list at GitHub that changes while a handler collects it.
`ListBranches`, `ListWorkflows` and `ListWorkflowRuns` differ in where new items appear.
Each page is one more call of the transport; the callers other than `Lister` stand
for the handlers that make one call and for the rest of the process. `Client()` is
asked for each page, so that a rotation may change the credential in the middle of
a list; the module uses one credential, for all of them list the same repositories.

### DebugBrowser

Rows and keys are numbers. `Browse` is a client that begins with one of the views,
`Leave` that it ends; in between it asks for page after page. What the client has seen is
kept as the set `shown` and the number of `repeats`. `QueryRows` is three
queries: `Introspect`, `CountRows`, `FetchRows`. A `sort` by a column with equal values
lets PostgreSQL choose another order each time, and when the read of the columns breaks
half-way the column to sort or to filter by may be missing, so that the page is one of
another list. Either is `unsorted`, for which `RowsPagedOnce` claims nothing. `lost` collects what a handler leaves out without saying so: rows behind a broken
read (`rows.Err` is not asked), keys whose `TYPE` or `TTL` fails, and keys behind the
limit of a batch, which are on no page since the cursor is already behind them.
`Scan` has SCAN visit buckets from the cursor on, as many as hold `COUNT` keys or
fewer, which is what Valkey promises of keys that stay.

### Configuration

One action for each of `Load` (`Unmarshal` after the file and the environment are
read), `Migrate` and the fallback of `Bootstrap` to the vault, and one for each pass of the
loops of `Connect`. Only the credentials and the interval of the collector are modelled.
The empty string is a constant (`NoText`), and
`SourcesAssumption` says that what the file and the environment set has the type of the
setting, as `Unmarshal` demands; the one thing that may not fit, a list of applications in
a variable, is modelled and refused. `Configured` is what the settings say before `Migrate`;
`PoolHoldsWhatWasConfigured` compares the pool with it, place by place: which credentials,
how many of each kind, and which comes first.

### SelfTests

`pc[p]` names the statement a pod executes next. `init` is who wrote the key last, for
all a pod can tell is whether it reads its own value; two pods that start in one
second write the same. `sessions` is who is connected to `testdb`, including sessions
of crashed pods PostgreSQL still holds (`Ghost`). A `DROP` fails while there are any,
and its error is ignored, as is that of `TerminateConnections`. A statement that is under
way when its pod crashes, or that the pod gives up, may be executed at any time
afterwards: `late` holds these, and `LateStatement` executes one. A statement of `runCRUD`
needs none of this, for it ends with its session, which the next test terminates before
it drops `testdb`. `lone` and `abandoned` are history variables: that a pod
has tested undisturbed, by other pods and by what was late when it began, and that a
crash, a failed `DROP` or a late `CREATE` explains why `testdb` is still there.

## 3. Runs

| Run (configuration) | Bounds | Shows |
|---|---|---|
| `collector_faults` (`MCCollectorFaults`) | 2 pods, 3 configured names (one twice, one malformed), interval 2, collections up to 3, any 3 disruptions | exclusion, the key behind it, spacing of grants, refinement of `RepoLease`, reporting of malformed names |
| `collector_prompt` (`MCCollectorPrompt`) | 2 pods, 2 repositories, interval 2, collections up to 1, 1 disruption, no delay outside collections | a bound on how long a repository waits; every repository is collected for ever; `Close` ends the loop |
| `rotation` (`MCRotation`) | 3 credentials, threshold 2, limit 3, 6 changes in the world | what `rotate` settles on, what it asks before, and that the pool comes to rest on a usable credential |
| `readiness` (`MCReadiness`) | 4 services, 1 request at a time (any number in sequence), 2 flips | outages and recoveries are reported, the process ends, nothing is closed under a request or left open |
| `workflow_series` (`MCWorkflowSeries`) | 3 repositories, 2 of them with a run each, 2 annotations, 3 changes of conclusion | lists and vectors agree, do not grow, show one conclusion, count once |
| `device_login` (`MCDeviceLogin`) | 2 commands at once, one of them in the device flow at a time, 2 accounts, Linux and macOS, code lifetime 7 (age counted to 13), interval none or 2, delay 1, 1 slow_down per flow | intervals are kept, a code entered in time does not expire, a flow ends soon after its deadline whatever GitHub answers, Bootstrap uses only verified tokens |
| `requests` (`MCRequests`) | proxy: 2 callers, a minute of 2 units, tokens of 5, delay 1, drift -1, 0, 2 or 3, lists of up to 4 items, pages of 2, 2 changes; browser: 4 rows or keys in 3 buckets, limits up to 3, largest offset 3, 2 changes; configuration: 240 files, 16 environments, vault empty or not | the transport refines `TokenSource`, replaces only stale tokens and sends no JWT that GitHub refuses unless the clock is ahead by more than a minute; pages of a changing list, table or key space miss nothing that stays but for the named causes; the pool holds what was configured |
| `self_tests` (`MCSelfTests`) | 2 pods that test any number of times, 2 crashes or failed statements, each executed later or not at all | undisturbed tests pass, `testdb` is dropped, a pod left alone gets up |

The properties and what violates them are described at their definitions; for
each, `PROJECT.json` names a plausible slip in the code (a lock key without a
lifetime, a reset that misses a family, a round of health checks that ends with the
first failure) under which TLC finds the property violated.

Why the bounds are enough. Two pods suffice for exclusion, which is about pairs. A
collection of 3 units outlasts the lock of 2, so a pod may come back from a
collection after its lock has expired, the case that matters; an interval of 2
separates "one unit left" from "expired". Three disruptions allow a crash of
the holder, a lost answer to the next and a restart of Valkey in one behaviour. With
three credentials `rotate` makes two steps, the least in which keeping the best
and taking the last differ, and six changes let all credentials be used up and one
be restored. The three parts of `requests` share no state, so a behaviour is one of a
chosen part. A drift of 3 is more than a minute, and GitHub refuses the JWT; 2 is just a minute; -1
is the least the margin covers. Lists of four with two changes cross the boundary of a
page in both directions. Two pods and two faults leave `testdb` with the
session of a crashed pod and lose one more statement. A code lifetime of 7 holds two or
three polls, so that both the deadline and `expired_token` end flows, and commands that
save their tokens overlap although only one polls at a time (`MaxFlows`; the flows share
nothing). Two flips let a service fail and recover, or two services fail. The theorems of
section 5 remove the bounds for most safety properties.

### What the code does and its documents do not say

Four runs each refute one statement of a comment or document; `PROJECT.json`
quotes the lines.

- `own_lock`: a skip is said to be due to another instance. A lock is taken some
  time after a tick and lives a whole interval, so a pod alone, without any failure,
  finds its own lock at the next tick and skips the repository.
- `series_reset`: the reset is documented as the first step of a cycle. It is the
  last one and covers what the cycle has just collected, so the tracked workflow
  series do not outlive the cycle that emitted them.
- `gauge_race`: the overall gauge is said to reflect the aggregate always. A
  request that read the statuses before a failed check may write it after.
- `windows_login`: a token is said to be stored in the Credential Manager and found
  there by Bootstrap. `Set` is content when `cmdkey` has stored it, `Get` reads the
  PasswordVault only, to which `Set` writes when `cmdkey` fails.

Others were seen and have no run of their own:

- `PersistentPostRunE` is said to ensure `CloseAll` on exit
  (`docs/ARCHITECTURE.md:199`), but does not run when the drain of the server times
  out and `RunE` returns an error (`DrainTimesOut` in `Manager`).
- `CloseAll` goes in the order of registration, so the collector, said to be cancelled
  first (`docs/ARCHITECTURE.md:70`), is cancelled after the connections it uses are
  closed.
- The series of `WorkflowRunStatus` are in no list, so no reset reaches them and an
  earlier conclusion stays. `Tracked` in `WorkflowSeries` leaves that family out.
- A legacy `client_id` without `app_id` is not migrated, for `Migrate` looks at the id.

None of the four runs needs a fairness assumption: each counterexample is a finite
behaviour.

## 4. Fairness

Safety runs use `Spec`, without fairness. The liveness properties assume:

- `Collector`: time passes; each goroutine is scheduled (weak fairness of
  `PodStep`); a pod that is gone is replaced by the Deployment (`Start`); and
  strong fairness of `Stop`, for `select` chooses at random among ready channels
  and `Stop` is enabled anew after each cycle. GitHub is assumed to answer: the code
  sets no timeout on its calls, so without that nothing can be promised.
- `Readiness`: main, the health loop, the collector loop and the requests are
  scheduled; pings return, having five seconds; an upsert in PostgreSQL returns
  (`CollectQuery`), on which `pgxpool.Close` waits. No fairness of a signal or of an
  arriving request, and none of the choice between `ctx.Done` and a tick.
- `Rotation`: the health loop pings again and again and each request returns, with
  an answer or an error. Nothing about GitHub: `ComesToRestOnUsable` has as its
  hypothesis that some credential stays usable and that GitHub does not refuse the
  active one for ever, the case in which `Ping` returns before it looks at limits.
- `SelfTests`: each pod that tests is scheduled and PostgreSQL answers (weak fairness
  of `Step`); one that is down or has failed is started again, as Kubernetes does.
  Crashes and faults are bounded by `MaxFaults`, so they end.

`NeverStarved` is a safety property whose bound holds for prompt pods (`Prompt`): a
pod that may sit between two repositories for any time lets repositories wait for
any time. Since a collection of a repository began, its key lives an interval, or the pod
that holds it is busy for longer (`LongestHold`); then comes at most one interval, and in
the cycle that it begins the collections of the other repositories (`LongestWait`). Each
disruption costs at most one more such wait.

## 5. Theorems

The proofs use only the assumptions on constants stated as `ASSUME` in the modules:
positive interval, non-empty list whose first name is well-formed, as `SelfTest`
demands, threshold not above the limit, page sizes of at least one, finitely many rows,
limits that are numbers or not numbers at all (`Junk`), and the like. All invariants
and action properties of the passing runs are proved. Where a property compares
counts, as four do, the proof follows one element at a time: a lemma says what
one more element does to the cardinality (`OneMore`, `PlacesGrow`), and the invariant carries
the inequality through each step.

`CollectorProofs`, for any pods, repositories, interval, collection time and number
of disruptions:

- `TypeCorrect`. `TypeOK` is not inductive: that the index stays within the list
  during a collection is needed to type the lock it takes. `TypeInv` adds `AtRepo`.
- `LeasesAreBacked`: `LeaseBacked` is inductive over `TypeInv`. A lock lives one
  interval and a protected collection is younger than that, so the key and the
  collection age together: what is left of the key is the interval less the time
  spent. Another pod can therefore not be granted the key, and a pod in
  degraded mode cannot overwrite it, for `SET NX` writes only where nothing is.
- `LeasesAreExclusive` follows: the owner of a key is one pod.
- `GrantsAreBacked` and from it `CollectorImplementsLease`: a free key means that a
  whole interval has passed since the grant; the simulation maps each action to a
  step of `RepoLease` or a stutter.
- `MalformedNamesAreReported`: strengthened by `MalformedSeen`, that the loop, once
  past the index of a malformed name, carries the error.
- `ReposAreNeverStarved`, for prompt pods. `WaitInv` says of each pod that is up, and of
  each index of a well-formed name, that what the repository has waited and the time until
  this pod tries it again (`UntilTry`: the rest of the cycle, the next tick, the
  collections before that index) stay within the bound; and that while a lock stands, the
  wait and the rest of its lifetime are an interval less than that for the disruptions so
  far, so that a pod that finds the lock held can afford to try again a whole wait later.
  `TickerInv` adds that an idle pod has a running ticker. The products of the bound
  enter by a few facts (`TimeFacts`, `WaitFacts`), for the rest is linear.
  The attempt to prove it showed that an earlier bound, which took the lock to outlast every
  collection, was too small when a collection takes an interval or longer; with interval 1
  and collections up to 2 TLC found the violation, and `LongestHold` is the correction.

`RotationProofs`, for any number of credentials, threshold and limit. `TypeCorrect` is
for any callers; the others assume one (`Callers = {c0}`), as in the process.
`RotationInv` says of a rotation in progress that it asks first the active
credential, then candidate number `step`, that it has tried exactly the candidates
before, and that `best` holds the largest count among the active one and those that
answered. Lemmas about counting modulo `N` (`CandidatesDiffer`, `CandidatesCover`)
show that the candidates are the other credentials, each once. Together they give
`SingleCallerAsksAll`, `SingleCallerSettlesOnHighest` and `SingleCallerInactiveAreLow`.

`ProxyProofs`, first about the transport, for any callers, lifetimes, delays and drifts the
margin covers.
The invariant says that at most one caller is in an exchange, that the cached token is
stale while there is one, and that what remains of a token that is sent, with the age of
its message, exceeds the longest delay. From the mutex follows
`OnlyStaleAreReplaced`: an exchange begins with a stale token, and nobody else
replaces it. `FreshOutlives` is where the assumption on drifts is used: a token that is
fresh by a clock that is behind still outlives a message. With it each step maps to
one of `TokenSource` or to none (`TransportImplementsTokenSource`). `JWTsAreAccepted` is
about the numbers in `createJWT`, for any unit of time: a clock that is ahead by up to a
minute neither issues a JWT in GitHub's future, for the minute back makes up for it, nor
one that expires too late, for nine minutes and one are no more than ten; and one that is
behind by less than the minute of the margin sends none that has expired, for nine minutes
are more than one. The drifts are bounded by `TimesAssumption` below and by the premise of
`ClaimsAccepted` above.

Then about the proxy over it. `ProxyUsesTransport`: each step of `Proxy` is a step of
`AppTransport` or leaves its variables alone, so that what is proved of the transport holds
of the handlers (`TokensOutliveProxyRequests`). `ListsShowWhatStayed`, for any page size and any
number of items and changes. `ListInv` says, while a list is collected, that the items GitHub holds are
distinct and include those that were there all the time; that at most as many of these as
items were deleted stand before the next page without having been collected (`Missed`); and
that the repetitions so far, with the collected items that stand behind the pages
read (`Again`), are at most the insertions. Only the position of an item relative
to the end of the last page matters, so a change moves at most one item across it
(`RemoveKeeps`, `InsertKeeps`), and a page moves none (`PageKeeps`).

`StartupProofs`, first about the self-tests, for any number of pods and faults. `DropInv`: as long as `testdb` is
there and nothing was abandoned, some pod is between its `CREATE` and its `DROP`. A
`DROP` that fails because of the session of another pod leaves that pod to drop it.
`LoneInv` says what an undisturbed pod finds at each statement, and that nothing is late.

Then about the configuration: `PoolIsAsConfigured`, for any files, environments, vaults and
readable keys. `ConfigInv` follows the stages: what `github` holds is what `Migrate` and the
fallback make of the settings, and in the loops of `Connect` the entries are the
tokens that count among the places passed so far (`HoldsTokens`), then the applications
(`HoldsApps`). `TokenAdded` and `AppAdded` are one pass of each loop. In the end the lists
of the pool are compared with those of the settings, from which they differ by an old
credential put first (`PlacesPrepended`).

`WorkflowSeriesProofs`, for any distinct names, runs, annotations and changes at
GitHub. The strengthening of the four properties is `SeenInv`: a tracked series belongs
to a repository the loop has left, or to a run of the present one that is no longer
listed, to the current run only in a family that has been emitted for it. So what is
emitted next has no series yet, and its conclusion is the only one.

`DeviceLoginProofs`, for any commands, accounts, platforms and times. `PaceInv`: the nap and
the time since the last answer add up to the interval GitHub requires, which the client
knows. `DeadlineInv`: the age of the code and what is left to the deadline add up to
between its lifetime and the longest delay more. `InTimeInv`: a code entered early
enough is polled before it expires. `VaultInv`: what is written was verified before.

`ReadinessProofs`, for any services and requests. `RequestInv`: requests are in progress only
while main serves, drains or exits after a drain that timed out. `CloseInv`: main has
closed the services it has passed, whether their `Close` failed or not.

`DebugBrowserProofs`, for any keys, buckets, limits and number of changes. The
invariant says of a key that stays and matches that it is shown, lost, found, in the
batch, or ahead of the cursor; and that what is found or in the batch comes no earlier
than the cursor the request began with, so that a request that fails and is repeated
finds it again. `RowsAreShownOnce`, for any finite table, page sizes and changes: of the rows that stay at
most as many as were removed rank before the offset without having been shown (`Unseen`),
and the repetitions, with the shown rows that rank behind it (`Doubled`), are at most the
rows that were added.
Rows are ranked by number, so the page from an offset to the next one takes the rows of
these ranks and no other (`RankIsUnique`, `NextRank`), and a row that comes or goes shifts
others by one (`RowComes`, `RowGoes`). Of pages that are `unsorted` the property claims nothing.

Only model-checked: the liveness properties (`CollectedForever`, `CloseStopsLoop`,
`LastingOutageIsReported`, `RecoveryIsReported`, `SignalEndsProcess`, `ComesToRestOnUsable`,
`StartsWhenAlone`), which rest on fairness and are out of reach of the prover. With two
callers of `rotate`, which no process has, the properties of the pool are not claimed.

## 6. Not modelled

- Rows in PostgreSQL. The upserts compare no dates, so an older answer may
  overwrite a newer one; listed as a hazard.
- The data race on `lastErr` between the collector and `Ping` as a torn read. `Ping`
  of the collector may change at any moment in `Manager`, which covers old and new
  values, not a mixture.
- `ResetTrackedWorkflowMetrics`, which only tests call; values of gauges.
- A listener that fails: it is logged and main waits for a signal.
- The in-memory vault, which ends with its process; `status` and `POST /api/auth`, which
  change no state; `RunInteractiveAuth`, which nothing calls.
- In the debug browser: `GetKey` and `CacheStats`, which format what Valkey answers, and
  the text of the filters `q`, `from` and `to`.
- In the configuration: settings other than the GitHub credentials and the interval.
- Logging, messages, routing, the request metrics of the middleware, charts: no state
  that changes, or none that the properties see.

## 7. Plan

The plan was, most important first, and all of it exists:

1. `RepoLease`, `Collector`, `CollectorProofs`: the lock is the only protocol
   between pods.
2. `Manager`, `Readiness`: the life of a process, composed by `EXTENDS`.
3. `Rotation`, `RotationProofs`: the one algorithm with a loop under a mutex.
4. `WorkflowSeries`: the inside of `record` of `Collector`.
5. The runs of section 3 on what documents say.
6. `DeviceLogin`: login commands, their clock and the vault.
7. `AppTransport` with its abstract promise `TokenSource`, and `Proxy` on top of it.
8. `SelfTests`: several pods on the shared key and database.
9. `DebugBrowser` and `Configuration`.
10. Proofs for `AppTransport`, `SelfTests`, `WorkflowSeries`, `DeviceLogin`, `Readiness` and
    `DebugBrowser`.
11. Proofs of the properties that count: the bound on waiting of `Collector`, the lists of
    `Proxy`, the pages of `DebugBrowser`, the pool of `Configuration`.

What could be added: rows in PostgreSQL with dates, so that upserts in the wrong order
can be stated; a refinement of the step `record` of `Collector` by `WorkflowSeries`;
the change of credential in the middle of a list, by composing `Proxy` with `Rotation`.
