# CTEM platform: TLA+ models and proofs

The CTEM platform is a TypeScript monorepo of NestJS services around one
Postgres database, a NATS JetStream event bus and Redis. It discovers a
tenant's assets, has scanners look at them, keeps the findings as a backlog,
scores them, applies policies with remediation deadlines, and tells people. This
directory models the parts of it whose correctness depends on the order in which
things happen, and those whose inputs come from third parties and may be partial,
late or wrong: TLA+ modules, TLC configurations, and proofs for TLAPS.

Paths below are relative to the repository root.

1. [Inventory](#1-inventory)
2. [Modules and the code](#2-modules-and-the-code)
3. [Runs](#3-runs)
4. [Proofs](#4-proofs)
5. [Where code and text disagree](#5-where-code-and-text-disagree)
6. [What is not modelled](#6-what-is-not-modelled)
7. [Plan](#7-plan)

`PROJECT.json` has the same in machine-readable form: components, runs, the
mutants that show each property can fail, the map from definitions to source
lines, the hazards and the theorems.

## 1. Inventory

### How the parts interact

```
 web / CI ── api-gateway ──HTTP──► orchestrator ──scan.job.dispatched──► scanner workers
                │ (auth guard, rate limit,  ▲  │                            │     │
                │  circuit breaker)         │  └─ CI publishers ─► forges   │     │
                │                           └──────scan.job.completed───────┘     │
                ├─► asset-service (discovery ticks ─► cloud, forge, DNS APIs)     │
                ├─► identity-service                                    finding.reported
                ├─► findings-service ◄────────────────────────────────────────────┘
                │        │ finding.created / finding.updated
                └─► risk-service (scoring, policy engine, SLA sweep, feeds)
                         │ policy.violated / policy.sla_breached
                         ▼
                    notification-service ──► Slack, Jira, webhooks
```

Services share tables, never memory. Every write goes through
`PrismaService.withOrg`, one READ COMMITTED transaction with the tenant set for
row-level security. Events are at-least-once: `EventBus.handleMessage` acks a
handler that returns and naks one that throws; a message that is not acked within
`ackWait` is delivered again, up to the consumer's `maxDeliver`. Publishing is not
part of any transaction (there is no outbox), so between a commit and its event,
or a call to a third party and the commit that records it, a process can die.
Periodic work (scheduled scans, discovery) is kept to one replica by a Redis
lease; the SLA sweep relies on a claim column instead.

### Components

| component | state | operations | what makes it correct |
|---|---|---|---|
| scan dispatch and lifecycle (`orchestrator-service/src/scans`) | `scans`, `scan_jobs` rows; messages in both directions | `createScan` loop, `retryJob`, `failDispatch`, `applyResult` | the verdict never hides a failed job; a settled scan is closed with the verdict on its rows; every scan closes |
| scan kick and meter | `scan_kicks` rows, unique (org, key) | accept, replay, conflict | one scan per key, one meter row per scan, one fan-out |
| scheduled scans | `scans` with trigger `scheduled` | five-minute tick: look up, create; a tick may overlap the one before | scans of a target a cadence apart |
| scanner worker (`libs/scanner-sdk`) | one `runJob` per delivery | execute, findings, result | findings before success |
| CI publishers | rows at the forge: check runs, statuses, deployments | read the gate, list, then create or update | one row per scan and commit, whatever is retried or overlaps |
| scan planner | none | read the assets of a scan | applicable assets only |
| scan conclusion | none | judge open findings by policies and exceptions | the same verdict as the policy engine's |
| event bus (`libs/events`) | streams, durables | publish, handle, nak | at least once, bounded |
| leader lease (`libs/coordination`) | Redis key; `held` per process | `tryHold`, renew timer, `runIfLeader`, release | a tick works only for who held the key; no theft; leadership returns |
| rate limiter | a Redis bucket per key | one Lua script | never more than the limit per window |
| circuit breaker (`libs/resilience`) | state, failure times, probe flag | enter, record, leave, retry | no stuck half-open; closes after recovery |
| findings ingest and triage | `findings`, `finding_events` | ingest per finding, auto-resolve, triage | the backlog is what the newest scan says, but for what people decided |
| finding normalizer | none | fingerprint, severity, collapse | stable identity |
| policy engine and SLA monitor | `slaDueAt`, `slaNotifiedAt` of a finding; policies, exceptions | evaluate, sweep, claim, publish | one alert per breach, none lost or swallowed |
| risk scoring, feeds, enrichment | scores, vulnerability records | score, download, match | bounded and monotone scores; exact version ranges |
| notification delivery | `notification_delivery_claims` | policy fan-out, claim, send, release | at most once; a failed send is tried again |
| notification channels | none | Slack, Jira, webhook sends | report a failure when there was one |
| discovery and asset inventory | `assets`, `integrations` | sync, upsert, archive stale, connect, remove | only what is gone is archived; the inventory converges |
| asset graph | edges | recursive read | reachability |
| connectors | none | paged listings of AWS, Azure, GCP, GitHub, GitLab, Bitbucket, seven kinds of registries and clusters, DNS | a complete listing or an error; the credential stays with the provider |
| integrations and credentials | `integrations`, secrets | connect, remove, encrypt, resolve | a removed integration owns nothing |
| identity: orgs, members, tokens | memberships, invites, API tokens | found an org, invite, log in, change role, disable, issue, revoke | an org always has an owner; who was disabled stays out |
| gateway | none | authenticate, authorise, proxy | no route without its permission |
| container scanner | a cache of layers | parse the reference, pull, unpack, inventory | scans the image the asset names; reports exactly what is installed |
| ASM scanner | none | enumerate names, vet addresses, probe | says what is so; connects to vetted addresses only |
| SCA, IaC, SAST, CSPM scanners | none | `execute` | pure rules over files and API answers |
| reporting, web, storage, config, observability, auth library | none of their own | reads and wiring | |

### What is hard here

* **At-least-once delivery meets counters.** `applyResult` increments
  `jobsCompleted` per delivery, `retryJob` dispatches a job that may already be
  counted, and `failDispatch` counts one whose message may be on the stream.
* **Read, await, write.** The lease flag `held` is read before a Redis round trip
  and written after it by two callers; the breaker's outcome is recorded against
  whatever state the circuit has by then; the policy engine compares with a due
  date it read before; ingest reopens by a row it read before.
* **Claim, then act.** The SLA sweep and the notification dispatcher write a claim
  before they publish or send. Dying in between loses the message; undoing the
  claim too eagerly sends it twice.
* **Check-then-create without a key.** Scheduled scans and rows at a forge have
  only a lease, or nothing, to keep two creators apart, and a write that is retried
  after a lost answer is not looked for again. The lease does not keep apart two ticks
  of one process, nor work that outlasts it from the next leader's.
* **What is not listed is archived.** A sync archives what a listing left out, so a
  listing that was cut short and passed for complete deletes inventory. Several
  syncs, integrations and removals meet on one asset row.
* **Rules over several rows at READ COMMITTED.** The last-owner rule, the open invite and
  the sign-up index are decided by one query and written by another.
* **Answers of third parties.** Redirects, continuation links, layers and
  certificates say where to go next, and a missing answer looks like an empty one.
* **Order.** A nak'ed report is handled after a newer one.
* **No reaper.** What is dropped (a job nobody supports, a message past
  `maxDeliver`) is never looked for again.

The `hazards` of `PROJECT.json` give each of these its line and the property that
would catch it going wrong.

## 2. Modules and the code

A module keeps all of the control of the code it models and as little of the data
as its properties can tell apart. One transaction, or one step between two
awaits, is one action. Modules with a constant `Faults` take from it the failures their
environment may inject; the others bound theirs by a counter. Definitions whose comment starts with "Mutant" are the
plausible bugs used to show that a property is able to fail; no specification
uses them. `MC*` modules give the constants their values.

**ScanLifecycle**: `scan-dispatcher.service.ts`, `scan-lifecycle.consumer.ts`,
`scanner-worker.ts`. `scan` and `job` are the rows; `calls` are the jobs that a
`createScan` or `retryJob` call has still to publish; `dispatched` and `results`
what JetStream holds; `runs` the `runJob` invocations, which may be two of one job
when `ackWait` expires. `CountJob` is the transaction `applyResult` and
`failDispatch` share: it takes the row lock of the scan by its increment, so
concurrent close-outs are serialised, which is why it is one step. `PublishThrows`
has two outcomes because a publish whose PubAck is lost has stored its message.
`counted` and `recounts` are history. `GiveUpDispatch` is the outer catch of the dispatch loop, which comes before
the first publish and lets `createScan` go on to its answer; `AbandonCreate` is the death of the process, anywhere in it.

**ScanKick** and **KickLedger**: `scan-kick.ts`, the accept part of `createScan`,
`scan-kick-meter.service.ts`. `Begin` resolves header and `externalId` to a key
(blank means absent, disagreement and excess length are rejected before any write).
`FindPrior`/`FindNothing` is the look-up and `Insert`/`Conflict` the insert that the unique index
decides; a conflict rolls back the scan row too. `KickLedger` is the abstract promise:
every slot (an org and its key, or a single request without a key) is given one
scan for good, and every request of the slot is told that scan. `ScanKick`
implements it under the mapping `Asked`, `Ledger`, `Answers`.

**LeaderLease** and **ScanSchedule**: `leader-lease.ts`, `redis.client.ts`,
`lease-store.ts`, `scan-schedule.service.ts`. A Redis round trip is two steps,
`Exec` at the store and `Apply` in the process, on one connection that keeps the order
of a process's commands (`wire`). Neither the renew interval nor the scheduler's waits for its
previous call, so a process has several renewals (`Timers`) and several ticks (`Ticks`, each a
`runIfLeader`, at any time) under way, and `stop`; they share `held`. Time passes in units of the renew
interval, and a tick's work lasts as long as it likes: `lapsed` (history) has the ticks whose process
lost the key under them. ScanSchedule EXTENDS the lease with a sweep for every tick: the look-up of the
last scheduled scan and the create are two steps, and every step of the lease and of other sweeps may
fall between them. A row says by whom it was written (`by`), how many rows its sweep had seen (`saw`)
and whether its tick had lapsed.

**CircuitBreaker**: `circuit-breaker.ts`, `http-policy.ts`, `retry.ts`. Concurrent
`execute` calls on one upstream. Times are ages, capped where the code stops telling
them apart. `Leave` is the `finally` block, which clears the probe flag whoever
leaves. `healed` is the environment: from then on attempts succeed.

**PolicyDelivery**: `policy-notify.ts`, `delivery-claim.ts`,
`notification.consumer.ts`, `event-bus.ts`. One violation. `policy` is the policy
event and its handler; each of its deliveries publishes the wanted channels'
messages again under fresh ids, so a message is known by (delivery, channel).
`run[<<m, n>>]` is the handler of delivery `n` of message `m`; `claim` has the channels with a
row; `sent` counts what the channel really got.

**SlaClock**: `sla-monitor.service.ts`, `sla-notify.ts`, `policy-engine.service.ts` and
the writes of `findings.service.ts` to the same row. `due` is the time left until
`slaDueAt`. A window is the time from one clearing of `slaNotifiedAt` to the next;
`alerts` counts the events of the present one, and a sweep that claimed before
the window ended is at `pubOld`.

**FindingBacklog**: `findings.service.ts`, `finding-ingest.consumer.ts`,
`finding-normalizer.ts` (`collapseScan` as the set of fingerprints of a report). One
(asset, scanner) pair. `Read`/`Upsert` are the two statements of one finding's transaction,
`Close` the `updateMany` at the end. A first delivery comes in stream order, a
redelivery at any time. `MCFindings` has this module and SlaClock side by side: the
two halves of what may happen to the rows of findings.

**Discovery**: `discovery-scheduler.service.ts`, `assets.service.ts`, the POST of `assets.controller.ts` and the connect
and remove of `integrations.service.ts`. `sync[p]` is a process (the leader's tick, a manual kick, the first
sync after a connect) with the integrations it still has to sync (`queue`), the one it is `at`, and where it is in the
`for await` loop: the position it asks for next (`page`) and what the last page held and is not upserted yet
(`batch`). `ReadPage`, `Upsert` and `ArchiveStale` are steps of their own, so the provider may change, and other writers
write, between any two of them; a connector that collects its listing first reads one long page. Something new
comes anywhere in a listing, as the provider's order has it, and a deletion moves the rest up. Times matter only as
`lastSeenAt < syncStartedAt`, so an asset carries the syncs that began after it was last seen (`stale`). `lastSeenAt` is taken
when an upsert reads its row, before it writes: `since` has the syncs that begin in between. `post` is a
`POST /internal/assets` between its read and its write. `owed` (history) is what the
listing held when the sync began and holds since.

**InventoryEgress**, **Connectors**, **Steps**: the fourteen connectors of
`asset-service/src/connectors` (sixteen providers in the model: the Kubernetes connector is EKS, GKE and AKS), their
`*.egress.ts` allow-lists and `credentials.ts`. What an
asynchronous function does is a value: the items it yields, whether it ends without throwing,
and the URLs its credential went to (`Then` and `InOrder` stop at the first throw). A redirect is followed as
`fetch` does it, unless the code passes `redirect: 'error'`: an Authorization header does not leave the origin, a body
that a 307 or 308 resends and a header of another name do (`SentOn`). `Listing` is the
loop that all paged listings have; each connector gives
it what is a good page, what an item becomes, and where the listing goes on. `AcrTokens` are the two exchanges with the
login server that ARM names, behind `assertAcrLoginServer` (`LoginServer`). **ConnectorTrials** gives answers,
contexts, links and redirects, and says what a connector owes the scheduler for them. Metadata, tags and
names are left out; an item has the fields on which the code branches.

**ImageRef** and **ImagePull**: `apps/scanner-container-iac`. ImageRef is what a target names (its key, its
attributes, the integration's options: `parseContainerImageRef` and the six `parse*ImageRef`),
the egress allow-lists and the pull credentials. ImagePull is the exchange with the
registry (tokens, index, platform, manifest, layers, redirects of all of them), the unpacking, the overlay of the
layers and the inventory, in which a `package.json` that is no JSON throws and every other file of which nothing can be
read has no packages. **ImageTrials** gives references, images and stacks of layers, and the
reference definition: the packages of the file system that results.

**Surface** and **SurfaceTrials**: `apps/scanner-asm/src/surface.probe.ts` and its scanner: enumeration by
certificate log and name servers, look-ups, vetting of addresses, ports, certificates, headers of the
root page, and the findings.

**Gates** and **GateTrials**: `scan-conclusion.query.ts`, `libs/contracts/src/domain/scan-conclusion.ts`
and the matching of `policy-engine.service.ts`, which both gates repeat with a query of their own.

**Publication**: the five publishers of `orchestrator-service/src/scans` with their contexts and
credentials, one scan and one forge at a time; it EXTENDS Gates for the verdict. `call[p]` is a
`publish` under way: it reads the gate, lists, and writes. `told` are the rows the forge holds. `AnswerLost` is
a request that was carried out and is sent again by the retry of `libs/resilience`.

**Trial** holds the two variables of such a function call, its input and its output;
the `*Trials` modules choose the input in Init, and one step computes the output.
**ThirdParties** has all of these trials, Discovery and Publication side by side, and **MCThirdParties** their
constants. `TrialSpec(x)` is the behaviour of one call with the input `x`, which is what the theorems are about.

**Membership**: `org.service.ts` and the role table of `libs/contracts/src/domain/identity.ts`.
A request is one READ COMMITTED transaction: its reads are steps of their own, each seeing what is
committed by then, and its writes are its last step. `Create` takes the row lock of
`createOrgForSubject`; nothing else locks. `stale` marks a request one of whose reads was
overtaken by a write to the same org, `raced` the orgs where such a request has written.

Some definitions go beyond `src/`: what JetStream, Postgres, Redis, providers and forges do is modelled
from how the code uses them (ack, nak, `ackWait`, `maxDeliver`; READ COMMITTED and unique
indexes; `SET NX PX` and the two compare scripts; answers by page; rows that a listing shows
or does not).

## 3. Runs

All invariants and properties of a run are checked together. Deadlock checking is
off where a behaviour may end: every bounded counter is used up, every message
settled, every call returned, or every process stopped.

| run | instance | what it shows |
|---|---|---|
| `lifecycle` | one scan of up to two jobs; two deliveries of every dispatch and result; all six faults | `VerdictNeverHides`, `SettledVerdict`, `SuccessHasFindings`, and `EarlyCloseNeedsRecount`: closing before all jobs have reported takes a double count |
| `lifecycle_retry` | two jobs, one retry each, publishes that throw, lost acks | `EveryScanCloses` |
| `lifecycle_retry_close` | as above, no fault at all | `ClosedMeansAllReported` is violated (section 5) |
| `scan_kick` | three calls, two orgs, two keys | `MeterExact`, `SameKeySameScan`, `SentOnce`, and the refinement `ImplementsLedger` |
| `lease` | two replicas, one renewal and one tick each, TTL of two renewals, stalls, store errors, deaths, stops, work of any length | `WorkOnlyWhileHolding`, `NoTheft`, `LeadershipReturns` |
| `schedule` | two replicas with two ticks each, two under way at a time, one target, cadence 2, TTL 2, time 3, store errors, work of any length | `Spaced` |
| `breaker` | three callers, threshold 3, window 3, cooldown 2, three attempts | `ProbeFlagOwned`, `ClosesAfterRecovery` |
| `delivery` | one channel, two deliveries of the event and of each message, all four faults | `AtMostOnce`, `NoOrphanClaim`, `Notified` |
| `findings` | two sweeps, two evaluations, two pending events, `slaHours` 2, failing publishes; and three reports of two fingerprints, two deliveries, failures, queueing, triage inside a transaction | `AlertOnce`, `ClaimedIsBreached`, `ClaimMeansAlert`, `BreachAlerted`; and `FollowsNewest` |
| `backlog_reordered` | two reports, failures, queueing | `BacklogHonest` is violated (section 5) |
| `membership` | two users, two orgs, two requests at once, four in all, two invites | `KeepsAnOwner`, `OneSignup`, `DisabledStaysOut` |
| `third_parties` | all trials; two integrations, two assets, two processes, two events; two callers, three calls, two attempts, one change | connectors: `CompleteOrRefused`, `SecretsStayHome`, `ExposureHonest`; images: `ImageNeverContradicted`, `InventoryExact`; surface: `SurfaceHonest`, `OnlyVetted`; gates: `GatesFollowEngine`; syncs: `ArchivedWasGone`, `Converges`; forges: `OneRowPerScan` |

`findings` and `third_parties` put parts side by side that share no variable. A behaviour is
of one part; the others stay at rest in it, so the states of the parts add up and do not multiply.

### Bounds and why they are enough

* Two jobs are what a wrong count needs: one counted twice, one not at all. Scans
  share no row and no message, so one scan shows every interleaving of its own. Two
  deliveries let two runs of one job overlap and one result be applied twice; one
  retry makes a job count twice without any fault.
* Three calls of the kick are a winner, a loser and a bystander of another org or key.
* Two replicas are a leader and its successor. A TTL of two renewals tells a renewal in time, one
  that is missed and a key that is lost apart; the code's ratio is three, which adds a second missed one
  and is proved with every other TTL. Two ticks of one process are the fewest that overlap; in `lease` a renewal
  and a tick share `held`, and several renewals at once are left to the theorems, since TLC cannot finish them.
* Three callers of the breaker are a probe, a slow call admitted before the opening,
  and one that is rejected or becomes a second probe. The window is longer than the
  cooldown, so failures of before an opening could be counted after it.
* The claims of two channels never meet, so one wanted channel is enough; two
  deliveries of the event give two messages with one claim key.
* A third report is needed for one that is applied after a reopen.
* Two integrations are what one asset can be taken over by and back; two processes are the
  leader's tick and a manual kick of the same integration; two events are a change and a
  failure, a removal and an appearance, or a POST and a deletion, in any order. `Starts` are four: one integration with
  one asset and both events to come, one with two assets (two pages, or one of two) and one event, and two integrations with
  one event, or with an asset each and none. More of both does not finish in time.
* The answers of a provider are all combinations, over two pages, of no, one or two
  items of which one may be odd (without a name, foreign, not chosen, public, without a visibility), errors, four
  kinds of bodies, and a continuation or a redirect that leads astray in one of six ways; the page cap is 2,
  so a third page is refused. Registries and clouds add a level: the answers below an item. Every credential has
  every combination of what `credentials.ts` asks of it.
* Three layers hold a package added, replaced and removed again, with a
  layer between; the limits of layers, entries and packages are 3, so four are refused.
* A surface has five names besides the apex, some of them of another domain in some answers, of which two at most
  are probed; the certificate log has one or two pages, or one more than the cap.
* Gates: two policies, two findings and one exception are a match, a tie and a match
  that is overridden; a verdict takes no more than the first match of each finding.
* Publication: two callers race, a third call comes after both; one retry repeats a
  write; one change moves the verdict between two readings.
* Membership: two owners are the fewest that can demote each other; four requests found an org,
  invite, accept and disable, in either org; two invites are an old and a new one.
* `MaxTime` of `schedule` is longer than the cadence and the TTL: targets fall due again, also under a second leader.

Symmetry is used only in runs without liveness, and only over sets whose
members the module never tells apart (jobs; replicas and ticks in ScanSchedule; users, orgs and
requests in Membership). ScanSchedule takes its targets in a fixed order with CHOOSE, so they
are not a symmetry set.

### Fairness and why the code justifies it

* `ScanLifecycle`: weak fairness of the three loops (dispatch, worker, consumer):
  live processes keep going and JetStream keeps delivering. None for faults.
  `EveryScanCloses` is stated without the faults that make the code drop a job for good
  (unsupported jobs, crashes in the dispatch loop, deliveries used up by throwing
  handlers): nothing in the code resumes such a scan.
* `LeaderLease`: the renew interval fires, Redis answers, promises resume, a sweep ends, time passes. Not fair: `Start`, `Stop`,
  `Die`, `Throw`, the tick itself. `LeadershipReturns` asks for nothing until the failures have stopped
  (`<>[][Calm]`), and then only while some replica stays up.
* `CircuitBreaker`: attempts end (`AbortSignal.timeout`), back-offs end, callers keep calling. That an attempt
  succeeds is not assumed before `Heal`, and `Heal` itself is not assumed.
* `PolicyDelivery`: JetStream delivers what is pending and handlers run to their end; whether a send succeeds is not assumed.
* `Discovery`: the leader's interval keeps sweeping, a sync that was begun goes on, and a POST that has read its row writes it.
  Changes, failures, crashes, connects, removals and POSTs are not fair; they are bounded, and `Converges` speaks of what is so
  after the last of them. Its premise is that at some time upserts are no longer overtaken by new syncs (`<>[]~Overtaking`): with
  one process after another starting a sync inside each other's upserts, rows look unseen for ever.
* `Membership`, `Publication` and the trials have safety properties only and need none.
* `SlaClock`: sweeps recur every ten minutes and finish. Nothing is assumed of the other writers.

### What the passing properties do not say

Each exemption below is a named definition or a history variable that only the behaviour named
sets, and each is a behaviour the code really has (section 5).

* `WorkOnlyWhileHolding`: a tick that has lapsed works on. `Spaced`: two sweeps that both looked before the first insert, and
  ran in one process or, one of them, without the lease (`Collided`).
* `EveryScanCloses` is checked without the faults after which nothing resumes a scan: its creation is given up or dies
  between its jobs, a job nobody supports, a handler that throws to the last delivery.
* `AtMostOnce`: a channel where a send that arrived was taken for a failure. `NoOrphanClaim`: claims
  of a handler that died or was failed by the store. `BreachAlerted`: an alert lost by its publish.
  `FollowsNewest`: a newest report beside or after which an older one was applied.
* `CompleteOrRefused`: `TakenForEmpty` (a 200 whose body is not the list expected counts as an empty list for AWS,
  Azure and GCP), `PublicOnly` (a GitHub reference to an unset variable lists what is public), `NsLost` (a failed NS look-up of
  the DNS connector), `EmptyLinks` (an empty GHCR page that links on), and GitHub and GitLab without any credential,
  where the public inventory is what was asked for.
* `ExposureHonest`: Azure's `::/0`, which counts as private, and GCP's deny rules, which count as open.
* `SecretsStayHome`: `HandedOn` and `GivenAlong`, the redirects of a provider's or registry's own log-in or token endpoint
  that resend a secret in the body, and those of AWS requests signed with a session token, which is a header of its own.
* `InventoryExact`: `DatabaseGone` (a layer that only removes the package database leaves its packages), `Forged`
  (a layer is not compared with its digest) and `Illegible` (nothing can be read of an apk or dpkg database, a
  METADATA or a gemspec, which then have no packages).
* `SurfaceHonest`: a failed look-up, a failed NS list, a list of names beyond the cap (`Cut`; the apex counts if the log
  lists it), and the headers of a page that is at another address than the first (`Unasked`). A page that does not answer
  counts as one without headers.
* `GatesFollowEngine`: two enabled policies of one priority that match one finding.
* `ArchivedWasGone`: what the sync is not `owed`: an asset that is created during the sync (it may come on a page that is read
  already), everything once an asset on a page already read is deleted (the rest moves past the reader), and an asset
  whose last write took its time before the sync began (`Overtaken`).
* `Converges`: assets left behind by a removed integration, those a POST gave another source, and those it wrote over a row
  it had read as nobody's.
* `OneRowPerScan`: a second row by a call that could not know of the first (`blind`).
* `KeepsAnOwner`, `DisabledStaysOut`: orgs where a request decided on overtaken reads (`raced`).

## 4. Proofs

TLC looks at one instance; the theorems hold for every value of the constants
that satisfies the named ASSUMEs of the modules (counters and bounds are natural
numbers, `Jobs` is finite, `None` is not a replica or request, ...).

| module | theorems | inductive invariant |
|---|---|---|
| ScanLifecycleProofs | `TypeCorrect`, `VerdictNeverHidesHolds`, `SettledVerdictHolds`, `SuccessHasFindingsHolds`, `EarlyCloseNeedsRecountHolds` | `IInv` = types, `RowInv`, `InFlightHasRow`, `FindingsFirst` |
| ScanKickProofs | `MeterExactHolds`, `SameKeySameScanHolds`, `SentOnceHolds`, `ImplementsLedgerHolds` | `IInv` = types, `IndexInv`, `StageInv`, `SentOnce` |
| ScanScheduleProofs | of the lease: `NoTheftHolds`, `WorkOnlyWhileHoldingHolds`; of the schedule: `SpacedHolds` | `LeaseTypeOK`, `FitInv`; `SInv` = `TypeOK`, `FitInv`, `Spaced`, `SweepInv` |
| CircuitBreakerProofs | `ProbeFlagOwnedHolds` | `ProbeInv` |
| PolicyDeliveryProofs | `TypesHold`, `AtMostOnceHolds`, `NoOrphanClaimHolds` | `ClaimInv`, `GivenInv` |
| FindingsProofs | `AlertOnceHolds`, `ClaimedIsBreachedHolds`, `ClaimMeansAlertHolds`; `FollowsNewestHolds` | `AlertInv`, `ClaimInv`; `FollowInv` |
| MembershipProofs | `KeepsAnOwnerHolds`, `OneSignupHolds`, `DisabledStaysOutHolds` | `IInv` = types, `RequestInv`, `KeepsAnOwner`, `InviteInv`, `SignupInv` |
| ThirdPartiesProofs | of one call: `SecretsStayHomeHolds`, `OnlyVettedHolds`, `ImageNeverContradictedHolds`, `GatesFollowEngineHolds`, `CompleteOrRefusedHolds`, `ExposureHonestHolds`, `SurfaceHonestHolds`, `InventoryExactHolds`; of syncs: `ArchivedWasGoneHolds`; of publishing: `OneRowPerScanHolds` | `Tried`; `DiscoveryTyped`, `SeenInv`; `PublicationTyped`, `Knows` |

* **Scan verdict.** `VerdictNeverHides` alone is not inductive: a count that reopens or closes
  must know that the number of failed rows it sees is that of the scan's own rows
  (`RowsMatch`: `jobsTotal` is the number of rows) and that the counter is exact
  (`CounterExact`). The argument is one of cardinality: if no row is
  queued, every row has been counted, so the counter has reached `jobsTotal` and the last
  count judged exactly these rows. `CountJobRows` carries it; all actions but the three that write rows leave
  `RowInv` alone. `SuccessHasFindings` needs that every reported run and every success
  on the wire has its findings.
* **Scan kick.** `IndexInv` says what the unique index enforces (two kicks with one org and
  key are one) and that the scans are those of the kicks; `StageInv` ties a
  call's stage to the rows: a call about to answer holds a scan of its own slot. For the
  refinement, `Insert` is `Accept`, the answers are `Answer`, `Begin` is `Ask` and all else
  stutters; `SlotUnique` makes the CHOOSE in `Ledger` well defined.
* **Lease.** `FitInv`: a tick between the store's yes and the end of its work belongs to the
  key's holder or has lapsed. Nothing is assumed of how long work lasts, how many renewals and ticks
  overlap or which faults happen. `NoTheftHolds` needs only the types, which say that a delete is sent by `stop` alone.
* **Schedule.** `SweepInv`: a sweep that is about to create has the rows apart from it (`Apart`): those it saw are a
  cadence old, and those that were written since are its own process's or one of the two had lapsed. `OneHolds` is
  why: two ticks of two processes that have not lapsed would be two holders.
* **Breaker.** `ProbeInv`: the flag is set only by a probe that is under way. Nothing is said of there being only one.
* **Delivery.** `ClaimInv`: a handler between its claim and its outcome owns the row, alone, and
  nothing was sent yet; what was sent keeps its row for ever. A send in doubt breaks the
  statements about `sent` for its channel and no other. `NoOrphanClaim` needs `GivenInv` besides: a
  message is published once, by a delivery of the policy event, and a delivery not yet given has no handler.
* **SLA.** `AlertInv`: the sweep that owns the present window's alert is alone, holds the
  claim and has not published yet. `ClaimInv`: a claim has `due = 0`, and while an evaluation
  that read a due it will not move later is under way, the row cannot become a breach (no
  time passes inside a transaction).
* **Ingest.** `FollowInv`: once the newest report is taken up with nothing else under way, no other handler
  writes; what its handler has passed has a row that is not resolved, and what it read of the row it is about
  to write still stands, but for what a user has triaged since. When it has closed the rest, the rows are as reported.

* **Membership.** None of the three properties is inductive. A request writes what it read
  several steps ago, so `RequestInv` says what is still true of a request's reads: that they stand
  if they are not marked stale, and that who is about to move an owner has counted another one
  who is still there. `InviteInv` has at most one invite open for a user and org, and none
  for somebody who is a member, so an open invite was written after the disabling. `SignupInv` is the lock of
  `createOrgForSubject`: one creation of a user is past its read, and no invite makes a
  membership by sign-up active in the meantime. The owner argument takes a second owner
  out of the count, by cardinality; all of it holds for any finite sets of users and orgs and any requests.
* **Credentials and connections.** A call is a tree of parts done in order, so the theorems are about folds. `InOrder` is a
  fold of the community modules (`MapThenFoldSet` over positions), and no induction theorem of the library can be
  used on it; but its induction is over a finite set of positions, so `MinimalSubset` (a non-empty set of subsets of a
  finite set has a least element) gives a minimal counterexample, and from it `InOrderWithin`: what parts in order
  dial and yield, one of them did. On top of it `Home` (all requests of a result go to the own host over https) is
  carried through `Then`, `Guarded`, `InOrder` and `Follow`: in a listing, page by page, since a link
  that would lead away is never followed and a redirect takes nothing along (`SentOnHome`, `SendsHome`), unless it is one of `HandedOn`. Then one lemma per listing, connector and registry says that its egress check is
  such a check; `DiscoverStays` and `ExecuteHome` put them together. `OnlyVettedHolds` rests on the same fold and on
  `ProbeVetted`: a host of which one known address is private is refused before any connection.
  `Sent(x)` says what an answer is: lists are sequences, a listing ends (at the page
  cap, in an error, or in a page with nothing after it), a relative link is one to the same host, a manifest has a list of
  layers. `Logged` and `Looked` say that of logs and look-ups. They bound no length and restrict no link, server, redirect or address.
* **What a listing yields.** `CompleteOrRefusedHolds` is about the same fold from the other side. `Finds(r, keys, c)` says that the
  keys of what `r` yields are among `keys`, and are all of them if `r` ended well and `c` holds. `InOrder` preserves it (by `InOrderFrom`
  and its converse `InOrderDone`: parts that are all done yield all they found), and so does `PagedFinds`: if every item is found by its
  own part, a page that will do is a list, and a page that is not the last leads on, then following the pages finds what all
  of them hold. A connector that stops early has not ended well, except in the ways `Curtailed` names, which are `c`. There is
  one lemma per listing and connector (`GhcrImagesFinds`, `GhcrFinds`, ...), put together by `DiscoverFinds`. Besides what
  `Sent` says, `TellingAll(x)` says that a provider's listing goes on at every page but the last (`ReadThrough`), that a list that is
  absent has nothing in it, and that what is public is part of everything. It restricts no error, body, host, cap or credential.
* **Exposure.** The clouds' listing lemmas also say that an asset is the one of some resource (`CloudItems`); `AssetHonest` compares
  the rules the connector reads with `Reachable`, resource by resource. `Described(x)` says that a key is one resource's and that
  a rule has one of five sources.
* **Surface findings.** `SaidOf(h, f)`: the finding f is so of the host h; `ToldOf(h, findings)`: those there must be of h are among
  them. `ProbeHonest` and `ProbeTells` say that a probe does both, through the smallest position of a set (`MinOfFinite`: the first
  address that shows a certificate, the first port in order). `EnumerateAll`: an enumeration that ends well has every owned name,
  since a log that was read was read to its end, and a set within the cap has no element beyond it, by cardinality. `ScanSays`
  puts the hosts together. `Surfaced(x)` says that a log goes on at every page but the last, that look-ups give sequences, and that a
  certificate has the three flaws at most.
* **What is installed.** `InventoryExactHolds` compares two readings of a stack of layers: the code's, which lays them over
  each other one by one (`LaidOver`, a fold; `LayersInOrder` unfolds it as `InOrder` is unfolded), and the property's, which asks of
  each file whether a later layer hides it. The induction hypothesis, taken at the least layer that breaks it (`LaidOverIs`), is
  that after n layers the overlay is `Overlaid(stack, n)`, the inventory files of `Seen(stack, n)`, and the system packages are
  `Brings(stack, n)`, each with the layer that brought it and has kept it since (`Brought`). `BringsNext` is the step: a layer
  that shows a database of its own has all of them read again, and one that shows none leaves what there was, unless it removed one, which is
  `DatabaseGone`. `RowsSince`: there is one bringer, so the CHOOSE in `Since` is it. `PullMute` and one lemma per registry say
  that a pull adds no package and is done only with a digest for every layer. `Pullable(x)` says that a path tells the
  kind of a file in all layers, that a manifest without name and version says nothing, that a layer writes a path once and
  that the databases name a package at one version. It bounds neither the layers nor what they add and remove, lets
  any file be unparsable, and lets two layers have one digest.
* **References.** `ImageNeverContradictedHolds` goes through the six parsers. What they share is `NamedAgrees`; the registries
  with a place of their own add `RegionAgrees`, `LocationAgrees` and the pin of the login server. `Asked` says that a
  key that was parsed has all its parts and a digest, and that an integration has finitely many regions.
* **Gates.** `Concludes`: a gate that filters the suppressed findings first and then matches, and an engine that looks for
  an exception finding by finding, order the same. `FirstMatch` sorts and selects and is not looked into: both use it.
* **Archiving.** `SeenInv`: an asset that a sync is owed is on a page still to be read, or waits in the batch for its upsert, or
  was seen after the sync began (it is not `stale` for it). `ArchiveStale` archives what is stale, when all is read and
  upserted, so nothing that is owed. An insertion moves the entries behind it back, where they are still to be read
  (`InsertAtKeeps`); a deletion before the reading position ends what is owed, by the definition of `owed`.
* **Publishing.** `Knows`: a call that is about to create a row, and whose listing was neither refused nor overtaken, knows
  that there is none yet; and a GitLab deployment and a build status have a row of their own key.

TLC was run on the instance of `third_parties` to see that every input there satisfies these hypotheses and
that `SeenInv` and `PublicationInv` are invariants of it.

Two findings about the model came from these proofs. `CASE` of TLA+ does not say which of two arms that are both
true is taken: `KindOf`, `resolveEcrRegion` and the choice of a platform had such arms, which TLC takes in order and a
prover may not; they are `IF ... ELSE IF` now, as in the code. And `UNION A \cup B` is read by tlapm as the union of `A \cup B`;
all of these have parentheses now.

The others were in properties that were wrong where no input of the run looked, so that TLC had nothing to say and the lemmas failed;
inputs that tell them apart were added for the surface.

* `CompleteOrRefused`: `HeldBy` looked at the first apex of the DNS connector only, without asking whose the name servers' names are,
  and asked of an ACR image that it be chosen, which is asked of repositories only; `EmptyLinks` exempted empty pages of GHCR's
  packages and not those of a package's images, where the code (`ghcr.connector.ts`) stops in the same way.
* `ExposureHonest`: `"star"`, which is Azure's word for everybody, is no source of a GCP rule.
* `SurfaceHonest`: it asked for ports that are not among the common ones, took only 405 for a refused HEAD where the code also takes
  501, looked for a page elsewhere at three ports only, and did not count the apex to the cap, as
  `enumerate` (`surface.probe.ts:136`) does when the log lists it: with the apex and 200 other names, one name is dropped.

Only model-checked: every liveness property (fairness and ENABLED are beyond the prover) and the violated properties.
`SelectSeq` and `SortSeq`, which are recursive, are not within reach of the provers; no theorem looks into them.

## 5. Where code and text disagree

Checked, each by a run that TLC must find violated:

* `lifecycle_retry_close`: "orchestrator closes the scan when all jobs report"
  (`README.md:88`). `retryJob` does not take the job's earlier count back; with two jobs and one
  retry the scan closes, announces and gates while the other job has not reported.
* `backlog_reordered`: "Auto-resolution is what keeps the backlog honest"
  (`findings.service.ts:24`). A report redelivered after a newer one resolves and reopens by its older list.

Seen in the models and not kept as runs of their own:

* "Hours to remediate once a finding matches" (`policy.ts:35`): every `finding.updated` sets `slaDueAt` to
  now + `slaHours`, so a finding scanned more often than that is never overdue.
* Two owners who demote or disable each other at once leave an org without one (`org.service.ts:431`); the
  test "protects the last owner from demote and disable" (`org.service.int.spec.ts:166`) has one request at a time.
* Two invites at once for one person write two rows; the one that is not accepted stays open and lets the person back in after a disabling.
* A verdict is published once, when the scan closes. If it is pending then, because findings are not ingested yet,
  nothing publishes it later; if a part of them is, the forges that only create keep the first verdict.
  `README.md:139` has "the same scan does not create unbounded Check Runs": it takes one refused listing, two calls
  at once or a lost answer to create another.
* Two policies of one priority may be taken in one order by the engine and in the other by the gate, whose comments
  (`scan-conclusion.query.ts:14`, `scan-conclusion.ts:36` and `:87`) say they cannot drift.
* Connectors that take less for everything, and so archive the rest: see the exemptions of `CompleteOrRefused`.
* An integration that is removed while it syncs ends the whole tick; the ones after it wait for the next.
* A repository deleted while a listing by page number is read hides the one behind it, which is archived until the next sync. So is
  one that is created during a sync on a page already read (organisations list theirs newest first), when it was known before.
* An upsert writes the time at which it read its row (`assets.service.ts:31`): one that is overtaken by a newer sync makes the
  row older than that sync, which archives it.
* `POST /internal/assets` can give a row another source than its integration's; `archiveStale` (`assets.service.ts:102`) then
  never archives it, unless the integration lists it again first.
* A removed integration's assets stay live for ever unless another integration sees them.
* "A truncated walk or an unparseable package DB throws" (`packages.ts:31`): of the databases that can be read at all only a
  `package.json` that is no JSON does (218-226). apk and dpkg stanzas, a METADATA and a gemspec without a legible name and version are
  passed over (153-216, 243-275), and the job succeeds without their packages.
* `fetch` follows redirects in most connectors and in the token exchanges (`inventory-egress.ts:92`): a 307 or 308 of Azure's, Google's or
  a registry's own token endpoint would take the secret in the body to wherever it points, and any redirect of AWS the session token.
* A package database deleted by a layer keeps its packages in the inventory; layers are not compared with their digest.
* A root page that does not answer is reported as one without any security header.
* A result delivered twice closes a scan early in the same way as a retry.
* Two ticks of one process overlap when a sweep takes longer than the interval: `setInterval`
  (`scan-schedule.service.ts:49`) does not wait for `runScheduledTick`, both ticks hold the lease, and both may find no
  fresh scan and create one. The comment at 82-83 says "A second tick inside this cadence sees the row above and does not emit
  again". `Spaced` names this collision.
* The renew timer and the tick of one process can lock each other out of a lease the process owns, and a tick
  that is already working works on when the lease is lost, since `runIfLeader` asks once
  (`leader-lease.ts:118`): two replicas sweep at once and a target is scanned twice.
* A `tryHold` in flight at `stop` takes the key after the release; the key then waits for its TTL.
* A call that is not the probe clears the probe flag when it leaves, so a second probe can run beside the
  first; a slow success of a call admitted before the opening closes the circuit without its cooldown.
* A process that dies between claim and send leaves a claim that answers every redelivery `duplicate`.
* A failed publish of an SLA alert loses it for its window, since the claim is not undone.
* A reopened finding keeps its old `slaDueAt` until it is evaluated, and a sweep in between alerts it at once.
* A triage that commits between ingest's read and upsert of a resolved finding is overwritten.
* Auto-resolution and reopening write no `finding_events` row.

## 6. What is not modelled

Payloads, formatting, logging, cryptography and row-level security; the content of
the SCA, IaC, SAST and CSPM rules and of the parsers of archives and package databases (a scanner's `execute` is
one step of ScanLifecycle); read-only services (reporting, web); stream set-up and
connection handling. Of the connectors, the metadata that they attach; of the integrations, the validation
of their set-up; of the policies, their editing and reordering; of identity, API tokens and the user's row. Risk scoring,
enrichment, the normalizer's fingerprints, the gateway guard, the rate limiter and the asset graph are in the plan.
`PROJECT.json` gives every component's status and reason.

## 7. Plan

Done: ScanLifecycle, KickLedger/ScanKick, LeaderLease, ScanSchedule (composes the lease),
CircuitBreaker, PolicyDelivery, SlaClock, FindingBacklog, Discovery, the connectors, the container scanner,
the ASM scanner, the gates, Publication and Membership; proofs for all of them.

Next, in this order:

1. **Listings in Discovery**: the syncs of Discovery read a sequence that every listing preserves; the `Connectors`
   module says which do. Composing them, a sync would archive what `TakenForEmpty` and its like leave out.
2. **Normalizer, scoring and enrichment** as operators: fingerprints, version ranges, risk score on scaled integers,
   each against a reference definition over bounded inputs.
3. **SCA, IaC and CSPM**: manifests, reachability and rule evaluation in the same way.
4. **Gateway**: the auth guard's decision and the token bucket, composed with the breaker.
5. **Policies**: editing and reordering against the engine and the gates, which breaks ties by priority.
6. **API tokens**: issue, revoke and the cache of principals.

Theorems worth proving next: every safety property of the runs has one, so those that come with the plan above, and a smaller
`Pullable`, with the last of several files of one path taken as the code does.
