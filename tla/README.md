# A verification of the Metis report scheduler

This directory holds TLA+ models of the parts of the repository in which several
processes, runs, timers, browser tabs and the clock act on the same durable
state, the TLC configurations that check them on small instances, and TLAPS
proofs of what matters most. Paths below are relative to the repository.

## The system

Metis produces equity research reports. A POST enqueues a job in SQLite; a
process-local pump claims it; a run fetches data (Stage A), computes (Stage B)
and pays a language model for several analysis passes (Stage C); the report is
stored and its progress streamed to the browser. Several Node processes may
share one database, any of them may crash, and the model calls cost real money.

| part | state | operations | who touches it |
| --- | --- | --- | --- |
| paid-pass ledger (`src/pipeline/jobScheduler.ts`, `jobArtifacts.ts`, `jobRunner.ts`, `providers/anthropic.ts`) | `jobs`, `job_llm_leases`, `cost_log`, `job_pass_artifacts`; permits in memory | acquire, resize, renew, launch, settle a request or a pass, release, sweep, reconcile with the Cost API | every run, stale ones too, every claim, the reconciliation script |
| scheduler pump (`jobScheduler.ts`, `jobSchedulerBootstrap.ts`, routes) | one `SchedulerPumpState` per process, pending runs, failed claims | request, claim loop, durable wake, retry after a fault, boot | routes, settlements, runs, timers |
| settings synchronisation (`src/settings/writeQueue.ts`, `settings.ts`, `api/settings/route.ts`) | a write queue per page, the `settings` rows and their revision | load, choose, write, recover, flush, dispose, reset | browser tabs, the operator |
| report runs (`jobRunner.ts`, `jobStore.ts`, `jobArtifacts.ts`) | `jobs.stepsJson`, the linked report, artifacts by generation | stages, terminal writes, late settlements, the plan of a retry | the run of each generation, routes, reconciliation |
| API response cache (`src/cache`) | `api_cache` rows, two single-flight maps, withheld keys | cached fetch, background refresh, invalidation, maintenance | all providers, every process that opens the database |
| AI connection store (`src/ai`) | a protected file, a lock database, CLI processes | claim, sign in, renew, request, disconnect, select | several servers of one user |
| job snapshot stream (`pipeline/events.ts`, `report/[jobId]/stream`, `GenerateReport.tsx`) | revisions of rows; timers and the last revision sent of each connection; the page's fences | hint, poll, read again after a fault, connect; start, retry, cancel | runs, browsers, other pages |
| providers, Stage A/B/C, EDGAR, report, the rest of the UI, evaluation | none shared | pure transformation and I/O | runs |

How they meet. The pump claims a job; the claim is the fence of everything its
run does. Before a paid call the run takes a lease in the ledger, which refuses
while caps or slots are exhausted; settlements and releases in the ledger kick
the pump, because a retry waits until every older generation's leases are gone.
A sweep of expired leases runs inside everybody's transactions. Snapshots carry
the job's revision, and clients drop a snapshot whose revision has not moved.

What makes this hard: an expired lease is swept by a transaction of some other
job while its own run is about to settle it; a laptop sleeps past every TTL and
its runs wake up stale; a request that was sent may be billed whatever the run
sees of it; a process dies between any two transactions; nothing in SQLite wakes
a process; a failed POST may have committed, or may yet.

What makes each part correct:

* the ledger charges each attempt once and forgets no spend but on three short
  endings of a call, keeps to its caps and slots, and never runs two generations of a job on live leases;
* the pump leaves no durable row behind and gives every slot back;
* a settings page at rest shows what the server confirmed and the user chose,
  and no tab writes over what it has not seen;
* a job ends once, as what its report says, with no step left running; a retry
  pays for nothing it has and builds no report from passes that do not fit;
* the cache keeps, under a time, the body that was stored at that time, and
  gives up data for an empty answer only when nobody could use the data;
* the stored refresh token is the one the provider accepts, no server writes
  over another's changes, and only one of them uses the accounts;
* a page that waits for a report ends on the outcome of the run it asked for, with
  that outcome's message, whatever frames and answers come late.

PROJECT.json lists every component and every hazard at its line.

## Modules

| module | models | notes |
| --- | --- | --- |
| `PaidLedger` | the ledger and the job claims it is fenced on | one action per `BEGIN IMMEDIATE` transaction |
| `AttemptAccount` | what the ledger promises for one attempt's money | the abstract specification `PaidLedger` implements |
| `PaidLedger_proofs` | | proofs about `PaidLedger` |
| `PaidLedger_account_proofs` | | proofs that it implements `AttemptAccount`, and of the sums |
| `SchedulerPump` | the pumps of several processes over the rows | one action per turn of the event loop |
| `SchedulerPump_proofs` | | proofs about `SchedulerPump` |
| `SettingsSync` | pages, network and server of the settings | one action per continuation |
| `SettingsSync_proofs` | | proofs about `SettingsSync` |
| `ReportRun` | the runs of one job over its retries, with the plan of a retry | one action per stretch between awaits; composes the runner with the job store and the artifacts |
| `ReportRun_proofs` | | proofs about `ReportRun`, in three invariants that use one another |
| `ApiCache` | one cache row, the servers that share it, their callers and the sweepers | one action per stretch up to an await or to a statement that writes |
| `ApiCache_proofs` | | proofs about `ApiCache` |
| `AiConnections` | the stored connections, their lock and the operations of all servers, CLI processes included | one action per critical section |
| `AiConnections_proofs` | | proofs about `AiConnections` |
| `JobStream` | the rows of a symbol's jobs, the routes that start, retry, cancel and stream them, the page | one action per read of a row, handled event or answer; composes server and browser |
| `JobStream_proofs` | | proofs about `JobStream` |
| `MC*` | | instances and symmetry for TLC |

Definitions whose comment begins with "Bug:" are not part of a specification:
each is a plausible mistake in the definition that follows it, and a mutation run
puts it in that definition's place to see a property fail (PROJECT.json
"mutants").

### PaidLedger

`jobs`, `lease`, `billed`, `presumed` and `artifact` are the tables; `billed` and
`presumed` split `cost_log` by whether `attemptId` is set. A pass and each
request inside it (`<attempt>#rN`) are attempts alike, as in the code.
`permit` and `alive` are what runs hold in memory: `permit[a].owner` is the nonce
of the claim, and a run stays in `alive` when it lost its claim, so a stale run
keeps acting until it ends. `bill` is what the provider charged, which the
program does not see until it is told; `versioned` names the jobs whose snapshot
revision the last transaction advanced.

Every claim, reconciliation, acquisition and launch first sweeps: `PrunedLease`,
`PrunedPresumed` and `Pruned` are the sweep's effect on the three things it
touches and are part of those actions, not an action of their own. A
transaction that throws changes nothing and is left out; a refusal that commits
(a full cap, a retry that must wait) keeps the sweep.

How far a call got and how it ended is the permit's `stage`, and what the run then
knows of it is `Heard`:

* `closed`: answered in full; the settlement is the provider's bill. A call that was
  refused unbilled is given back.
* `stalled`: silent, or aborted, after it had reported usage; presumed at what was
  reported and the rest of its output, or at the request maximum where searches or a
  fallback may have run (`abandonedRequestCostUsd`, anthropic.ts:2045-2054), or lost its
  connection before any usage; presumed at the maximum (1708-1714). Output
  tokens are limited, so this covers the charge (`Chargeable`).
* `unheard`: silent before it had reported anything; presumed at its output ceiling,
  without the input (2046, 2052-2053).
* `cut`: broken after its first usage by an error of the stream; settled as measured at
  what it had reported (2340-2345, 1878-1884; the test at
  tests/requestAdmission.test.ts:440-466 expects `actual`).
* `aborted`: ended by the run itself after it was sent and before its first usage;
  released (1704-1706), whether or not the provider charges for it.
* `dropped`: both settlement writes failed; the lease is left to be presumed.

`unheard`, `cut` and `aborted` are the *short* endings: what is counted for them may be less
than the charge, and nothing in the program can tell. `SpendAccounted` excepts them by
name (`Short`), and `AttemptAccount` has a phase for them. The repository's own reasoning does not:
the comment at anthropic.ts:2034-2037 calls recording only the last reported usage an
understatement, the one at 2270-2273 says that a request that was sent is never released, and
docs/audit/DECISIONS.md (D-09) settles a dead stream with the worst case for its remainder.
A pass in "pass" mode ends in the same ways (`PassReport`).

### SchedulerPump

`pump[p]` is `SchedulerPumpState`: `scheduled` the queued microtask, `phase` how
far `pumpQueuedJobs` has got, `dirty` that `epoch` has moved since it started,
`wake` an armed timer. Between `claiming` and the end of the pump the event loop
does not turn, so routes, runs and timers of that process wait (`Yields`) while
other processes and the clock do not. A row carries whether its claim's lease has
passed; `paid` says the same of the paid leases of each generation.

### SettingsSync

`log` is every version the settings table went through; the entity tag hashes
the revision with the state, so a version is its position in `log`. `tab[t]` is
the write queue of a page with its controller, `net[t]` the fetch it awaits,
`strays` POSTs that are under way although their page saw them fail. `intent` and
`shown` are history for the properties.

### ReportRun

`job` and `steps` are the row of one report job, `run[g]` what the run of
generation `g` holds in memory, `attempts` the pass attempts it launched with
their artifacts and cost rows. The plan of a retry is pure: `Selected` is
`foldLineageArtifacts`, `Plan` is `computeJobResumePlan`, and the claim hands it to
the run. The paths of `runJob` are actions from the claim to a terminal write:
recover a verified report, fetch, compute, the analyst pair with its repair or
re-send, the judge with its retry, verification, assembly; `Persist` is
`persistReport` and everything it commits at once. An attempt settles on its own
(`Succeeds`, `Fails`), also after the run lost its claim; only the exact live owner's
settlement moves the steps (`Projected`).

Three things are coarser than the code. A stale run is taken as returned when
its job is retried: the fence that stops it is `PaidLedger`'s subject. The failed
artifacts of one pass and generation are one. Which requests of an
attempt have cost rows is chosen when its lease runs out. `compute` stands for
the steps `validate` and `compute`, and `Ungrounded` for every way of having no pass to
run: Stage B throws, no data, no key, no model, no launch authority. A retry that
is claimed without a plan would end as an error; `AcceptedRetryHasPlan` says that
this never happens, so that branch of the claim is left out.

### ApiCache

One row suffices because every map and statement is keyed and no step mixes two
keys. `row` is the row with its two encodings (`text`, `gz`); every server shares it.
`flagged`, `refresh` and `miss` are a server's own: membership of
`preservedEmptyRefreshes`, and the two single-flight maps with the caller whose options
they run. A server is one thread, but each SQL statement commits by itself: `next[s]` is the
DELETE or the upsert its current stretch ends with, and until it has run the
server does nothing else while other processes do. So a store of another server may
come between `existingRowToPreserve`'s SELECT (apiCache.ts:301) and the upsert
(307), or between the read of a damaged row and its deletion; and the upsert may throw.
`sweep[p]` is the next statement of a maintenance with the text it selected; maintenance runs
when a process opens the database, so in processes that do not serve yet. A reply is
visible for one step. `isEmptyBody` and `validateBody` are
taken as given by the caller, which is the richer case. The clock may be set back.
Of two fetches in flight the later answer is stored, whichever was asked first:
that is the code's design and no property says otherwise.

Two exceptions are named in the properties, because the code is exposed to them.
A flag is a process' own, so it may stand after another server has replaced the
row (`withheld[s] = "replaced"` in `FlagIsTrue`). And the empty body of a background
refresh erases data that another server stored after the refresh had looked
(`raced` in `EmptyOnlyForWaiter`), against the comment at apiCache.ts:300.

### AiConnections

`store` is the envelope of `connections.v1.json`, `lock` the operation that is under
`connections.lock` at the end of a step, `op[o]` an operation in flight with its place, its
tracked abort, its pending sign-in and its CLI process. `BEGIN IMMEDIATE` takes a free
lock without letting the event loop turn (`withAiMutex`, mutex.ts:52-54), so an operation that comes
to a free lock takes it in the step in which it comes (`Take`), and its server does
nothing else until its section is over (`Turns`). One that finds the lock taken
polls; when the lock is free again any of those waiting, or a new one, may be
first. All sections are synchronous and thus one action, but for a renewal, which
awaits the provider with the lock held. A section that throws writes
nothing (`SectionThrows`): canceled, claimed by another server, busy for forty
seconds, or the store could not be read or written.

`valid` are the refresh tokens the identity provider would accept; a renewal spends one
and receives another or the same again. `Persist` is the end of a renewal: the scopes are checked, then
the store is written, and either may throw. `lost` remembers that a token went with a lost answer, a
crash, a failed write or a refused scope: the four exceptions of `TokenIsCurrent`. `dirs` are the profile
directories that exist. `orphans` are profiles in use by CLI processes whose server was
killed: they are plain children (gemini.ts:113), nobody stops them, and they may go on
beside the next owner of the claim or lose their directory to its disconnect, so `OneRuntime` and
`ChildHasProfile` speak of running servers only and except orphans. Left out is one failure:
a `chmod` that throws after the rename has replaced the store (store.ts:153), which
changes no stored value. One ChatGPT profile, one provider key, safety only: no operation
here is obliged to end.

### JobStream

`row[j]` is what a snapshot shows of a job: its revision, its status (queued and
running are both `live`), and whether settlements are pending. The ledger and the
runner are the environment: `Progress`, `End` and `Settle` commit a row with its next
revision. `req[n]` is the n-th POST of the page, `page` the state and refs of
`GenerateReport` with `requestFenceRef` as `current` and the stream's fence, `es[n]` the
`EventSource` opened after that POST, `conn` the refs of the stream route for it, `wire`
the frames under way. A read of the row and the frame it sends are synchronous, thus
one action; it is taken by the poll timer, by the retry of a failed read, by a hint
or by a new connection. `revision > last` on the server and the two fences
in the page are the only things that keep order: frames of a closed source may still be
delivered.

What other pages do to the same job is `RetryElsewhere`; `Cut`, `ReadFails`, `Refuse` and
`Lose` are the faults. Steps, costs and the summary a page shows are left
out, and whether a retry can reuse anything is the server's free choice to refuse. Under
the outcome `unsupported` the message of a refused cancel may stay, which
`MessageIsOfOutcome` therefore does not speak of. An answer other than 200 makes the
browser give an `EventSource` up; the error listener does not look at `readyState`, so the page
goes on waiting, against the comment at `GenerateReport.tsx:739-740`;
`NobodyWaitsForever` excepts that case by name (`GivenUp`).

## Runs

| run | question | instance | result |
| --- | --- | --- | --- |
| `requests` | request reservation: is each attempt charged once, is nothing lost but what ends short? | 1 job, 2 generations, 1 pass, 2 requests, clock 0..3 | holds |
| `passes` | pass reservation: do generations stay apart, the job's cap, and the Cost API's totals at any moment | 1 job, 3 generations, 2 passes, clock 0..2 | holds |
| `wakes` | is anything stranded, is everything served? | 2 processes, 1 job, 1 retry, 1 crash, 1 fault | holds |
| `tabs` | do pages and table agree? | 2 pages, 2 choices, 2 failures, a reset whenever rows are stored | holds |
| `retries` | what does a retry reuse, what does it pay for, how does each generation end? | 3 generations, 2 losses, 2 fingerprints | holds |
| `stages` | does every job end? | 2 generations, 1 loss, judge and analysts tried again | holds |
| `revalidate` | which body stays in the cache, and under which time? | 2 servers, 2 callers, 1 reader, 1 sweeper, 2 bodies with data, clock 0..2 | holds |
| `accounts` | do servers lose a token, a key or a profile to each other? | 2 servers, 2 operations in flight, 2 tokens, 1 profile, 1 crash | holds |
| `follow` | does a page end, on the outcome it asked for? | 2 jobs, 2 POSTs, 2 troubles, 1 retry of a read | holds |
| `authority`, `unrun`, `disconnect` | a sentence of the documentation or of a comment each | small | violated |

The bounds and why they are enough. In `requests` lease times of 2 ticks and a clock of 3
allow a lease to be taken, renewed once, expire and be swept, each before and
after the claim around it, and a retry to be claimed beside a stale run (`MaxGen` = 1). In `passes` lease times
are one tick and the clock ends at 2; its three generations (`MaxGen` = 2) are what
"an older generation" needs to differ from "the previous generation", and in `retries` the
second retry reads a lineage to which both earlier generations contributed. Two requests are the least for a pass that stalls one and completes
another; two passes of 2 against a job cap of 3 make one admission that must be refused while the
other is reserved, presumed or settled. Money is small units: 2 is a
reservation, 1 what a part of a call is counted at or a total the Cost API reports. In `wakes` two processes suffice
for one to change rows behind the other's pump, and one crash and one fault for
each to hit at every step. In `tabs` two choices allow one to be made while another
is in flight or waits for its read-back, two failures a failed write whose
read-back fails too. In `retries` two losses are a crash in each of two
generations, two fingerprints data that changed; `stages` adds the judge's second
attempt, which multiplies states, over one retry. In `revalidate` the caller of one server refuses
stale rows that the caller of the other accepts, one of the bodies with data is large enough
to be compressed, and the clock runs past the time to live (0), the ceiling of the strict caller (1),
the purge margin (1) and the sweep interval (2). A third server could do to a row
nothing that the second does not; the proofs cover any number. In `accounts` the two operations may be of one server or of two, which
gives every pair of a renewal, sign-in, disconnect, request and CLI run; the crash leaves
a CLI process behind and lets the claim change hands; the proofs
cover any number. In `disconnect` the operation that ends is begun again, so
two suffice: a renewal that holds the lock and then the request, beside the disconnect. In `follow` two jobs let a start follow another job's end, two
POSTs let one overtake the other, and two troubles let a read fail until the
stream closes (`ReadRetries` = 1), or a cut meet another page's retry.
`MaxTime`, `MaxNow`, `MaxGen`, `MaxLosses`, `MaxCrashes`, `MaxFaults`, `MaxEdits`, `MaxFails`,
`MaxTokens`, `MaxHomes`, `MaxJobs` (of `JobStream`), `MaxProgress`, `MaxRevision`,
`MaxRequests` and `MaxTroubles` are the bounds on otherwise unbounded counters and appear in the
guards of the actions that count. The ledger, report and settings runs may come to
a halt at those bounds, and so may `wakes` once everything is served and `follow` once
every page has its outcome; they do not check for deadlock. `revalidate` and `accounts` do.

What the violated runs show is described in PROJECT.json "findings": each quotes
a sentence of the repository and TLC gives a short behaviour of the code that
contradicts it. The neighbouring passing runs say how much still holds:
`AcceptedRetryHasPlan` that the
claim of a retry would have had something to run, and `ChildHasProfile` that the Gemini
disconnect closes the window the ChatGPT one leaves open. One divergence
was met without a run of its own: docs/OPERATIONS.md:153-154 and 183 say that a cancelled
job cannot be retried, the code lets it (a cancelled job is an `error` row like
any other), and the model follows the code.

### Fairness

`wakes`, `stages` and `follow` use it (`LiveSpec` of `SchedulerPump` and of `ReportRun`,
`Spec` of `JobStream`).

In `wakes`, a process that runs executes its microtasks and timers (`PumpStep`,
`WakeFires`): the Node event loop does. A stopped process is started again (`Boot`): an
operator does, and without it nothing can hold. A run ends (`RunStep`): every pass
has a deadline, and its callbacks get their turn between those of routes, however
often these are called (strong fairness, since a pump that is claiming holds the
event loop). A lease nobody renews runs out (`ClaimLapses`, `PaidLapses`): the clock
does. Nothing is assumed of users, of routes, of renewals, of the settlement of a
lease, or of which of several claimable jobs is taken. Crashes and faults are
bounded, so a pump that fails forever is not asked to serve anybody.

In `stages`, the pump claims what is due and sweeps claims that ran out (what `wakes`
shows), and leases that nobody renews run out. A run goes on or is aborted
(`Works(g) \/ AbortRun(g)`): `awaitJobStage` races every stage against its deadline and the
job's, so a run never stays where it is, but nothing is assumed of which of the two
happens, and a provider need not answer at all. A run that lost its claim finds out
(`Superseded`), because each of its writes asks. Losses are bounded by `MaxLosses`: a
worker that loses every claim ends no job.

In `follow`, some live job ends, which `wakes` and `stages` show, and the routes answer. The
timers of a connection fire, the browser connects a source that is not connected
and hands frames and answers to the page. Hints owe nothing, since the run may
publish in another process: what brings the last snapshot is the poll. Troubles
are bounded, so a read does not fail forever.

## Proofs

TLC checks instances; the theorems hold for all jobs, attempts, processes, limits
and lease times that satisfy the modules' ASSUMEs. Those are the relations
start-up enforces (a job lease not shorter than a paid lease, positive limits),
and that NULL is not a row.

* `PaidLedger_proofs!TypeCorrect`. The type invariant needs one strengthening: a row
  exists only for an acquired attempt, and a request's permit names a pass that was
  acquired by the same run.
* `PaidLedger_proofs!ChargedAtMostOnce` (`OneChargePerAttempt`). What disturbs it is a
  sweep and a settlement of the same attempt. The invariant adds where an attempt is
  in its life: an attempt still held or in flight has no billed row, and a stored
  artifact means its lease and presumption are gone. Three lemmas take the actions in
  groups (claims, leases, requests), each over the sweep's effect stated once.
* `PaidLedger_proofs!GenerationsNeverOverlap` (`NoAncestorOverlap`). Inductive once a permit's
  generation is known not to exceed its job's and equal generations are known to be
  the job's own claim; a claim waits for older leases, and an acquisition or renewal
  needs the live claim of its own generation.
* `PaidLedger_proofs!BilledByPassOrRequests` (`NoDoubleBilling`). `BillInv` adds to the
  property that a pass with a billed row is closed, and a request is admitted only
  under a pass that is launched. `FlipsAreVersioned`
  (`PendingFlipIsVersioned`) needs only the types: per transaction, an attempt that gains
  or loses its lease is either one whose job the transaction versions, or one of a job
  that is not terminal before or after it.
* `PaidLedger_account_proofs!SpendIsAccounted` (`SpendAccounted`) and `LedgerKeepsAccounts`
  (`AccountsKept`, the refinement of `AttemptAccount`), without a hypothesis: whatever the
  provider bills, and with the short endings as steps of their own. The
  invariant relates the rows of each attempt to its permit and to what it was
  charged. `Balanced`: a lease reserves exactly what the permit says, a sweep's guess counts all
  of it until the Cost API lowers it, and what is charged has a row unless the call was
  aborted. `Told`: what a settled row says depends on how the call ended; a
  closed one is the charge, a stalled one covers it or is the whole reservation, a
  short one promises neither. `Placed`: before it settles, an attempt with a
  reservation has a lease or a presumption and no billed row, a pass is charged only where its
  requests have no accounts of their own, and a permit not launched owes nothing. One lemma per
  kind of change to a row (swept, opened, heard, closed, resized, charged,
  lowered) shows both that this relation survives and that the account
  takes a step of `AttemptAccount`; then each transaction applies one kind to the
  attempt it is about and the sweep, or nothing, to every other (`AccountMoves`).
* `PaidLedger_account_proofs!ReconciledWithin` (`ReconciledWithinReport`) and `JobCapKept`
  (`JobCapHeld`) are about sums over sets of attempts. The library's induction theorems take
  operators, so the lemmas they need (a sum exists, is unique, may leave out any element first,
  is monotone, adds) rest on `FiniteInduction`, which is first-order: well-foundedness gives a
  smallest subset that is a counterexample. A step acquires at most one attempt, so only
  finitely many are ever acquired, whatever the constants. `ReconciledWithin`: a bucket is what is
  accounted for and its guesses; each guess is lowered to a share that is rounded down and never
  raised, so the shares add up to no more than what remains. It has no hypothesis.
  `JobCapKept`: an attempt counts for what it reserved until it is measured (`Priced`), and once open
  counts for no more at any later step. So a job's sum grows only by an acquisition, and that was
  admitted against what the sweep leaves of it. It has one hypothesis, without which the
  property is false: the provider bills no call for more than was reserved. And the property has one
  exception: a guess lowered below the true bill leaves room that a late settlement in its
  place takes back.
* `SchedulerPump_proofs!TypeCorrect`.
* `SchedulerPump_proofs!NothingStranded` (`Attended`). Already inductive over the types: an
  action that leaves a row outstanding either leaves its process busy (a request
  schedules or finds a running pump) or ends a pump, which arms a wake exactly
  when a row is outstanding.
* `SchedulerPump_proofs!CleanupEndsOwnClaim` (`FailedClaimEndsNoOther`). `FailuresApart`: a claim
  whose execution failed is nobody's run any more, and a pump that is claiming has cleaned up all of
  its own; a live claim names its process and its generation, so the one the cleanup ends
  is not that of a run that goes on.

* `SettingsSync_proofs!TypeCorrect`, `SettlesAsAsked` (`SettledIsIntent`), `OverwritesWhatWasSeen`
  (`NoUnseenOverwrite`), `OutcomesKnown` (`OutcomeKnown`) and `FlushesResolved`
  (`NoFlushStranded`), for any numbers of pages, choices and failures. Two of the properties have
  exceptions, which their theorems share: a write that follows a preflight goes over
  the version the preflight read, seen by the user or not, and one of the page's own
  versions is no surprise to it (`NoUnseenOverwrite`); a commit that arrives after its page gave it up, and
  a page that is closed or still owes a preflight, are not spoken of (`OutcomeKnown`). `Sound` is about one page, the
  request it awaits and what its user wants: an answer on its way brings a version
  of the table that is no older than any commit of the page it saw answered
  (`Knows`), and a queue at rest has nothing left to say. `Fenced` is about a write on
  its way, even one whose page gave it up: it goes over the version that was on
  display, a version of its own page, or one read back for it. The table only grows,
  so both survive what other pages do, and `If-Match` does the rest.
* `ApiCache_proofs!TypeCorrect`, `LastStoreKept` (`RowIsLastStore`), `FlagsAreTrue` (`FlagIsTrue`) and
  `EmptyNeverByRefresh` (`EmptyOnlyForWaiter`), for any numbers of servers, callers and sweepers and any
  ceilings. The strengthening is the shape of a row and of a server about to write: a plain row has a text
  that is not the blank one, a compressed row only the blank one, a sweep that is about to
  compress remembers a large text, and a server about to store has taken its flag back. Then a
  compression that finds its text moves exactly the body the row had, and one that does not
  changes nothing; and a flag set by a refusal is gone before the same server stores over it. `Unopposed`
  is what `EmptyNeverByRefresh` adds: while a background refresh waits to store an empty body, and no
  other server has stored since it looked, the row has no data.
* `AiConnections_proofs!TypeCorrect`, `TokenStaysCurrent` (`TokenIsCurrent`), `KeyNeverLost` (`KeyKept`),
  `RuntimeIsExclusive` (`OneRuntime`), `ChildKeepsProfile` (`ChildHasProfile`) and `OvertakenStoresNothing`
  (`OvertakenSignInStoresNothing`), for any numbers of servers, operations, tokens, profiles
  and crashes. None is inductive alone. `Locked`: the lock is held by an operation that came to it or by a renewal, and
  every renewal holds it. `Copied`: while a renewal holds the lock, the
  copy it will write is the store with the claim, since every other section
  waits; hence no key is lost. `Tokens`: every token has one holder, which is the store, a
  sign-in that will save it, a renewal that will write it or a disconnect that will
  revoke it, and all but the last hold valid ones, the store until one of the four named faults; hence
  nobody spends a token that somebody else will store. `Profiles`: a disconnect that waits for CLI processes
  knows all of its server's, and its flag keeps others from starting; hence none
  is left when it removes the profile's directory. `Placed` says that an operation belongs to
  a running server, which with `OneRuntime` keeps the claim from being taken over under it.
  Orphans of a killed server are no operation, and no invariant speaks of them.

* `ReportRun_proofs!EndsSettled` (`TerminalStepsSettled`) and `OutcomeIsFinal` (`OutcomeStands`), for any
  numbers of retries, losses, judge and analyst tries and any fingerprints. A data-only
  report skips only the passes, and the complete report skips nothing: that both leave
  no live step depends on where the run is, not on the write. Only the run with
  authority writes to the steps, so the invariant describes that run. `Early`: before its
  first pass it has sent nothing. `Late`: a running step has an attempt in flight, or is
  the judge or the verifier about to be sent. `OneSide`: a side in flight has no result
  yet. `Judging`: a judge in flight is the latest try and has neither answered nor
  failed. `Verifying`: after the verification nothing is in flight. The lemmas take the
  actions in groups: the ways to end, the steps that give or take authority, the
  settlements, the launches. `OutcomeIsFinal` follows because a job that is over leaves
  no run with authority.
* `ReportRun_proofs!OneCohort` (`ReportFromOneCohort`), `PaidOnce` (`NothingPaidTwice`) and `RunTypes`
  (`TypeOK`) rest on `CohortInv`, which is about the attempts and uses the invariant
  above for the place of the run. `Attempted`: an attempt that has not failed was built from
  one successful bull and one bear, or from one judge output, of its own data. `Equipped`
  describes the run with authority: its tries are numbered and none is sent again
  (`Numbered`, `OneData`), its plan holds one success of each pass it reuses and reuses the judge alone
  (`Reusing`), and all it works with has the fingerprint it fetched (`OneData`).
  `Supplied`: past the judge every pass has a result, and each verification of this
  try was given the judge's latest one; so what is published is what was
  verified. `NothingPaidTwice` compares a launch with the plan: the run launches no pass
  it reuses, and reuses no later pass while it launches an earlier one.
* `ReportRun_proofs!RetryHasPlan` (`AcceptedRetryHasPlan`) speaks of a retry while it is queued; that it is
  then run is another matter, and `unrun` shows a retry that is not. A plan is computed from a lineage that late
  settlements still change, so the property says more than that it was not empty when
  the retry was accepted. `Lineage`: all attempts of the lineage have one fingerprint, because a
  retry whose data no longer fits what it reuses ends before its first pass; so a late
  failure or a new success of one side never makes the other unusable. `Anchored`: a retry rests
  on a side that succeeded in the first generation; that success is never rewritten, and since
  each retry reuses it or something built from it, none ever tries that side
  again. `Sourced`: the plan in the hands of a run is still in the table.

* `JobStream_proofs!TypeCorrect`, `OutcomeIsOwn` (`OutcomeIsOfThisRun`) and `MessageIsOwn`
  (`MessageIsOfOutcome`), for any numbers of jobs, POSTs, faults and retries of a read.
  The argument is about revisions: a start or a retry answers with the
  revision `r` at which the row was live, and every later end has a later one.
  `Since` says that of the row, `Told` of an answer on its way, `Opened` of the source opened
  with it and of the frames on its wire. `Fenced` ties the page's fence to its
  open source. `Asking`: a start or retry under way has left no fence, and a cancel under way
  finds the page running; so an answer that is still current comes before the
  outcome, never under it. `MaxProgress <= MaxRevision` serves the type bound only.

Only model-checked: liveness (`Served`, `Recovered`, `Concludes`, `NobodyWaitsForever`), which is outside
the prover. Every invariant and action property of a passing run has its theorem.

## What is left out, and what is simplified

* Time is a counter, monotone and common to all processes.
* USD are small integers; the micro-USD rounding of the code is not modelled.
* `RollingCap` and its window guard admission as in the code; no property claims
  the window stays within its cap, since a late settlement is dated when it commits.
* What the properties except by name, because the code is exposed to it: the unreported spend of
  calls that end short (`SpendAccounted`), a settlement in the place of a presumption the Cost API
  had lowered (`JobCapHeld`), versions read in a preflight (`NoUnseenOverwrite`), commits that
  arrive after their page gave them up (`OutcomeKnown`), a flag after another server's store (`FlagIsTrue`), data
  stored between another server's look and its upsert (`EmptyOnlyForWaiter`), the four losses of a
  token (`TokenIsCurrent`), CLI processes that outlive their server (`OneRuntime`, `ChildHasProfile`), and
  a source the browser has given up (`NobodyWaitsForever`).
* What a stalled call is presumed at covers the charge, since its output is limited; prices
  and tokens are not modelled.
* The refusal to advance a revision beyond the safe-integer range is left out.
* Which of several claimable jobs is taken, and `notBefore`, are a free choice.
* In `SchedulerPump` a route's commit and its kick are one step; a crash between them is
  a crash just after. `METIS_RESUME_ON_START=0` is not modelled, nor the resume route
  that goes with it: a kick that changes no row.
* In `SettingsSync` a refusal (412, 400) and a storage error are "failed", as the page
  treats them; sources of values and changes of the environment are left out. That a
  flush ends is stated as an invariant: whoever waits, waits for a busy queue.
* In `ReportRun` run input snapshots and the legacy bull and bear columns are not modelled.
* In `AiConnections` model lists, credential tests and the encryption of the file are not
  modelled, and whether an access token has expired is left open at every request.

Not modelled:

* Providers, Stage B, EDGAR extraction, schemas, prompts, evaluation, the watchlist
  and the user interface other than `GenerateReport` and the settings queue: formulas over floating-point numbers, parsing of documents, prompts
  and checks over text, layout. They keep no state that others change, and they
  are most of the repository's lines, which is why the models stand for a small
  share of them. What they do to the modelled parts (fail, time out, reject an
  output, return an empty or damaged body, change the fingerprint of the data) is a
  choice of the environment in `ReportRun` and `ApiCache`.

## Plan

The modules planned are written, checked and proved about. What is left is to widen two of them:
run input snapshots in `ReportRun`, and a pump without a
resolver in `SchedulerPump`.
