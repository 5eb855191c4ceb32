# Verification of mediated-mailbox-mcp

TLA+ models of this repository's own logic, checked with TLC on small instances
and proved with TLAPS for every value of their constants. Every definition is
translated from the Go source or the SQL it runs; `PROJECT.json` maps each one to
its lines. Paths below are relative to the repository.

Run `tlc -config X.cfg MCModule` for a run of `PROJECT.json` and
`tlapm M_proofs.tla` for the proofs of a module.

## 1. The system and its parts

Three processes, `api` (serves mail to an agent), `worker` (keeps an index of the
mailbox) and `ui` (the operator's), share one Postgres database and, per account,
one provider mailbox. They coordinate through the database alone.

| Part | State it keeps | Operations | What is hard | What makes it correct |
|---|---|---|---|---|
| **Rate limiter** `ratelimit/core`, `ratelimit/lease`, `db/ratestate/limiter` | per account a `rate_state` row (rate, backoff, bucket, when each class asked) and `rate_grants` rows of the last second | `Acquire` (ask, wait, ask again), and after a call `Succeeded`, `Throttled`, `ServerError`; a lock around each transaction | spenders in all processes; a grant committed and never heard of; a database clock that steps back; classes that share one bucket | no second passes the hard cap; issuance stays polite over any time; a retry-after is honored; no class waits for ever |
| **Job scheduler** `worker/internal/schedule` | a map of keys to job states, a goroutine per loop, a WaitGroup, a channel of slots per limit, the series | `Ensure`, `Remove`, `Wake`, `Stop`; a loop's ask, run, backoff | ensure overtaking a removal; cancellation at every wait; one buffered wake; slots; shutdown racing an ensure | one run of a key at a time; slots neither lost nor made; no wake lost; Remove and Stop return and leave nothing behind |
| **Delta sync due decision** `worker/internal/core/deltasync/due` | the phase its latest tick is recorded at | `Decide`, asked by the scheduler's loop | late timers, long runs, backoffs that end inside an interval | one tick an interval, and none skipped |
| **Delta sync** `worker/internal/deltasync`, `core/deltasync/tick` | the change cursor with its write time, the index, run records, a scan checkpoint | a tick: read the changes, apply each set with the cursor; recover from a gap; scan what waits | a process stopped between any two transactions; metadata fetched later than the change that named it; a cursor the provider has forgotten; a mailbox that changes throughout | no mail lost before the cursor, nothing live removed, labels never go back, the index catches up |
| **Backfill** `worker/internal/backfill`, `core/backfill` | two passes' checkpoints and completion flags, over the same index and pending scans | open, page, refetch, finish; scan newest first; a run-start step for a changed scanner | restart with another scanner; a page fetched before a removal and committed after; scanning beside delta sync | every message enumerated once; no subject left masked by an old scanner; no verdict from one |
| **Sessions and credentials** `executioncontext/session`, `accountload`, `credential` | the sealed credential row, what each process holds, an adoption count | open, call (one retry after a re-read), end with a hand-over by compare-and-set; reload, re-read, reseal | overlapping units, an operator's new credential meeting a rotated old one, a failed write-back | the newest valid credential is never overwritten by a stale one |
| **Policy and reload** `executioncontext/assembly`, `policyload`, `api/internal/reload` | an active snapshot per process | reload in part or whole; a unit keeps the snapshot it entered with | a reload failing halfway, a request across a reload | a unit sees one snapshot; a failed part keeps its last good one |
| **Release of a body** `core/redact`, `api/internal/service/body.go`, `api/internal/core/release` | the audit log | read the row, decide the gate, fetch, scan what is served, audit, answer | policy, verdict and body read at different times | nothing is served that the gate and the scan at serving do not both allow, and every answer is audited |
| **Decisions** `core/classify`, `policy`, `sensitivity`, `scangate`, `authorize`, `index` | none | pure functions | precedence and boundaries | against a reference definition |
| **Content scanner, conversion** `core/scan`, `content/markdown` | none | text in, findings or Markdown out | recall over a corpus | left to the repository's own tests |
| **Provider port and Gmail adapter** `core/mail`, `provider/gmail` | none of ours | the mailbox's calls | answers that are late, partial or refused | what it may answer is the environment of the models |
| **Client surface** `api`, **UI server** `ui` | requests | reads of the index, policy edits with a version check, the connect flow | concurrent edits, and what they change under the other processes | an edit binds every request after it; a new grant reaches every process |
| **Process host** `process/host` | components' parts, a run and a draining context, what it has started, a channel of failures | start, serve, start a goroutine, drain, shut down | failure during start and during drain, a signal at any moment, a goroutine asked for late | pools close last; requests drain first; no failure of a serving process is swallowed; every stop ends |
| **Data access** `db/tx`, migrations | - | a transaction with the account set | - | one action of the models that use it |
| **Reorg engine** `core/plan` | - | - | not built yet | - |
| **Packaging, key generation, test support** | - | - | - | not modelled |

How they interact: the scheduler runs the reloads and one job per account and
kind; a job opens a session, whose calls to the provider each take a lease from
the rate limiter; delta sync and backfill write the same index and take from the
same set of messages waiting for a scan; `api` reads that index and spends from
the same limiter as the interactive class; a UI edit of accounts or policy wakes
the other processes' reloads.

## 2. Plan

In order of what would hurt most if it were wrong; the first seven are done.

1. `RateLimiter`, with the abstract `AccountBudget` it implements, `RateLimiterTimed`,
   `RateLimiter_proofs`.
2. `Scheduler`, with the abstract `JobRuns` it implements, `Scheduler_proofs`;
   `JobTimer`, `JobTimer_proofs`.
3. `DeltaSync`, `DeltaSync_proofs`.
4. `Credentials`, `Credentials_proofs`, with the abstract `StoredCredential` it implements.
5. `Backfill`, `Backfill_proofs`: both passes beside delta sync's scanning, over one
   account's rows.
6. `BodyRelease`, `BodyRelease_proofs`: policy loads and the serving of a body.
7. `ProcessHost`, `ProcessHost_proofs`.

What is left, in order:

8. `Decisions` — classifier, authorizer and the whole scan gate as operators against
   reference definitions.
9. The UI's policy edits with their comparison and history row, and the steps of
   the connect flow.
10. Abstract specifications of the release of a body and of the index's upkeep, and that
    `BodyRelease`, `DeltaSync` and `Backfill` implement them.

## 3. What is modelled

### RateLimiter

One account. `rate`, `backoff`, `throttles`, `level`, `filled` and `asked` are the
columns of `rate_state`, `grants` the rows of `rate_grants`. A transaction takes
the account's advisory lock before it reads the clock, so each is one action.
`Begin … Abandon` follow one `lease.Call` of a worker; `Wait`, `Grant` and
`GrantUnheard` are the three outcomes of an ask (`core.Issue` with what
`storeIssuance` writes), `Refuse` the cost no second can hold; `Succeed`,
`Throttle`, `ServerError`, `EndUntold` what a call's end tells the controller.
`Tick` and `StepBack` move time: `now` is real time, which no process reads,
`clock` the database's.

Abstractions: costs, rates and shares are whole tokens, an increase of the rate
is rounded either way, so the fractions of the code lie between two branches of
the model; whether a latency window closes slow is a free choice, so every
series of windows is a behaviour; a throttle's jitter is any value under its
bound. The clock is only ever set back: a clock set forward ages every grant at
once, and nothing the limiter keeps could tell.

`issued` and `quiet` are history variables, not in the code: what was granted up
to each instant of real time, and when the longest wait a throttle asked for
ends in real time.

`RateLimiterTimed` adds the timers of `Acquire` and `waitFor`: a waiting worker
asks again when its timer fires and time does not pass a timer that is due. The
waits it bounds are safety properties over time, so no fairness is assumed. Both
bounds are computed from the code's constants and leave out the waits throttles
asked for: `LoneBound`, of a worker that has had the account to itself, is a refill at
the floor, or a second, and one wait between asks; `InteractiveBound`, of the
interactive class's only worker (`Favoured`), adds the seconds others can fill to the hard
cap by what they spend above the target. It needs a call within the class's share at the
floor and a hard cap with room for it above the target. With the code's target of at
most half the ceiling and its hard cap of 80% of it, any call of up to 36% of the cap
leaves that room, and one within the floor, 5% of the ceiling, always does.

`AccountBudget` is what the provider is promised, in real time and with none of the
limiter's state: what has been spent by each instant, until when the longest wait lasts,
and whether the clock was ever found set back. It may spend only within both bounds
and, unless set back, only after the wait. The limiter implements it (`BudgetKept ==
Budget!Spec`, by `INSTANCE … WITH`, `clock # now` for set back and the history
variables for the rest).

### Scheduler

`jobs` is the map of keys to states, a state is named by its loop's number, and
`loop[l]` holds its flags and channel. A call of `Ensure` or `Remove` takes as many
actions as it has points where another goroutine can come between: `Ensure` gives
the lock up only at its end but `wg.Add` and the context check race with `Stop`;
`Remove` marks, cancels, waits and takes the key away. A loop begins after the
removed loop before it, selects, drains its wake channel, takes a slot or queues,
runs, reports, re-arms. Callers are runs of the reload jobs, as in
`worker/app`, so the WaitGroup counts each.

Abstractions: no time, an armed timer fires whenever it likes; `Answer` may take
a slot while another loop queues for it, as a Go channel's waiters and a newcomer
may interleave before the waiter is parked; of the series only who set them and
two gauges. `owed` is a history flag: a wake was sent and no run has started since.

`JobRuns` is what the scheduler promises of runs, without loops, locks or calls: which
jobs are ensured, the runs under way (from a slot's take to its return) and whether Stop
has returned. A run starts only for an ensured job that has none, within its kind's slots;
a job is removed only without a run; nothing is ensured or started after Stop. The
scheduler implements it (`RunsKept == Runs!Spec`): the ensured jobs are the keys with a
state, the runs the loops at `ready` or `running`, told apart by the loop's number, so a
second run of a key could not pass for the first.

### JobTimer

The timer variables of one loop of an account's delta sync (`anchor`-relative time,
`point`, `due`, the backoff) with the job's `Decide`. A timer may fire late, a run
or a wait for a slot may take any time. Nobody wakes these jobs, so wakes and
cancellation are left to `Scheduler`. `busy`, the latest instant a run or a wait for
a slot has reached, and `punctual` are history.

### DeltaSync

The ticks of one account against a mailbox. `feed` is every change the mailbox has
seen, a cursor is a position in it, and a message's labels are the position of the
change they come from, so "the index is as new as the cursor" is a comparison of
numbers. `cursor`, `written`, `index` and `open` are rows of the database
(`account_state`, `messages`, the run records); the rest of a tick (`step`, `began`,
`read`, `held`, `window`, `asked`) is what its goroutine holds, lost when it stops.
`began` is the write time of the cursor as the tick read it at its start: change sets
it applies move `written` but not the start of the window it opens at a gap (`Start`).

One action for each call to the provider and each transaction, in the order of
`tick.go`: `StartTick`; then `AskChanges`, `FetchMetadata`, `ApplyChanges` in a loop
(`changes`); or, without a cursor (`first`) or after `FindGap` (`recover`),
`TakeCursor`, `OpenWindow`, `ReadPage` and `ApplyPage` in a loop (`reconcile`),
`AskHeld` and `RemoveGone` (`removeGone`) and `FinishRecovery`; then `FinishTick`.
`Stop` is every failure, panic and end of the process: nothing is rolled back that
was committed, and the failure is recorded for the tick's run, its recovery's,
both or neither.

The mailbox is the environment: messages come (dated up to `Drift` late), change
and go between any two actions; the feed is given in parts of any length and the
provider may forget its start once it is `Retention` old; a listing must return
what is in its window from its start to its reading, and may return what comes
meanwhile; messages in `Hidden` are never listed, since the search may compare
another date than the model's. Asked for by identifier, the mailbox gives exactly
what it holds.

Abstractions: a thread is one message; a tick's metadata is read at one instant;
scanning is the time between `ending` and `FinishTick`; it, and backfill, which
writes the same index, are in `Backfill`. `since`, `missed`, `fresh` and `lagged` are
history: the first window's start, the messages no window could show, and whether
the cursor was the feed's end a short while before it was stored (`began.fresh`: whether
it was when the tick started).

### Credentials and StoredCredential

One account in every process that calls its provider. `row` is the account's client
and sealed credential, the operator's write of both one transaction (`Connect`). A
token is the grant it came from and its number among the rotations, so "the newest" is
a comparison of numbers; a sealed value adds the key. `held`, `adoptions` and
`snapshot` are the loader of `accountload`, and `busy` the call its lock is held for.
A call is an action for each statement it makes: a reload reads the client
(`LoadClients`) and then the credential (`LoadCredential`), which is how the two may
disagree; a hand-over and a re-seal compare and set (`HandOverReplace`,
`ResealReplace`) and, when another has replaced the value, read it again. A statement
that fails may have been committed all the same (`HandOverFails`, `ResealFails`).

A unit of work takes what is served, opens a session on the source the process keeps
or on one of its own (`Open`, `Build`), calls, rotates, is refused and re-reads
(`Reread`, `RereadClient`, `Retry`), reads its source's token before it takes the
loader's lock (`End`), hands it over or not, goes on or closes. Sources are numbered
and an unused number is taken again. The provider is external: it rotates when asked,
may end the old token at once, and may end an old grant as it gives a new one.

`StoredCredential` is what the row promises whoever writes it: the grant and the
client are the operator's alone to replace, and a process's write keeps both. The
detailed module implements it (`GrantNeverPutBack == Row!Spec`, by `INSTANCE … WITH`).
That a rotation is never put back by an older one is *not* promised: the code does not
(section 5).

### ProcessHost

One process from its assembly to its return. A task, a goroutine and a request are
what may run, each with its ending: a task that fails sends to a channel of `Slots`, a
goroutine that panics is recorded and then done (`Panic`, `EndRoutine`). Assembly opens
pools in order and may fail; `Listen` and `Serve` follow; the signal may come at any
moment, and before the process serves a function registered for it ends the run
(`after`, `StopRun`). `Stop … Return` is the end in the order of `host.go`: no more
requests, wait for those there are or for the ten seconds, end the run, wait for the
tasks, refuse new goroutines and wait for those there are, shut the operations server,
close. A request need never end, a failure may come anywhere, and anything that runs
may ask for a goroutine.

Three things the model has because the code does, none of which a doc denies: a panic
before a listen or a TLS load that fails is not in what the process returns; a signal
in the last of the assembly may end the run before the requests drain, since the
registered function is not waited for (so `RequestsDrainFirst` speaks of `after =
"stopped"`); and an operations server that fails behind the channel's last reading is
not heard.

### Backfill

The rows of one account as backfill's job and delta sync's ticks work them at once.
`row` is a message's scan state, the scanner or bound that produced it, and its subject
with the scanner that masked it; `first`, `second`, `restart` are columns of
`account_state`, `listing` and `walk` the latest run of each pass with its checkpoint.
The job makes the run-start step once in a process (`Reopen`), then the first pass
(`FirstOpen`, `FetchPage`, `CommitPage`, `Refetch`, `FirstFinish`), then the second
(`SecondOpen`, `Compare`, `RequeueSkips`, `ReadPage`, `DecidePage`, `SecondFinish`). A
tick applies what the feed tells it (`Apply`) and, once it has read that the second
pass has ended, delists, reads and decides. A commit fails as a whole when a message it
decides no longer waits (`Waited`). `Stop` is the end of the process, which comes back
with the same release or another: a scanner, a body bound and a volume mark.

`Newest` and `Lowest` are the next messages in the order of a page of the second pass
and of a tick's read, each a set of one sequence, of which `Read` keeps what the gate
reads. `Gate` is `scangate.Decide` on that, `Outcomes` a read's decisions in order, each
hearing whether its sender's mail before it was flagged.

Abstractions: each transaction is one action, and so is each call whose answer a later
one stores. The exception is the run-start step, whose transaction is read committed and
counts a sender's hits in one statement (`Recount`, one for each sender) that may wait
for a tick's commit to the sender's row and then write over it: a tick may decide and
remove between the counts and the commit (`Reopen`), but not remove the rows the step has
locked (`Locked`). In the code the sender's lock may make a tick wait, so the model has
more such steps than the code. Other interleavings of statements inside a transaction are
left out, and a sender's volume is read from the rows. `Refetch` is the read, the call and the store together, since between them
the row can only be removed; the cursor is left to `DeltaSync`, a tick is told each
message's latest state; a listing shows the mailbox as it is when the page is fetched;
the gate's rules that all come to a scan are one outcome; an account taken off the
worker's list and put back is not modelled. `due` (what the second pass, since it last
started over, has to come by), `lost` (flagged messages removed since their sender's
hits were counted), `unseen` (those a tick flagged after a committed count was taken and
before its commit) and `meanwhile` (both, for counts not yet committed) are history.

### BodyRelease

A request for a body, from the policy it waits for to its audit row. `tables` is every
version of the rules as committed, a snapshot the versions it was read at. A request
joins the round that waits (`Arrive`), so the load it waits for starts after it asked;
one goroutine takes the rounds in turn (`Pick`) and ends when there is none. A load and
the scheduled reload share the loader's lock (`Begin`), read account by account, each in
a transaction of its own (`ReadAccount`), read once more when the base rules changed on
the way (`ReadAgain`), and swap or fail. A load may panic, a start be refused by a host
that stops, a caller leave. The request then reads the snapshot in force whatever ended
the load (`TakePolicy`), its row (`ReadRow`), the body (`Fetch`), checks what no scanner
has read, writes its audit row and answers (`Answer`, `AuditFails`).

Abstractions: the list of accounts and a message's row are free choices at the moment
they are read, since accounts, the worker's scans and re-scans change them between any
two steps; denials are one verdict; a body is the parts a pattern matches in. `since` is
history: the version at the request's arrival, or the first when its load failed, for
the code then decides by the last policy that loaded.

## 4. Properties and runs

| Run | Question | Bounds, and why they are enough |
|---|---|---|
| `RateLimiter` | Do the hard cap (`HardCapKept`) and the politeness bound (`PolitenessKept`) hold in real time, through crashes, throttles and a clock that steps back? Does the limiter implement `AccountBudget`, so that no step spends past either bound, cuts a wait short or, until the clock steps back, spends inside one (`BudgetKept`)? | two workers of two classes, one call refused, one that fills the bucket; a second is two instants, the clock may be set back a second once; four instants of time. The proofs cover the rest |
| `RateLimiterReserved` | Is an interactive call beside a batch worker that always asks granted soon (`InteractiveWaitsBriefly`)? Is a lone worker granted any call up to the hard cap (`LoneWaitBounded`), after throttles too? | up to instant 60, thirty seconds; a view counts states that differ only in their age once |
| `Scheduler` | Does the scheduler implement `JobRuns`, so that a key never has two runs, nor one after its removal or the stop (`RunsKept`)? Is no slot lost (`LimitKept`), are the series the job's own (`SeriesTrue`), is no loop left after Stop (`StopWaitsForAll`)? | three keys, two of which share a limit of one slot, two callers, three loops: enough for an ensure to overtake a removal whose loop queues for a slot the other key holds, and the unlimited key is the one whose loops could overlap if nothing but the limit kept them apart |
| `SchedulerLiveness` | Is every wake answered (`WakeAnswered`)? Do `Remove` and `Stop` return (`RemoveReturns`, `StopReturns`)? | a caller, a waker, two loops, one slot, one timed and one untimed job |
| `JobTimer` | Does the phase ever drift (`PhaseKept`)? Two ticks in an interval (`OneTickAnInterval`)? An interval in which no tick starts and into which no run and no wait for a slot reaches (`TickedThisInterval`)? | eight intervals of four instants; backoffs of one, two, four and six instants end inside an interval, at its end and past it |
| `DeltaSync` | Is no mail lost (`MailKept`) and the index as new as the cursor (`IndexFollows`)? Does anything live ever leave it (`LiveKept`)? Is a stopped run ever left running (`OneRunOpen`)? Does the cursor come to the feed's end (`CatchesUp`)? | two messages, one of them hidden from the search, three changes (come, change, go; or one behind the other), one stop, a clock of two instants and an overlap and a drift of one, a provider that may forget at once |
| `DeltaSyncGap` | Does a gap lose no mail, as the decision says? **No** (finding) | two messages, one stop, a provider that keeps its feed three times the overlap, ticks that take no time and dates without drift. The shortest trace has 26 states: the feed read in parts, a part applied after the outage, the stop, and the gap met by the next tick |
| `Credentials` | Does the row implement `StoredCredential`, so that no process puts back a grant the operator has replaced (`GrantNeverPutBack`)? Does a loader ever go back to one (`LoaderNeverGoesBack`)? Does the stamp a hand-over is let through by tell the grants apart (`StampTellsGrant`)? | two processes with a unit each, three sources, two grants of two clients, a rotation, a failed statement: enough for a unit to end across the operator's replacement in either process |
| `CredentialsLiveness` | Do the operator's latest grant and its client reach a process that keeps reloading (`GrantReachesProcesses`)? Does a replaced key come to seal what is stored (`KeyReplaced`)? | a process, a unit, three grants of which the second has another client, two keys, a rotation, a failed statement, a restart |
| `Backfill` | Is nothing another scanner produced used (`ScannerCurrent`)? Are the hits the gate reads those of the rows, short of exactly what a tick flags inside a run-start step (`HitsExact`)? Does the first pass end with all that was there (`FirstPassComplete`), the second with all that waited (`NothingPassedOver`)? Is nothing decided over (`DecidedOnce`)? Do both end (`PassesEnd`) and is what waits decided (`WaitingDecided`)? | two messages of one sender, one there from the start and one that comes and may go; pages of one; two releases whose scanners find something in one message each and whose bounds differ; one stop, one edit, one failure. A stop between any two steps of either job, under either release, is every hazard's trigger; two of any would only combine them. 343 000 states |
| `BodyRelease` | Is what is released allowed by the rules of one moment since its request came (`RestrictionBinds`)? Is it checked and audited (`ReleasesChecked`)? Does a reload put back an older policy (`PolicyNeverGoesBack`)? Is every request answered (`RequestsAnswered`)? | two requests for one message, two accounts, two edits of the base rules or of one account's: enough for one request to join while the other's load runs, and for base rules to change and change back under a load. 840 000 states |
| `ProcessHost` | Do the pools close behind everything (`PoolsCloseLast`)? Is every failure returned (`FailuresReported`)? Do requests drain first (`RequestsDrainFirst`)? Does the process come to its end (`StopCompletes`)? | two components, two tasks, two goroutines, a request: two of each that can fail at once and in either order |

Deadlock is checked where the system always has something to do: in `DeltaSync`,
`DeltaSyncGap`, `Credentials`, `CredentialsLiveness`, `Backfill` and `BodyRelease`. It is
not in the rest, which really stop: the scheduler after `Stop`, a process that has
returned, the limiter and the timer at the bound on time.

The type invariant of every module but the abstract ones (`AccountBudget`, `JobRuns`,
`StoredCredential`) is proved, and so are the inductive invariants; the runs check what
is not a type. Every invariant and every action property of a passing run is proved too,
and so is each of the three refinements.

An operator under a comment "Mutant:" is a broken variant of the definition after
it, a guard dropped or a step forgotten. Put in its place it makes TLC find the
property violated, which shows that the property says something of that code.

Fairness, and why the code justifies it:

* Scheduler: a loop that can go on again and again does (strong), since Go's mutex and
  channel queues are first come first served, timers fire and a cancelled run returns.
  A caller's call goes on, a waker's send is never blocked, and `Stop` is called once
  the worker's context has ended. No fairness is assumed of whether anybody ensures,
  removes or wakes.
* DeltaSync and Backfill: a tick goes on and another starts after it, and backfill's job
  goes on and is asked again (weak), since the scheduler asks after every interval and
  every backoff. Stops and failures are bounded, so some run is let finish; the
  operator and the mailbox need do nothing.
* Credentials: reloads and re-seals come again at every interval and the loader's lock
  is handed to whoever waits for it (strong, since units may take it in between); the
  statements of a call answer (weak). Nothing makes the operator, the provider or a
  unit act.
* BodyRelease: goroutines go on and a transaction or a call ends, if only with an error
  (weak); the lock is given in its turn although the scheduled reload always asks again
  (strong), since Go's mutex is starvation-free.
* ProcessHost: the process goes on, the ten seconds run out, a task and a goroutine
  return once their context has ended (weak). A request need never end.

## 5. Findings

A run shows this one:

* `src/worker/internal/core/deltasync/tick/tick.go:27` — the window of a gap starts an
  hour before the cursor was *written*, but a part of a backlog stores a cursor as
  old as the part's last change. After a long outage, a tick that is stopped after its
  first part, and a provider that then forgets, the next tick starts from that write
  time, and the mail behind the part is lost. A gap met in the tick that applied the
  part is covered, since its window starts from what that tick read at its start.
  `MailKept` says when no mail is lost: while the cursor of each gap, or the one its
  tick started from, was the feed's end, stored within the overlap of its reading.
The rest were met while modelling. No run checks them; where a property was false
because of one, it says what does hold.

* `src/ratelimit/core/controller.go:61` — a throttle's end of backoff is counted from
  the clock as read, an ask compares it with the instant raised to the latest one
  seen; after the clock steps back a wait ends early. `BudgetKept` and
  `RetryAfterKept` speak of the time before a step back.
* `src/ratelimit/core/lease.go:94` — classes are owed only their share of a second.
  At Gmail's costs a metadata fetch of three identifiers is more than sync's share
  and what batch needs to draw comes first, so batch starves it, against "brief
  queuing acceptable" and "Batch yields to both".
* `src/worker/internal/schedule/schedule.go:335` — a tick made at a backoff's end
  that outlasts the interval makes the loop answer the next time on the phase with
  an ask that is not due, and the tick is never made.
* `src/worker/internal/schedule/schedule.go:342` — likewise, an ask at a backoff's end
  that is not due and waits for its slot across a time on the phase is answered after
  it, and the tick of that time is not made though nothing ran. `TickedThisInterval`
  excepts an interval a run or a wait for a slot reaches into.
* `src/worker/internal/schedule/schedule.go:338` — the wake channel is drained before
  the slot is taken, so a wake sent while the loop queues asks for one run more than
  the comment on `Wake` says. A run too many does no harm.
* `src/worker/internal/deltasync/tick/tick.go:184` — what a first tick stored before it
  stopped and the mailbox dropped before the next one's cursor stays for good.
* `src/worker/internal/deltasync/tick/tick.go:375`, `tick/postgres.go:416` — a tick reads
  what the gate decides by and commits the decision after fetching other bodies. If the
  process starts again in between and its run-start step masks the subject, or another
  job finds a hit, the skip committed is one the gate would not make now, and it stays
  until something reopens it (against `docs/adr` 0120, lines 91 to 93 and 125 to 130).
* `src/db/senders/statistics/statistics.sql:59` — transactions are read committed
  (`src/db/tx/tx.go:41`). The run-start step's count of a sender's hits may wait for the
  sender's row while a tick that flagged a message holds it (`tick/postgres.go:375`), and
  then writes a count from before that tick's commit over what it added, so the hit is
  lost until the next count (against "so a message scanned again counts once").
  `HitsExact` says that no more than this is missing, in `unseen`. Only read, not
  modelled: `RebuildSender`'s upsert and `DropEmptySender` decide in the same way on what
  was committed as they started, so the one may store an older message count, the other
  drop the row of a sender whose message another transaction has just added.
* `src/executioncontext/accountload/writeback.go:79` — a write-back whose answer is lost
  after it was committed leaves the loader knowing the older value. The next reload
  (`load.go:342`) takes the process's own value for an outside one and gives it a new
  adoption stamp, so the rotation a session that is still open ends with is discarded
  (`writeback.go:57`). If the provider has ended the one before it, the account needs
  the operator again, against `docs/adr` 0082, line 24.
* `src/executioncontext/session/session.go:275` — a session's token is read before the
  loader's lock is taken, so of two units that end together the one that read first may
  write its older rotation last. Both are of the same grant, which is all
  `StoredCredential` promises.
* `src/ui/internal/api/connect.go:437` — a re-authorization started through one client
  and finished after another session moved the account to a second client stores the
  first client's credential under the second: the transaction checks that the client the
  flow went through is as it was, not that the account still connects through it
  (against `docs/adr` 0106, "A grant works only with the client it was issued to").
  `Connect` takes a client and a credential that fit.
* `src/db/accounts/setup/setup.sql:16` — of two re-authorizations of an account that
  remembers no mailbox, naming different ones, the second stores its credential and
  keeps the mailbox of the first (against `docs/adr` 0080, "a credential for any other
  mailbox is refused").
* `src/db/policychanges/changes.sql:4` — a history row's time is that of its
  transaction's start while the history is ordered by time and then number, so of two
  edits the one that waited for the other may be shown first.

One leftover the repository's own decision names (`docs/adr/data/0105`, lines 101 to
108) is also in the models: a page fetched before a message is removed and committed
after its removal puts it back (`worker/internal/backfill/pass1/pass1.go:229`), which is
why `Backfill` says nothing of messages the mailbox has lost.

## 6. Proofs

`RateLimiter_proofs` (assumptions: those named in `RateLimiter`, what
`limits.go` and `classes.go` compute):

* `TypeCorrect`, `IssuanceCorrect`, `PolitenessCorrect`, `HardCapCorrect`,
  `RetryAfterCorrect`, `RateCorrect` (the rate stays between the floor and the target),
  and `BudgetCorrect`, the refinement of `AccountBudget`.
* The bounds are not inductive by themselves. `PoliteInv` adds to what was issued
  since an instant what the bucket could hold if filled now (`Fillable`): an ask
  only moves tokens from one to the other, and time adds at most the target.
  `CoverInv` says that the stored grants stamped after an instant cover what was
  issued since it, for every instant of the last second, though their stamps are
  those of a clock that may have been set back: a stamp is never further behind
  than the clock is. Then the window an ask sums is at least what really was
  issued, and the hard cap follows from the ask's own check. `RecordInv` ties the
  two to the rows: no stamp is ahead of `filled`, and identities only grow, so a
  new grant is a new row and `Tokens` adds up (a lemma over `Cardinality`).
* Every step is one of a grant, an ask left waiting, time, or a step that touches
  no issuance (`StepKinds`), so each invariant has four cases, not twelve.
* `RetryAfterCorrect`: while `clock = now` the stored backoff is the real one and
  the raised instant is the clock (`TrueTimeInv`).
* `BudgetCorrect` puts these together: a grant is a spending within the budget
  (`GrantSpends`), a throttle asks for a longer quiet or, when it asks for less than is
  left, changes nothing (`ThrottleAsks`), time and steps back are the budget's own, and
  every other step leaves it alone. `RetryAfterKept` on its own is checked by no run, for
  the refinement says it.

The bounds on waiting are proved there too (further assumption: `WaitAssumption`).
`TimedImplements` gives `RateLimiterTimed` all of the above. `TimedInv`
(`TimedInvCorrect`) is inductive, and its parts are:

* `TimeInv`: the clock is real time, which no stored instant is after. `PaceInv`: a
  waiting worker's timer is due within one longest wait of its class's last ask.
  `AskerInv` and `HolderInv`: whoever asked last in a class waits still or has stopped
  since, and whoever was given a stored grant has stopped waiting since. `StoredInv`: the stored grants of a stretch of time are no more than
  was issued in it, the converse of `CoverInv`.
* `LoneInv`: since the account was left to a worker, the bucket has what the floor's rate
  fills in that time, up to the worker's cost (`Filled`, kept by `FillsOn` whatever the
  rate does). When that is the cost and a second has passed, the ask is granted
  (`LoneIsGranted`), so a worker that still waits asks before its bound.
* `FavouredInv`: the same of the interactive worker from when its own last lease is
  spent. Grants beside it leave it its share, because it asked within a lease's life and
  holds nothing (`ShareLeft`); this is the reservation at work, and `ShareCorrect`
  states it alone. A refusal after that can only be for the hard cap: the last
  second is filled to within its cost (`AskCrowded`), and the next ask comes a shortest
  wait later. Asks a `Spell` apart then each find a full second of their own
  (`CrowdsAddUp`, a least counterexample over the instants), while `PoliteInv` bounds
  all that is issued, so there are at most `Crowds` of them (`CrowdsRunOut`).
* `LoneWaitCorrect` and `InteractiveWaitCorrect` are read off the two.

`Scheduler_proofs`: `SchedulerInv` is `TypeOK /\ CallInv /\ LoopInv /\ LimitKept /\
SeriesTrue` and is inductive. `LoopInv` says
that a key's state is its latest loop's, that a loop of a key without a state has
returned, and that of two loops of a key the earlier has returned or the later
still waits to begin, for it or for one made after it; `CallInv` ties each call to the key and loop it is about.
`OneRunCorrect`, `LimitCorrect` (slots counted as a cardinality of the loops that
hold one), `SeriesCorrect`, `WakeCorrect` and `StopCorrect` follow; the last adds that
after Stop every call and loop has returned (`StoppedInv`). `RunsCorrect` is the
refinement of `JobRuns`: taking a slot starts a run (`RunStarts`), for by `LoopInv` every
other loop of its key has returned or not begun and by `LimitKept` the runs beside it are
no more than the slots taken (`BesideHeld`); a run's end finishes it; a `Remove` that takes
its key away comes after the key's latest loop, so after its last run (`RemoveRuns`). It
says more than `OneRunCorrect`, whose `AtMostOneRun` no run checks any more.

`DeltaSync_proofs` (`TypeCorrect`, `OneRunCorrect`, `MailCorrect`, `LiveCorrect`,
`FollowsCorrect`) rests on `Inv`, which is `TypeOK`, `MailKept` and six parts more:

* `ControlInv`: where a tick is tells which runs are open, that it has a cursor and
  what it holds. Without it `EndStopped` could take a record of runs below none.
* `KnownInv`: what the index or the tick knows of has come, and what it is about to
  remove is gone for good. A message that is gone never comes again, so an answer
  read before the transaction is still true in it; this is `LiveCorrect`.
* `CursorInv`: what came after a cursor that was the feed's end when it was read is
  dated no earlier than the drift allows; after a fresh stored one, no earlier than
  its window's start.
* `StartInv`: the write time a tick started from is no later than what was stored since,
  and a cursor that was fresh then is as fresh for every later one, so a window that
  starts from it is never the narrower.
* `HandInv`: what the window shows, of what had come by the cursor the tick took, is
  listed or still to list, and what is listed is in the index or held.
* `KindInv`: the changes the index does not show are of no message.

`MailCorrect` then has three ways to store a cursor: after a change set, what came
since the old cursor was in it and its metadata is held; after the first window,
what it shows is listed; after a gap, what is dated before the window came, by
`CursorInv`, before the old cursor and is in the index by `MailKept` itself. That
the latest change of a message is one of its changes (`LatestIsChange`) needs that a
set of positions has a greatest one (`GreatestExists`), from the well-foundedness
of the naturals.

`FollowsCorrect` (`IndexFollows`) adds two parts. `LastInv`: a message that has gone
changes no more, so a removal read in a change set is the last there is to know.
`FollowInv`: labels a tick holds, or has listed, are as new as the stored cursor and the
one it read, of which the second is never the earlier; only a message of the change set
is held from it; and what had gone by the cursor a recovery took, is dated in its window
and was not listed, is not in the index or is asked for. Storing a cursor then has two
cases for a message: it changed between the old cursor and the new, and what the tick
holds or removed tells of it; or it did not, and it is as it was at the old one
(`LatestGrows`). What neither covers is `Overlooked`, which is in `missed`.

`JobTimer_proofs` (any interval, backoff and bounds): `TypeCorrect`, `PhaseCorrect`,
`OneTickCorrect`, `TickedCorrect`, from `TypeOK` and three parts. `PointInv`: the point is
the latest time on the phase a fire has passed, and out of a backoff the timer is set
for it or the next one. `AskInv`: an ask is of a time that has passed, a tick is
recorded at a time on the phase before its start. `PunctualInv`, the part that is not
obvious: with timers that fire on time, whatever waits idle has ticked, or was kept busy,
since its point. Under them are lemmas on `OnPhase`: it is the greatest multiple of the
interval not past a time (`OnPhaseBounds`, `Multiples`, `Apart`). The backoff's exponent
is not typed by induction, so `After` asks whether the power is in its bounds.

`Credentials_proofs` (`TypeCorrect`, `StampCorrect`, `LoaderCorrect`, `Refinement`) rests
on `IInv`, seven parts. What is stored is of the operator's latest grant (`RowInv`); a
loader holds values of one grant under a stamp it has given (`HeldInv`); what is served
is what is held (`SnapshotInv`); a kept source is of the grant it was built from
(`KeptInv`); what a call read as it took the lock still stands but for later grants
(`CallInv`); and in every place a unit can be its stamp, if it is still its loader's,
tells the grant of what it holds (`UnitInv`). The last is the point: a hand-over is let
through by its stamp, so what it writes is of the grant its loader knows; the
compare-and-set lets it through only over what that loader knows; so the row's grant
stays. `Refinement` maps each step to one of `StoredCredential`'s or to a stutter.

`BodyRelease_proofs` (`TypeCorrect`, `RestrictionCorrect`, `ReleaseCorrect`,
`NeverBackCorrect`): `LockInv` says that a load reads only under the lock; `SnapshotInv`
that what it read agrees on the base rules with its first read, so that an account's
policy by a snapshot is that of the one moment the account was read (`OneMoment`);
`NewerInv` that a load under way reads newer versions than those in force; `RoundInv` that the
load of a request's round, and then whatever is in force or under way, is no older than
the request's arrival; `GateInv` carries that through the gate to the release. No reload
goes back because of `NewerInv` alone: two loads never overlap.

`ProcessHost_proofs` (`TypeCorrect`, `PoolsCorrect`, `ReportCorrect`, `ExitCorrect`,
`DrainCorrect`): `PhaseInv` says what each phase of the stop leaves behind it, `ReportInv`
that a failure is on its way to the error until the process has joined and in it from
then on, `CauseInv` that what stopped the process is known until it returns.
`ExitCorrect` is of `CleanExit`, that a process returning no failure was told to stop,
which no run checks.

`Backfill_proofs` (any mailbox, releases, page sizes and budgets): `TypeCorrect`,
`ScannerCorrect`, `HitsCorrect`, `FirstPassCorrect`, `NothingPassedOverCorrect`,
`DecidedOnceCorrect`, from `Inv`, which adds to the four invariants `CountInv` and three more:

* `ReadInv`: a message is in a read once, so the hits a commit counts are as many as the
  messages it flags.
* `ListingInv`: what the listing is past, newest first, is stored, and of what a fetched
  page ends behind, stored or on the page. A refused token only starts the listing
  again, so it needs no case of its own.
* `WalkInv`: what the second pass has to come by waits and is ahead of its checkpoint
  unless the pass is marked to start over; what is not on the page it read is behind the
  page. A tick may only take from it, what a comparison or the run-start step returns
  restarts the walk, so it is empty at the end.

Every step is one of the operator, mailbox and process, of backfill's job or of a tick
(`Steps`), and changes a row in one of four ways (`Move`, `RowMoves`): it keeps its
decision, is removed, waits, or waited and is decided. `DecidedOnceCorrect` and
`ScannerCorrect` are read off those. For hits, a commit adds as many flagged messages as
it counts (`DecideHits`, a bijection between the places of a read and its messages), a
reopening recounts exactly the senders whose verdicts it returns (`ReopenFlagged`), and
removals are in `lost`. A count is committed later than it was taken, so `CountInv`
carries what it has missed: a count with what ticks flagged since is the flagged messages
that would be left (`KeptIn`) with those removed since (`ClearedFlagged`, `CountSteps`). Each of the pages is a sequence whose order and length its
definition gives (`LeadingFacts`, `NewestFirst`, `ReadResult`); that a page exists is not
needed, since safety says nothing of a step that cannot be made.

Only model-checked: liveness under fairness, which is beyond the prover (`WakeAnswered`,
`RemoveReturns`, `StopReturns`, `CatchesUp`, `GrantReachesProcesses`, `KeyReplaced`,
`PassesEnd`, `WaitingDecided`, `StopCompletes`, `RequestsAnswered`), and the finding of
`DeltaSyncGap`.

## 7. Not modelled

Not there yet: what the plan lists under 8 and 9. Left out of what is modelled: of the
rate limiter, the windows' samples and the collector's and display columns; of the
scheduler, durations and counters of the series; of a tick, what it records of itself; of
backfill, retries inside a step, counters, gate records and an account re-listed; of the
credentials, recorded attempts, the client's own secret and a value that does not open;
of a release, the reasons of a denial, the conversion and the masking of stored text; of
the process host, readiness, TLS and settings; of the UI, all that reads and shows.

Left out for good: text matching and conversion (no state; their properties are about
corpora), the Gmail adapter's HTTP and parsing, the fake provider and the contract suite
(test support), logging and probes, row-level security (the database's own), packaging
and one-shot tools, generated queries beside the SQL they come from, and the reorg
engine, which the repository does not hold yet.
