# just-print: a verification development

just-print is a small print service. A browser or an MCP client uploads a
document, the service converts it to PDF with LibreOffice, and a print request
sends the PDF to CUPS over IPP. Printing is a physical side effect, so the
centre of the program is the promise of `src/src/idempotency.rs`: within the
retention period one `Idempotency-Key` produces one CUPS job, whatever clients,
the network and CUPS do meanwhile.

Paths below are relative to the repository's root; line numbers are in
`PROJECT.json` ("map").

## 1. Inventory

| Component | State it keeps | Operations | Talks to |
|---|---|---|---|
| Idempotency store, `src/idempotency.rs` | key -> in progress (fingerprint, token, watch sender) or completed (fingerprint, response), each with its time | `begin_or_wait`, `complete`, `abort`, `prune` | print handler and task, cleanup loop |
| Print submission, `src/api/print.rs` | one handler future per request, one detached task per attempt | `submit`, `run_submission`, `submit_inner`, `reconcile`, `PendingKey::drop` | store, file store, CUPS client, job registry |
| CUPS client, `src/cups/mod.rs` | printer snapshot with TTL and single flight, job-status cache | `list_printers`, `submit`, `job_status`, `list_jobs`, `cancel_job` | CUPS over IPP, each call with a timeout |
| Job registry and its API, `src/jobs.rs`, `src/api/jobs.rs` | records in order of submission, bounded, with TTL | `insert`, `list_filtered`, `prune`; list, get, cancel | CUPS client |
| File store and uploads, `src/store.rs`, `src/api/files.rs` | id -> record with reference count; the temporary directory | `try_insert`, `guard`, `release`, `remove`, `cleanup`, `cleanup_orphans`; upload, preview, delete | conversion, tickets, cleanup loop |
| Conversion, `src/conversion.rs` | a LibreOffice process and its files | `convert_to_pdf`, `ConversionGuard::drop` | temporary directory |
| Tickets, `src/tickets.rs` | ticket -> file name, bounded, TTL | `issue`, `redeem` | MCP tools, ticket upload |
| MCP, `src/mcp/` | device -> service with a lease count | `service_for`, `DeviceLease::drop`, tools | the same routes, in process |
| Print options, `src/cups/options.rs` | none | `parse_options`, `encode_job_attributes` | CUPS client, print submission |
| Lifecycle and configuration, `src/main.rs`, `src/state.rs`, `src/config.rs` | the cleanup loop, the task tracker, limits | read the environment, start, cleanup, graceful shutdown | all stores |
| Error mapping, `src/error.rs`, `src/mcp/backend.rs` | none | CUPS status -> `CupsError` -> `AppError` -> status and code -> what a client concludes | every endpoint |
| Front end, `frontend/src/` | session, print attempt, dialog, job list, polls | `resolveAttempt`, `submitWithRetry`, reducer, `usePolling` | the HTTP API |

What is hard here: a print outlives the request that asked for it; the answer of
CUPS may be lost, late, or followed by a reconciliation that fails itself; the
same key is retried while the first attempt is still at work; entries expire and
are evicted under attempts in flight; uploads are dropped at any `await`, where
only `Drop` implementations still run; a sweep by modification time and a
reference count protect the same files; caches are filled by calls that started
before they were cleared; a process is stopped in the middle of a print and comes back with
empty memory; two clients with different habits decide from an error whether to
print again. The full list, with lines, is "hazards" in
`PROJECT.json`.

What makes each part correct:

- store and submission: one task per key, one job per key, replies that name a
  job of the same key and payload, no key that stays in progress, no waiter that
  is never woken;
- file store and uploads: what is being read or worked on is never unlinked, a
  registered file is on disk, references are exact, leftovers go;
- tickets: one file per ticket;
- job registry: order and map agree, cancellation is not lost, lists are newest
  first and miss no active job; a status read from the cache is not older than its
  time to live and one call;
- MCP devices: a device with a request in flight is never evicted, leases exact;
- printer snapshot: one fetch at a time that strands nobody, answers no older than
  the cache allows, a refresh that sees what changed before it;
- print options: what is offered can be encoded, what is sent was reported;
- lifecycle: a drained process leaves no print with an unknown outcome, a budget
  above the submission window is enough, a life prints a key once; the next process
  starts from nothing it has to know, and a success that was told stays true;
- clients: at most one job at a time standing for what the user or agent wants, no
  success taken from an older print, no final error for a print that stands, nothing of an old session
  shown in a new one, tools that stay on their device.

## 2. Modules

- `IdempotencyStore`: the store, one operator per critical section of
  `src/idempotency.rs`. `entries` is the map, `signals` the watch channel of each
  attempt. Payloads stand for fingerprints, tokens for the UUID of an attempt,
  and a stored response is the token of the attempt whose job it names. An entry
  carries its age instead of an `Instant`.
- `PrintSubmission` extends it with the HTTP handler (`http`, `joined`, `reply`),
  the detached task (`task`: its phase, the number of IPP calls it has issued and
  the ticks the current one has taken), CUPS (`jobs`, `late`) and `entered`, the
  jobs that were put into the registry (what `JobRegistry` then keeps of them, and drops
  by capacity and age, is its own subject).
  `printed` is a ghost: the jobs accepted for a key since it was last forgotten.
  Each step runs from one `await` or lock to the next: `complete` and `abort` are
  two steps each (`CompleteKey`/`AbortKey` under the lock, `Notify` after it),
  `PendingKey::drop` is a third (`DropGuard`).
- `PrintOnce`: what the two promise together, with no locks, calls or times. `Client`:
  a request is asked, or hung up. `Service`: for one request of a key at a time a print
  is tried (`Try`), which makes a job or is refused (`MakeJob`, `Refuse`); the job
  stands for its key (`current`), is kept for replay (`Keep`) and ends with the key's
  retention (`Retire`), after which the key may print again; a client is told of a job
  made for the same demand (`Tell`), or that its try was refused (`Deny`), or nothing
  (`Ends`). `PrintSubmission` implements it (`ImplementsPrintOnce`) through the mapping
  at its end: a try is a task on its way to a job or to giving up, the retention ends
  where `prune` or the capacity removes a completed entry.
- `RecentReads`: what whoever reads the printers is promised, without cache, locks or
  calls: one list as CUPS gave it at one moment, with options read then or later; not
  longer ago than a bound; not from before a refresh that cut off what came before;
  and never older than what anybody has been given already.
- `TempFiles`: the temporary directory, the file store, three kinds of upload,
  previews and print submissions as readers, deletions, tickets, and the cleanup
  loop with its two sweeps. The upload names the file, since ids are fresh UUIDs.
  `disk` and `mtime` are the directory, `files`, `age` and `refs` the records.
- `JobRegistry`: `order` and `map` of `src/jobs.rs`, the status cache of the CUPS
  client, and the three requests of `src/api/jobs.rs`. `call` holds what a read or
  a cancellation carries across its IPP call: the record `resolve` cloned and what
  CUPS said. `listing` holds the records a list read first and the jobs each
  printer then reported. CUPS moves on its own (`cups`; `steady` is the time since
  a job's state changed). `history` and `canceled` are ghosts: the order of
  registration, and the cancellations that were recorded.
- `McpDevices`: the device services of the MCP endpoint. `services` is the map,
  `lease` the requests in flight, `cancelled` the services whose token was
  triggered; a service is named by the request it was built for. `service_for` is
  three actions, one per way it ends (`Reuse`, `Build`, `Refuse`), each with the
  expiry it begins with; `DropLease` is `DeviceLease::drop`.
- `Shutdown` extends `PrintSubmission` with the life of the process. `phase` is
  where `run` of `src/main.rs` is: serving, stopping (axum lets the requests in
  flight end), draining (`print_tasks.wait()` under the shutdown timeout), or how it
  ended. `End` takes every handler and task with it; a Print-Job that was on the
  wire may still become a job (`late`). `Restart` empties what is memory (store,
  `entered`) and keeps what is CUPS's. Steps of `PrintSubmission` are taken as they
  are, guarded by `Running`. `Path` looks at the life that goes on alone: with all but
  its own requests (`Ours`) taken for requests that have not come yet, it has to be
  `PrintSubmission` from its start (`EachLifeAnew`).
- `Configuration`: `from_env` and `validate_consistency` as operators over an
  environment. `MCShutdown` takes its shutdown budgets from it, and an assumption
  there says that the other times of the instance are those of the same
  configurations.
- `PrintOptions`: `src/cups/options.rs` as operators. An IPP value is its tag and
  content; text is a word, a number in its canonical or another spelling, or a
  resolution label, which is what the code's comparisons and parses tell apart.
- `PrinterCatalogue` extends it with the printer snapshot: `cache` and `lock` are the
  `RwLock` and the `refresh` mutex, `fetch` the calls in flight (the list, then
  the options of the listed printers, at most `Concurrency` ahead), `at` where
  each reader is. `world` is the state of the printers outside, as a version number,
  and a snapshot holds the versions it was read from: that is what staleness
  is measured by. Lists, refreshes and the lookup of a print share it. It implements
  `RecentReads` (`ImplementsRecentReads`): a refresh that finds no fetch in flight is a
  mark, and the bound is the longest fetch plus the time to live of the cache.
- `ApiErrors`: the four translations of an error as functions, from CUPS to the page's
  `isRetryable` and to the hints of the MCP tools.
- `PrintClients` composes `PrintOnce` with its two clients. The service is
  `PrintOnce`'s `Service` as it stands: each of its steps may happen in any state, the
  retirement of a key and a second print under it included. What is added is which
  errors a client may read of a refusal and which of anything else (`Reads`): a refusal
  is read only when one was sent, every other error, and a lost answer, may come at any
  time. The page (`attempt`, `dialog`, `submitting`, `work`, `shown`, `list`, session
  `epoch`) and the tools follow their code. `intent`, `goal` and `crowded` are ghosts:
  which calls serve one and the same wish, and which of those overlapped.
- `MCPrintSubmission`, `MCTempFiles`, `MCJobRegistry`, `MCMcpDevices`, `MCPrinters`,
  `MCShutdown`, `MCPrintClients`: instances for TLC.
- `PrintSubmissionProofs` and, on top of it, `PrintSubmissionRefinement`;
  `ShutdownProofs` (with `Configuration`), `TempFilesProofs`, `JobRegistryProofs`,
  `McpDevicesProofs`, `PrinterCatalogueProofs` (with `PrintOptions`),
  `PrintClientsProofs`: the theorems.

How they compose: `PrintSubmission` (over `IdempotencyStore`) implements
`PrintOnce`: each of its steps is one of `PrintOnce`'s service, or a client's arrival
or departure (`ServesAsPrintOnce`). `PrintClients` keeps no step of that service from
happening (`WholeService`) and does nothing to it but ask and hang up
(`ClientsOfPrintOnce`), so what is
shown of the clients holds over any service that keeps the promise. `Shutdown` is the same
`PrintSubmission` in a process that ends, and `EachLifeAnew` says that every life of it
is one, so what is proved of `PrintSubmission` holds of each life. `PrinterCatalogue` details the printer lookup
that `PrintSubmission` counts as `FindCalls` IPP calls.

Operators called mutants in the modules are not part of a specification: each is
a plausible bug of one definition, and each property of a passing run is violated
when the definition is replaced by the mutant that `PROJECT.json` pairs it with.

## 3. Time, bounds and fairness

Time is discrete. In `PrintSubmission` a tick passes only while every task is
inside an IPP call that has not reached its timeout: code between two calls takes
no time. Ages saturate at the retention, since the code only asks whether the
retention has been reached and which completed entry is the oldest. In
`TempFiles` a tick passes only while no request and no conversion has used up its
time; a sweep takes less than a tick and sweeps are at least a tick apart. In
`PrinterCatalogue` a tick passes only while no IPP call is at its timeout and every
reader is waiting for something. In `Shutdown` the ticks are those of
`PrintSubmission`; they also count the time since the signal and the time spent
draining, which is never more than the budget. `PrintClients` has no clock: every
timeout may fire at any moment. In `JobRegistry` a tick passes only while no call of a read or a cancellation is at
its timeout; an expired status leaves the cache with the tick that expires it,
which no reader can tell from the code's removal at the next access.

| Run | Instance | What it shows |
|---|---|---|
| `submission_safety` | three requests, two keys or none, two payloads, capacity one, CUPS answering the reconciliation | at most one job per key; replies are true; nothing prints after success; the path implements `PrintOnce` |
| `submission_faults` | three retries of one key and keyless prints, every fault | single flight; one success per key; entries in progress are owned; no lost wake-up; only the owner settles |
| `submission_unreconciled` (violation) | Get-Jobs may fail | a key prints twice |
| `shutdown` | two requests for one key, two lives, panics, crashes, budgets of two configurations (below and above the submission window), a stop grace of four ticks | within a life a key prints once; a drain leaves nothing unknown; a budget above the window is never exhausted; every life is `PrintSubmission` anew, and a success told in one stays true: its job was accepted, in that life, for the same demand; every request is answered and every attempt settles, while the process lives |
| `temp_files` | a document, two uploads racing for a ticket, a budget of one file, a reader, a deletion, fair | nothing in use is unlinked, references exact, one file per ticket, leftovers leave the directory |
| `jobs_registry` | three jobs, a registry of two, prune, a cancellation | order and map agree; newest first, but for cancellations that come back; recorded cancellations stay |
| `jobs_reads` | two jobs on two printers, a read over a cache of one entry, a list cut to one | reads catch up with CUPS; active jobs are not crowded out |
| `mcp_devices` | five requests, three devices, room for two, symmetry over both | a service in use is never cancelled; a refusal means that all are busy |
| `printers` | two readers (list, refresh, prints with options), a printer that gains a duplex unit and one that is removed, failing calls, readers that leave, fair | what is offered prints; what is submitted was reported; the snapshot implements `RecentReads`: answers are recent, and a refresh with no fetch in flight sees every change; every reader ends |
| `printers_refresh` (violation) | three readers, lists and refreshes | a refresh during another reader's fetch shows the state from before the change |
| `print_page` | four calls, two sessions of the page, one retry; keys that retire at any time | at most one job of an intent stands; a success is new; while a final error is shown no job of its intent stands; nothing shown from another session |
| `print_clients` | three calls, a session of the page, one retry, an agent with two calls on a device whose name begins another's, fair | an agent is blamed only for what did not print; the tools stay on their device; the dialog does not stay busy |

Three requests are enough for the cases of the store: an attempt, a retry that
joins or replays, and a third that takes over, competes for capacity or conflicts.
Two keys with capacity one force evictions; ages up to the retention force
expiry at every point of an attempt. In `TempFiles` a retention of two ticks and
a request of at most one separate "old" from "in use" at each step of a sweep. An upload
of a PDF by form is in no run: it ends like an upload by ticket, and begins like a
document's.

In `shutdown` two requests suffice because a second life needs only a retry of what
the first one left; `Ttl` is above the submission window, as the configuration
demands. In `printers` two readers are a fetcher and one who waits or takes over,
and one change of each printer separates old from new; the attributes in `MCPrinters`
hold one of every kind with the irregularities real printers show (a range
within an array, a default that is not supported, an enum without a name). In
`print_page` four calls are a first try and its retry, twice; in `print_clients` three
are those of the page and one of the agent's, or the agent's two, overlapping or one
after the other. A submission begins only when calls are left for its retries, so no
behaviour is cut in the middle of one. Both runs contain an intent that prints again
after its first job was retired, and a final error, or a blame, after such a job.

In `JobRegistry` three jobs and a capacity of two let a record be evicted, or
pruned, between the two halves of its own cancellation and come back at the cost
of another; two jobs, one completed and newer, are what a list cut to one must not
confuse. A read whose older answer arrives after a cancellation has cleared the cache
(`src/cups/mod.rs:386`) is in no run, since reads and cancellations together exceed its
time; `StatusCatchesUpCorrect` covers it.

Fairness. Handlers and tasks are polled by tokio as long as they are ready, and
an IPP call returns, if only with a timeout, so `Handler(r)` and `TaskStep(r)` are
weakly fair. CUPS, clients, timeouts of a wait and panics owe nothing. In
`TempFiles` the cleanup loop, the clock and the steps that a timeout forces are
weakly fair; clients, readers, deletions and conversions owe nothing.
`LifeFairSpec` keeps the fairness of handlers and tasks while the process runs and
adds that `main` goes on when what it waits for has happened; no signal, kill, crash
or restart has to come. `FairSpec` of `PrinterCatalogue` makes the fetch and each
reader's own steps weakly fair; printers need not change and clients need not
ask. `ClientsFairSpec` makes the page's steps weakly fair: the browser bounds each
call by a timeout and each wait by a timer.

The safety runs of the submission path use symmetry over requests; no run that checks
liveness uses it. `submission_safety` has it together with the refinement, which is
sound there: `PrintOnce` has no fairness, so it is a condition on single steps, the
same for every renaming of the requests, and TLC tests each step out of each state it
keeps. `jobs_registry` uses symmetry over jobs, which
are all on one printer there. `mcp_devices` ends when its five requests are done, so it
does not look for deadlock, nor do `shutdown`, `print_page` and `print_clients`, whose processes may
stop; five requests let two devices be held, one of them
twice, while a third arrives and a fourth comes back after an eviction. No run uses a state constraint.

## 4. Findings

- `reconcile` treats a failed Get-Jobs like a job that is not there
  (`src/api/print.rs:264`), so the key is released with the outcome unknown and
  the retry prints again (`submission_unreconciled`).
- A refresh of the printers that arrives during another reader's fetch is answered
  from that fetch (`src/cups/mod.rs:285`), although the documentation says that it
  asks CUPS anew (`printers_refresh`). `RefreshSeesChange` is what does hold: a
  refresh that finds no fetch in flight sees every change made before it.

Seen while modelling, and not among the runs; each can be had from a module by the
constants named:

- `validate_consistency` counts three IPP calls for a submission
  (`src/config.rs:178`), but `find_printer` alone is a sequence of calls when the
  printer cache is cold; with the shortest retention accepted, an attempt can
  outlive its entry. `PrintSubmission` with `IppTimeout = 2`, `FindCalls = 2`,
  `Ttl = 7`, no faults, two requests and one key violates `AtMostOneJob`.
- `cleanup_orphans` spares what was written within the retention
  (`src/store.rs:203`), but an upload may wait up to the request timeout without
  touching its source, and nothing relates that timeout to the retention.
  `TempFiles` with `RequestTimeout = 5`, `TempTtl = 2` and one document violates
  `WorkNotSwept`.
- `delete` asks whether the file is there and removes it in two critical sections
  (`src/api/files.rs:242-245`), so the second of two deletions is answered 409 for a
  file that is already gone and that nobody uses.
- `run` waits for the HTTP requests in flight without a bound before the budget of
  the print tasks begins (`src/main.rs:78`), so the stop grace of 45 s that
  `docs/deployment.md` recommends for a budget of 30 s does not exclude a kill
  during a print.
- `cancel` writes back the record it read before its IPP call
  (`src/api/jobs.rs:158`), so a record that was pruned or evicted meanwhile comes
  back as the newest. `NewestFirst` names that exception.

- The promise to print an attempt once ends with the key. An entry is dropped when its
  retention (10 minutes by default) is over, when a newer response needs its place, or
  when the process ends (`src/idempotency.rs:250-273`), which is what
  `src/idempotency.rs:3` and the description of `print_document`
  (`src/mcp/tools.rs:272`) say. A page whose attempt ended without a known outcome and
  is retried after that, or an agent that repeats a call, prints a second job. When the
  uploaded file has gone too, such a retry ends in 404: the page calls it final and the
  agent is told that its parameters are wrong, although the attempt was printed
  earlier. `OneJobPerIntent`, `FinalErrorMeansNoJob` and `BlameIsDeserved` therefore
  speak of jobs that stand, that is, whose retention is not over; without `Stands` each
  of them is violated in its run.
- An agent that calls `print_document` twice at once may see the second call refused
  (say, the printer was paused for a moment) while the first waits for it to settle,
  takes the key over and prints. `BlameIsDeserved` excepts such calls (`crowded`).

With the default configuration the two observations about windows do not occur:
the defaults leave the retention far above the submission window and the request
timeout.

## 5. Proofs

Every safety invariant and every action property of the passing runs is a theorem
for every value of the constants, and so are the refinements of `PrintOnce` and of
`RecentReads` and that each life of the process is a `PrintSubmission` of its own
(`EachLifeAnew`). The hypotheses beyond the types of the constants, all of them satisfiable and each at
the theorem that needs it:

| Hypothesis | Says | Needed by |
|---|---|---|
| `RetentionCoversWindow` | `(FindCalls + 2) * IppTimeout < Ttl`: a key is kept longer than a submission can take (see the first observation of section 4) | single flight, at most one job, replies, refinement, one job per life, `RepliesStand` |
| `Faults = {}` | no failed Get-Jobs, unusable response or late acceptance, and no panic (see `submission_unreconciled`) | `AtMostOneJob`, `ImplementsPrintOnce` |
| `"late_accept" \notin Faults` | CUPS takes no Print-Job its client has given up | `NoPrintAfterSuccess` |
| `Reconciles` | of the faults, at most panics | `OneJobPerLife`, `DrainLeavesNothingUnknown` |
| `KeyedDemands` | every print has a key | `DrainLeavesNothingUnknown`: a keyless print is not reconciled |
| `UploadsFitRetention` | `RequestTimeout < TempTtl` (see the second observation of section 4) | what keeps files on disk, not the accounts |
| `IsFiniteSet(Readers)`, `IsFiniteSet(Jobs)` | finitely many of them | two type invariants, whose bounds are cardinalities |
| `WellReported(words)`, `WellAsked` | IPP values of the sorts `options.rs` tells apart, ranges that are ranges, texts for the options asked | `SubmitsWhatWasReported`; `MCPrinters` assumes the same of its instance, and TLC evaluates it |
| `NamesAssumption`, `NoneAssumption` | two printers have two names; `None` is no payload, attempt or request, `Nothing` no demand | `PrintClients` |
| `Demand \subseteq Demands` | what the clients ask for can be asked | `ClientsOfPrintOnce` |

The module `PrintClients` itself makes three assumptions about what is between the
clients and the service, stated at its head: a call that a client gave up has reached
the server by then or never does; the handler of such a call ends with its connection,
so that nothing is begun for it afterwards (what was begun goes on); and the clients
live with one process of the service, so that a retirement of keys is by age or
capacity (a restart is in `Shutdown`, whose lives each keep the promise on their own,
`EachLifeAnew`, and forget every key between them).

### The submission path

`PrintSubmissionProofs`. `TypeCorrect` and `ShapeCorrect` (types, and where a
request's handler and task can be with respect to each other) need no hypothesis.
For `SingleFlightCorrect`, ownership alone is not inductive: an entry could expire
under its task. `IndInv` therefore bounds the entry's age by the time its task can have
spent: `EntryYoung` says the age is at most the number of finished calls times the
timeout, plus the ticks of the current call. A tick adds one to both sides; a call
that ends at its timeout moves a whole window from the second summand to the
first; and since a task makes at most `MaxCalls` calls, the age stays below the
retention and `Expired` is false of every entry in flight. `LiveOwns` follows for
every step: prune and eviction spare entries that are neither expired nor
completed, `abort` takes an entry only with the right token, and `complete` is
called by the owner. For `AtMostOneJobCorrect`, `PrintedVouched` says that a job of a
key stands alone and that its key is either completed with that job or still owned by
the task that made it, past its Print-Job; a fresh attempt finds the key absent,
so it finds no job.

`PrintSubmissionRefinement` continues in four layers, each over the one before.

1. `Wakeful`: who waits, waits for an attempt that began; an entry in progress has a
   task or that task's guard; a silent channel has an entry or a sender. It is
   inductive without any hypothesis, since it does not say who owns the key now:
   `InProgressOwnedCorrect` and `NoLostWakeupCorrect` hold in every configuration and
   under every fault.
2. `Sound` adds the retention, and what each phase of a task knows of its own job
   (`JobTrue`). `complete` stores a response under a key whoever holds it, so that
   it stores its own is what `Held` of the layer below is for:
   `OnlyOwnerSettlesCorrect`.
3. `Truth` follows an answer on its way, from the task through the entry or the
   channel to the handler and the reply (`EntryTrue`, `SignalTrue`, `HandlerTrue`);
   `Successes` says which attempts of a key may still be taken for a success. They
   give `ReplyFidelityCorrect` and `OneSuccessPerKeyCorrect`, under every fault.
4. `Standing`: a task that has printed stands for its key. With `PrintedVouched` it
   makes each step a step of `PrintOnce` or a stutter, which is shown action by action:
   a decision for a fresh attempt is `Try`, a Print-Job that is accepted `MakeJob`, an
   attempt that gives up `Refuse`, `CompleteKey` is `Keep`, a reply is `Tell`, `Deny` or
   nothing told, and whatever expires or evicts is `Retire`; a decision or an answer may
   come in the very step that prunes. `Outcomes` says what a task that gave up, and an
   error that speaks of it, know: no job was made. `ServesAsPrintOnce` sorts the
   steps: only arrivals and departures are the clients'.
   `NoPrintAfterSuccessCorrect` is proved beside it, with fewer hypotheses.

### The life of the process

`ShutdownProofs` extends those proofs: `LifeNext` is mostly steps of
`PrintSubmission`, so its invariants are needed only for `End` and `Restart`
(`LifeShape`). `BudgetSufficesCorrect` has no hypothesis: `Budgeted` says that the time
spent draining is at most the calls a task has finished times the timeout plus its
current call, so no task outlasts `Window(MaxCalls)`. `DrainLeavesNothingUnknownCorrect`
rests on `Tracked`: a job of this life is registered or its task is about to learn
of it, and only the ends that give up on tasks leave CUPS with a document. For
`OneJobPerLifeCorrect`, `OneEach` counts the jobs of a key per life and lets the store
vouch only for those of the life that goes on.

`EachLifeAnewCorrect` has no hypothesis. A request that has not come has left no trace
(`Untouched`), and since `End` takes every handler and task, what moves in a life is
a request of that life, or a document the last process left on the wire, which is
not the view's (`TheirLateAccept`). Each action taken by a request of this life is the
same action of the view (`MyStep`), `Arrive` makes the request one of this life's, and
`Restart` leaves a life without requests, whose view is `PrintSubmission`'s initial
state (`Newborn`, `FreshLife`).

`RepliesStandCorrect` uses that result: through the view, the invariants of
`PrintSubmissionRefinement` (`Sound`, `Truth`) hold of every life without being proved
again (`PathSound`). They say of this life's successes that they name an accepted
job of the same demand; `Stands` keeps that of each reply after its life is over,
because no step takes a job back from CUPS or changes what an earlier life was
told (`StepsKeep`).

`AcceptedIsConsistent`: whatever the
environment, an accepted configuration has positive numbers that fit 64 bits and
satisfies the relations of `validate_consistency`.

### Files, tickets and uploads

`TempFilesProofs` has two layers. `Accounts` (who holds a file, which ticket was used
by whom) is inductive without any hypothesis and gives `ReferencesExactCorrect` and
`TicketCreatesOneFileCorrect`. `Stays` adds the directory: what an upload has on disk is
no older than the upload (`Fresh`), so the sweep for orphans, which goes by age
alone, cannot take it; a sweep in progress spares each registered file, because it is
in the list the sweep started with or younger than the retention (`SweepSpares`); and what
a deletion is about to unlink was taken out of the map before (`UnlinksRemoved`). Hence
`WorkNotSweptCorrect`, `RegisteredOnDiskCorrect` and `HeldFileStaysCorrect`.

### Jobs

`JobRegistryProofs` begins with the operator that prune, eviction and the lists share,
`Filtered`. It is a recursive function over the length of the sequence, and induction
theorems cannot be used here (they take an operator as parameter), so what it returns is
shown by the least length at which it would return something else: well-foundedness of
`<` on the naturals is a fact without such a parameter. `Registry` then keeps order,
map and history in step (`OrderMatchesMapCorrect`, `NewestFirstCorrect`,
`CancelRememberedCorrect`). `Recent` gives a cached status and an answer under way an
age (`StatusCatchesUpCorrect`), and `Lists` what a list has gathered so far
(`ActiveNotCrowdedOutCorrect`: an active job in what the list read is in its view unless
the view is full).

### MCP devices

`McpDevicesProofs` proves every property `mcp_devices` checks, for any devices,
requests, capacity and idle time. The code decides from a counter whether a device is
idle; `LeasesExact` makes "counter zero" mean "no lease" (`IdleMeansFree`), so what
expires or is evicted is held by nobody, and `OwnServices` is needed because
cancelling one device's service must not cancel another's. The two ways in,
`Reuse` and `Build`, share the lemma `Entering`.

### Printers and options

`PrinterCatalogueProofs` starts with the pure part. `EncodedIsSupported`: for any
attributes a printer may report and any text a client may send, what the encoding
produces from the catalogue is a value the printer reported, or a number within a range
it reported; `ChoicesSupported` carries the one case that is not by inspection: of a
range inside an array the catalogue keeps the two ends, and both lie in the range.
`OffersArePrintableCorrect` is the other direction and needs nothing of the attributes.
Of the snapshot: `Renewed` says that what was read for anybody since a quiet refresh is no
older than the refresh (`RefreshSeesChangeCorrect`). `AnswersAreRecentCorrect` bounds
the age of an answer through the fetch that filled the snapshot: the options of a printer are
read in the round `Turn`, its position divided by the concurrency, and each round is at
most one timeout, so a fetch lasts at most `Longest` (`FetchAged`), and the cache adds its
time to live (`CacheAged`). `SubmitsWhatWasReportedCorrect` joins both parts: options are
only read of printers that exist (`Readable`).

`ImplementsRecentReadsCorrect` puts the same facts together into one promise. `Viewed`
says what the snapshot and the fetch in flight may be: one list, as recent as its age
says, from after the last mark, and with nothing in it older than what anybody was
given. The last part is inductive only because of the order the code imposes: a
fetch runs while the snapshot is not fresh, so nobody is answered from the cache
meanwhile, and whatever was given before it began is of the past when the new list is
asked for. That no two fetches overlap is what rules out a reader that goes back in
time. `AnswersAreRecent` and `RefreshSeesChange`, which follow from it, are therefore theorems
only and in no run; so is `LeasesExact`, whose loss would show as a service cancelled in use
or a refusal while a device is idle.

### The clients

`PrintClientsProofs`, over every step `PrintOnce`'s service may take, in any state. The
heart of the invariant is `Matched`: two calls have one key if and only if they serve one
intent. `GoalHeld` makes the page's attempt open exactly as long as its intent, with its
key, and `Named` keeps the keys of the page, which are made for a call, apart from those
of the tools, which are made of the content. Then what holds of a key holds of an intent.
`Served` is what the service keeps of a key: one try or one standing job, and answers
that name a job of the same demand. So one standing job per key is one per intent
(`OneJobPerIntentCorrect`), and what the service plays back is a job of this intent
(`SuccessIsNewCorrect`).

What a refusal says of other calls of its intent needs more, because a key may retire
and start again between any two steps. `Quiet`: of calls that do not overlap, the open one
is the last. `Alone`: a call that is tried while it overlaps none was tried after every
earlier call of its intent was over, with no try of theirs at work and no job of theirs
standing; since nothing is begun for a call that is over, that stays so. With `OpenOutcomes`
(every error after which the outcome is open is one the page sends again after and no
agent is blamed for, through all four translations of `ApiErrors`), an error that ends the
matter is a refusal of such a try: `FinalErrorMeansNoJobCorrect`, where `Shows` keeps the
conclusion as long as the error is displayed, and `BlameIsDeservedCorrect`. `Working` ties
the submission under way to the session it began in (`ShowsThisSessionCorrect`).
`StaysOnDeviceCorrect` is a fact about names: if a device's prefix fits the id of a job
on a printer with a longer name, that name's own dash stands where a digit has to be
(`LocalJob`).

`ClientsOfPrintOnce` closes the composition, in two parts: seen through `PrintOnce`'s
variables, the composition is `PrintOnce`; and each of its steps is one of the service that
leaves the clients alone, one of `PrintOnce`'s clients, or a stutter. That every step of
the service is a step of the composition, whatever the clients are at, is how `ClientsNext`
is built (`WholeService`), and what makes the other theorems hold over each service that
keeps the promise; `ServesAsPrintOnce` says that the submission path is one.

### Only model-checked

Liveness under fairness is out of the prover's reach: `EveryRequestEnds` and
`EveryAttemptSettles` (`shutdown`), `LeftoversLeave` (`temp_files`), `EveryReaderEnds`
(`printers`) and `SubmitEnds` (`print_clients`). That `CallsOwed` keeps enough calls for
every retry, so that no behaviour of `print_page` and `print_clients` is cut, is a matter of that
instance's bounds. The two violations are counterexamples of TLC.

Type invariants are theorems, most of them part of an inductive invariant, and not among
the runs' properties.

## 6. Not modelled

- Text: Markdown rendering, extension tables, IPP encoding, JSON bodies,
  filenames, log lines, metrics.
- Authentication and routing: they keep no state. The token comparison appears only
  as the 401 that ends a session in `PrintClients`.
- Health, readiness and formats: constants or a single call that keeps nothing. The
  gauge of requests in flight, which a disconnect may leave too high
  (`src/api/middleware.rs:65`), is observation only.
- The front end's job views, uploads and polling: their state is display, and what the
  service answers to a poll is in `JobRegistry`. Reloading the page is a new session
  in `PrintClients` only in that attempts are forgotten.
- A panic inside a print task is modelled in `PrintSubmission` and `Shutdown`, not in
  `PrintClients`: its 500 is a final error to both clients although the job may exist.
- Two processes on one temporary directory: `TempDir::prepare` empties it before the
  listener is bound. `TempFiles` has one process.
- Collisions of the 64-bit hash from which the tools derive their keys.
- Container scripts and CI.

## 7. Plan

Done: the store, the submission path and what they promise; files, uploads and
tickets; the job registry and its requests; MCP devices; the printer snapshot, what it
promises and the print options; shutdown, restarts and configuration; errors; the
clients. Proved: all the safety and action properties of the passing runs, the
refinements of `PrintOnce` and `RecentReads`, that each life of the process is
`PrintSubmission` anew, that the submission path serves as `PrintOnce`'s service does, and that the clients
compose with any such service.

Left: weaker hypotheses where the proofs suggest it. `AtMostOneJobCorrect` asks for
`Faults = {}`. Panics cannot simply be admitted: one between an accepted Print-Job and
the completion of its key releases the key with a job made, and the retry prints again.
`OneJobPerLife` admits them by leaving the jobs of attempts that panicked out of
its count, and the same could be said of `AtMostOneJob`. `DrainLeavesNothingUnknownCorrect`
asks for a key on every print although it could speak for the keyed prints among keyless
ones. A composition of the clients with a service that restarts would need a `PrintOnce`
whose tries end with the process.
