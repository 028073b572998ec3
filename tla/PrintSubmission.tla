--------------------------- MODULE PrintSubmission ---------------------------
(***************************************************************************)
(* POST /api/print: the HTTP handler (submit), the detached task that does *)
(* the printing (run_submission, submit_inner, reconcile) and the CUPS     *)
(* server behind it, composed with the store of IdempotencyStore.          *)
(*                                                                         *)
(* A request that gets Fresh names its attempt: the token of request r is  *)
(* r itself, and so is the CUPS job its Print-Job creates, because a task  *)
(* sends at most one Print-Job and marks the job's name with the token.    *)
(*                                                                         *)
(* Time: a tick passes only while every task is inside an IPP call that    *)
(* has not reached its timeout; the steps between two calls take no time.  *)
(***************************************************************************)
EXTENDS IdempotencyStore

CONSTANTS Requests,    \* the HTTP requests of a behaviour
          NoKey,       \* the request carries no Idempotency-Key
          Demands,     \* what a request may ask for: its key and its payload
          IppTimeout,  \* JUST_PRINT_IPP_TIMEOUT_SECS, in ticks
          FindCalls,   \* IPP calls find_printer may wait for, one after another
          Faults       \* the faults of the environment that may happen

FaultKinds ==
    {"get_jobs_fails",  \* Get-Jobs of the reconciliation fails
     "garbled",         \* Print-Job succeeded, its response is unusable
     "late_accept",     \* CUPS creates the job after the client gave up
     "panic"}           \* the task panics between two IPP calls

ASSUME SubmissionAssumption ==
    /\ Tokens = Requests
    /\ NoKey \notin Keys
    /\ Demands \subseteq [key : Keys \cup {NoKey}, payload : Payloads]
    /\ IppTimeout \in Nat \ {0}
    /\ FindCalls \in Nat \ {0}
    /\ Faults \subseteq FaultKinds

VARIABLES req,      \* what the request asks for
          http,     \* where its handler is
          joined,   \* the attempt whose signal the handler waits on
          reply,    \* the response it sent
          task,     \* its detached task
          jobs,     \* Print-Jobs CUPS accepted
          late,     \* Print-Jobs CUPS still reads after the client gave up
          entered,  \* jobs entered in the JobRegistry so far, forgotten since or not
          printed   \* ghost: jobs accepted for a key since it was last forgotten

vars == <<entries, signals, req, http, joined, reply, task, jobs, late,
          entered, printed>>
handlerVars == <<req, http, joined, reply>>
cupsVars    == <<jobs, late, entered, printed>>

-----------------------------------------------------------------------------
(* A task's phases, in order.  A task without a key goes from its last IPP *)
(* call straight to "done".                                                *)
InCall   == {"find", "send", "sent", "reconcile"}
Settling == {"complete", "abort"}           \* about to take the store's lock
Closing  == {"notify", "drop"}              \* signal.send, then PendingKey::drop
Phases   == {"none", "done"} \cup InCall \cup Settling \cup Closing

\* A task that has just entered a phase, its calls-th IPP call if it is one.
At(phase, calls, job) == [phase |-> phase, calls |-> calls, elapsed |-> 0,
                          job |-> job, handle |-> None]
NoTask == At("none", 0, None)
NewTask == At("find", 1, None)

MaxCalls == FindCalls + 2   \* find_printer, then Print-Job, then Get-Jobs

Waiting == {"begin", "waiting", "awaiting"}  \* the client's connection is open

NoReply == [kind |-> "none", job |-> None]
Reply(kind) == [kind |-> kind, job |-> None]
ReplyKinds == {"none", "accepted", "replayed", "conflict", "in_progress",
               "error", "gone"}

HandlerTypeOK ==
    /\ req \in [Requests -> [key : Keys \cup {NoKey},
                             payload : Payloads \cup {None}]]
    /\ http \in [Requests -> {"idle", "closed"} \cup Waiting]
    /\ joined \in [Requests -> Requests \cup {None}]
    /\ reply \in [Requests -> [kind : ReplyKinds, job : Requests \cup {None}]]

Task == [phase : Phases, calls : 0..MaxCalls, elapsed : 0..IppTimeout,
         job : Requests \cup {None}, handle : Requests \cup {None}]

CupsTypeOK ==
    /\ jobs \subseteq Requests
    /\ late \subseteq Requests
    /\ entered \subseteq Requests
    /\ printed \in [Keys -> SUBSET Requests]

TypeOK ==
    /\ StoreTypeOK
    /\ HandlerTypeOK
    /\ task \in [Requests -> Task]
    /\ CupsTypeOK

Init ==
    /\ StoreInit
    /\ req = [r \in Requests |-> [key |-> NoKey, payload |-> None]]
    /\ http = [r \in Requests |-> "idle"]
    /\ joined = [r \in Requests |-> None]
    /\ reply = [r \in Requests |-> NoReply]
    /\ task = [r \in Requests |-> NoTask]
    /\ jobs = {}
    /\ late = {}
    /\ entered = {}
    /\ printed = [k \in Keys |-> {}]

Key(r) == req[r].key
Keyed(r) == Key(r) \in Keys
Payload(r) == req[r].payload

-----------------------------------------------------------------------------
(* The handler: submit and begin_or_wait.                                  *)

Answer(r, a) == /\ http' = [http EXCEPT ![r] = "closed"]
                /\ joined' = [joined EXCEPT ![r] = None]
                /\ reply' = [reply EXCEPT ![r] = a]

(* A key is forgotten when its completed entry is pruned or evicted: a new *)
(* Fresh for it is then a new print, as the retention period promises.     *)
Forget ==
    printed' = [k \in Keys |->
        IF /\ entries[k].state = "completed"
           /\ Expired(k) \/ entries'[k].state = "absent"
        THEN {} ELSE printed[k]]

Arrive(r, d) ==
    /\ http[r] = "idle"
    /\ req' = [req EXCEPT ![r] = d]
    /\ IF d.key = NoKey
       THEN /\ http' = [http EXCEPT ![r] = "awaiting"]
            /\ task' = [task EXCEPT ![r] = NewTask]
       ELSE /\ http' = [http EXCEPT ![r] = "begin"]
            /\ UNCHANGED task
    /\ UNCHANGED <<storeVars, joined, reply, cupsVars>>

(* Fresh: there is no await between the decision and the spawn.            *)
DecideFresh(r) ==
    /\ http[r] = "begin"
    /\ BeginFresh(Key(r), Payload(r), r)
    /\ Forget
    /\ http' = [http EXCEPT ![r] = "awaiting"]
    /\ task' = [task EXCEPT ![r] = NewTask]
    /\ UNCHANGED <<req, joined, reply, jobs, late, entered>>

DecideJoin(r) ==
    /\ http[r] = "begin"
    /\ BeginJoin(Key(r), Payload(r))
    /\ Forget
    /\ http' = [http EXCEPT ![r] = "waiting"]
    /\ joined' = [joined EXCEPT ![r] = entries[Key(r)].token]
    /\ UNCHANGED <<req, reply, task, jobs, late, entered>>

DecideReplay(r) ==
    /\ http[r] = "begin"
    /\ BeginReplay(Key(r), Payload(r))
    /\ Forget
    /\ Answer(r, [kind |-> "replayed", job |-> entries[Key(r)].token])
    /\ UNCHANGED <<req, task, jobs, late, entered>>

DecideConflict(r) ==
    /\ http[r] = "begin"
    /\ BeginConflict(Key(r), Payload(r))
    /\ Forget
    /\ Answer(r, Reply("conflict"))
    /\ UNCHANGED <<req, task, jobs, late, entered>>

(* receiver.wait_for: the attempt completed, was aborted (decide again),   *)
(* or lost its sender.                                                     *)
Wake(r) ==
    /\ http[r] = "waiting"
    /\ LET s == signals[joined[r]] IN
          \/ /\ s.state = "completed"
             /\ Answer(r, [kind |-> "replayed", job |-> s.job])
          \/ /\ s.state = "aborted"
             /\ http' = [http EXCEPT ![r] = "begin"]
             /\ joined' = [joined EXCEPT ![r] = None]
             /\ UNCHANGED reply
          \/ /\ s.state = "dropped"
             /\ Answer(r, Reply("in_progress"))
    /\ UNCHANGED <<storeVars, req, task, cupsVars>>

(* The wait ran out (JUST_PRINT_IDEMPOTENCY_WAIT_SECS): 409, Retry-After.  *)
WaitTimeout(r) ==
    /\ http[r] = "waiting"
    /\ Answer(r, Reply("in_progress"))
    /\ UNCHANGED <<storeVars, req, task, cupsVars>>

(* task.await: the spawned task ended.                                     *)
TaskEnded(r) ==
    /\ http[r] = "awaiting"
    /\ task[r].phase = "done"
    /\ Answer(r, IF task[r].job = None THEN Reply("error")
                 ELSE [kind |-> "accepted", job |-> task[r].job])
    /\ UNCHANGED <<storeVars, req, task, cupsVars>>

(* The client disconnects, or the request timeout of the middleware fires: *)
(* either drops the handler's future, never the spawned task.              *)
Leave(r) ==
    /\ http[r] \in Waiting
    /\ Answer(r, Reply("gone"))
    /\ UNCHANGED <<storeVars, req, task, cupsVars>>

-----------------------------------------------------------------------------
(* The task: run_submission.                                               *)

Goto(r, phase, job) == task' = [task EXCEPT ![r] = At(phase, 0, job)]

Call(r, phase) == task' = [task EXCEPT ![r] = At(phase, @.calls + 1, None)]

GiveUpKeepingKey(r) == Goto(r, "done", None)  \* mutant: the key is never released

(* The submission failed for good: release the key, if there is one.       *)
GiveUp(r) == Goto(r, IF Keyed(r) THEN "abort" ELSE "done", None)

UnansweredGivesUp(r) == GiveUp(r)  \* mutant: no reconciliation

(* A timeout or a lost connection: with a token, look the job up first.    *)
Unanswered(r) == IF Keyed(r) THEN Call(r, "reconcile") ELSE GiveUp(r)

(* The job is known: keep the response for replay, if there is a key.      *)
Succeed(r) ==
    /\ Goto(r, IF Keyed(r) THEN "complete" ELSE "done", r)
    /\ entered' = entered \cup {r}

\* mutant: one IPP call more than the window allows for
FindOneCallMore(r) ==
    /\ task[r].phase = "find"
    /\ task[r].calls <= FindCalls
    /\ Call(r, "find")
    /\ UNCHANGED <<storeVars, handlerVars, cupsVars>>

(* find_printer issues one IPP call after another (printers, then options).*)
FindNextCall(r) ==
    /\ task[r].phase = "find"
    /\ task[r].calls < FindCalls
    /\ Call(r, "find")
    /\ UNCHANGED <<storeVars, handlerVars, cupsVars>>

(* Printer found and accepting, options valid, file guarded: Print-Job.    *)
StartPrintJob(r) ==
    /\ task[r].phase = "find"
    /\ Call(r, "send")
    /\ UNCHANGED <<storeVars, handlerVars, cupsVars>>

(* No such printer, not accepting, bad options, no such file.              *)
RefuseLocally(r) ==
    /\ task[r].phase = "find"
    /\ GiveUp(r)
    /\ UNCHANGED <<storeVars, handlerVars, cupsVars>>

FindUnanswered(r) ==
    /\ task[r].phase = "find"
    /\ Unanswered(r)
    /\ UNCHANGED <<storeVars, handlerVars, cupsVars>>

AddJob(r) ==
    /\ jobs' = jobs \cup {r}
    /\ printed' = IF Keyed(r) THEN [printed EXCEPT ![Key(r)] = @ \cup {r}]
                  ELSE printed

CupsAccepts(r) ==
    /\ task[r].phase = "send"
    /\ AddJob(r)
    /\ task' = [task EXCEPT ![r].phase = "sent"]
    /\ UNCHANGED <<storeVars, handlerVars, late, entered>>

CupsRefuses(r) ==
    /\ task[r].phase = "send"
    /\ GiveUp(r)
    /\ UNCHANGED <<storeVars, handlerVars, cupsVars>>

(* Print-Job times out or the connection fails, before or after CUPS has   *)
(* accepted the job; CUPS may still be reading the document.               *)
PrintJobUnanswered(r) ==
    /\ task[r].phase \in {"send", "sent"}
    /\ Unanswered(r)
    /\ \/ UNCHANGED late
       \/ /\ "late_accept" \in Faults
          /\ task[r].phase = "send"
          /\ late' = late \cup {r}
    /\ UNCHANGED <<storeVars, handlerVars, jobs, entered, printed>>

LateAccept(r) ==
    /\ r \in late
    /\ late' = late \ {r}
    /\ AddJob(r)
    /\ UNCHANGED <<storeVars, handlerVars, task, entered>>

PrintJobAnswered(r) ==
    /\ task[r].phase = "sent"
    /\ Succeed(r)
    /\ UNCHANGED <<storeVars, handlerVars, jobs, late, printed>>

(* A protocol error (HTTP error, no job-id) is not reconciled.             *)
PrintJobGarbled(r) ==
    /\ "garbled" \in Faults
    /\ task[r].phase = "sent"
    /\ GiveUp(r)
    /\ UNCHANGED <<storeVars, handlerVars, cupsVars>>

(* reconcile: Get-Jobs answers, and the marked job is there or is not.     *)
ReconcileFinds(r) ==
    /\ task[r].phase = "reconcile"
    /\ r \in jobs
    /\ Succeed(r)
    /\ UNCHANGED <<storeVars, handlerVars, jobs, late, printed>>

ReconcileMisses(r) ==
    /\ task[r].phase = "reconcile"
    /\ r \notin jobs
    /\ GiveUp(r)
    /\ UNCHANGED <<storeVars, handlerVars, cupsVars>>

(* reconcile: list_jobs(..).await.ok()? gives up like a job not found.     *)
ReconcileFails(r) ==
    /\ "get_jobs_fails" \in Faults
    /\ task[r].phase = "reconcile"
    /\ GiveUp(r)
    /\ UNCHANGED <<storeVars, handlerVars, cupsVars>>

(* The locked part of complete and of abort, then the send.                *)
CompleteKey(r) ==
    /\ task[r].phase = "complete"
    /\ Complete(Key(r), Payload(r), r)
    /\ task' = [task EXCEPT ![r].phase = "notify",
                            ![r].handle = CompleteHandle(Key(r))]
    /\ UNCHANGED <<signals, handlerVars, cupsVars>>

AbortKey(r) ==
    /\ task[r].phase = "abort"
    /\ Abort(Key(r), r)
    /\ task' = [task EXCEPT ![r].phase = "notify",
                            ![r].handle = AbortHandle(Key(r), r)]
    /\ UNCHANGED <<signals, handlerVars, cupsVars>>

Notify(r) ==
    /\ task[r].phase = "notify"
    /\ Send(task[r].handle,
            IF task[r].job = None THEN Aborted ELSE Settled(task[r].job))
    /\ task' = [task EXCEPT ![r].phase = "drop", ![r].handle = None]
    /\ UNCHANGED <<entries, handlerVars, cupsVars>>

(* PendingKey::drop: a second abort, whatever happened before.             *)
DropGuard(r) ==
    /\ task[r].phase = "drop"
    /\ Abort(Key(r), r)
    /\ Send(AbortHandle(Key(r), r), Aborted)
    /\ Goto(r, "done", task[r].job)
    /\ UNCHANGED <<handlerVars, cupsVars>>

\* mutant: no PendingKey guards the key
PanicUnguarded(r) ==
    /\ "panic" \in Faults
    /\ task[r].phase \in {"find", "complete"}
    /\ Goto(r, "done", None)
    /\ UNCHANGED <<storeVars, handlerVars, cupsVars>>

Panic(r) ==
    /\ "panic" \in Faults
    /\ task[r].phase \in {"find", "complete"}
    /\ Goto(r, IF Keyed(r) THEN "drop" ELSE "done", None)
    /\ UNCHANGED <<storeVars, handlerVars, cupsVars>>

-----------------------------------------------------------------------------
(* The cleanup loop prunes the store; the clock ticks.                     *)
CleanupPrune ==
    /\ \E k \in Keys : Expired(k)
    /\ Prune
    /\ Forget
    /\ UNCHANGED <<handlerVars, task, jobs, late, entered>>

CallMayLast(r) == task[r].phase \in InCall => task[r].elapsed < IppTimeout

Tick ==
    /\ \A r \in Requests : /\ task[r].phase \notin Settling \cup Closing
                           /\ CallMayLast(r)
    /\ entries' = [k \in Keys |-> Older(entries[k])]
    /\ task' = [r \in Requests |->
                   IF task[r].phase \in InCall
                   THEN [task[r] EXCEPT !.elapsed = @ + 1] ELSE task[r]]
    /\ UNCHANGED <<signals, handlerVars, cupsVars>>

Decide(r) == DecideFresh(r) \/ DecideJoin(r) \/ DecideReplay(r) \/ DecideConflict(r)

Handler(r) == Decide(r) \/ Wake(r) \/ TaskEnded(r)

PrintJob(r) ==
    \/ FindNextCall(r) \/ StartPrintJob(r) \/ RefuseLocally(r)
    \/ FindUnanswered(r) \/ CupsRefuses(r) \/ PrintJobUnanswered(r)
    \/ PrintJobAnswered(r) \/ PrintJobGarbled(r) \/ ReconcileFinds(r)
    \/ ReconcileMisses(r) \/ ReconcileFails(r)

Settle(r) == CompleteKey(r) \/ AbortKey(r) \/ Notify(r) \/ DropGuard(r)

TaskStep(r) == PrintJob(r) \/ Settle(r)

Environment(r) ==
    \/ \E d \in Demands : Arrive(r, d)
    \/ WaitTimeout(r) \/ Leave(r)
    \/ CupsAccepts(r) \/ LateAccept(r) \/ Panic(r)

Next == \/ \E r \in Requests : Handler(r) \/ TaskStep(r) \/ Environment(r)
        \/ CleanupPrune
        \/ Tick

Spec == Init /\ [][Next]_vars

-----------------------------------------------------------------------------
(* Properties.                                                             *)

Unsettled == InCall \cup Settling
Live(r) == Keyed(r) /\ task[r].phase \in Unsettled

\* A key is never worked on by two tasks at once: not by the request that
\* takes over, not after an eviction, not by a retry of a disconnected client.
SingleFlight ==
    \A r, s \in Requests : Live(r) /\ Live(s) /\ Key(r) = Key(s) => r = s

\* The promise of src/idempotency.rs: within the retention period a key has
\* produced at most one CUPS job.
AtMostOneJob ==
    \A k \in Keys : \A r, s \in printed[k] : r = s

\* A success response names a job that CUPS accepted, that was entered in the
\* JobRegistry, and that came from a request with the same key and payload.
ReplyFidelity ==
    \A r \in Requests :
        reply[r].kind \in {"accepted", "replayed"} =>
            LET j == reply[r].job IN
            /\ j \in jobs \cap entered
            /\ req[j] = req[r]
            /\ reply[r].kind = "replayed" => Keyed(r)

\* An entry in progress has a task that will still settle it, whatever became
\* of the client: no key stays "in progress" for good.
InProgressOwned ==
    \A k \in Keys : entries[k].state = "in_progress" =>
        LET t == entries[k].token IN
        /\ Key(t) = k
        /\ task[t].phase \in Unsettled \cup {"drop"}

\* A request waits on a channel nobody has written to only while the entry of
\* the attempt is in the store or a task holds the sender: no wake-up is lost.
NoLostWakeup ==
    \A r \in Requests :
        /\ http[r] = "waiting"
        /\ signals[joined[r]].state = "pending"
        => \/ OwnedBy(Key(r), joined[r])
           \/ \E s \in Requests : /\ task[s].phase = "notify"
                                  /\ task[s].handle = joined[r]

\* While an attempt is in flight only the attempt itself takes its entry out of
\* the store, or turns it into a response.
OnlyOwnerSettles ==
    [][\A k \in Keys, t \in Requests :
          OwnedBy(k, t) /\ ~OwnedBy(k, t)' =>
              task[t].phase \in Settling \cup {"drop"} /\ task'[t] # task[t]]_vars

\* Once a key's response is kept for replay, the key causes no further print
\* until it is forgotten.
NoPrintAfterSuccess ==
    [][\A k \in Keys :
          entries[k].state = "completed" => printed'[k] \subseteq printed[k]]_vars

\* Whatever fails, at most one attempt of a key is ever taken for a success:
\* a second print can only follow an attempt that was reported as failed.
OneSuccessPerKey ==
    \A k \in Keys : \A r, s \in printed[k] :
        task[r].job # None /\ task[s].job # None => r = s

\* Every request that began is answered, with or without an outcome.
EveryRequestEnds == \A r \in Requests : http[r] \in Waiting ~> http[r] = "closed"

-----------------------------------------------------------------------------
(* The inductive invariant behind SingleFlight and AtMostOneJob.           *)

\* An entry of the map names the attempt it belongs to or came from.
EntryNamed == \A k \in Keys : entries[k].state # "absent" => entries[k].token \in Tokens

\* Where a request is in its handler bounds where its task can be.
ControlOK ==
    \A r \in Requests :
        /\ http[r] = "idle" => ~Keyed(r)
        /\ http[r] \in {"idle", "begin", "waiting"} => task[r].phase = "none"
        /\ http[r] \in {"begin", "waiting"} => Keyed(r)
        /\ http[r] = "waiting" => joined[r] \in Requests
        /\ task[r].phase \in {"reconcile"} \cup Settling \cup Closing => Keyed(r)
        /\ task[r].phase \in InCall => task[r].calls >= 1
        /\ task[r].phase = "find" => task[r].calls <= FindCalls
        /\ task[r].phase \in {"send", "sent"} => task[r].calls <= FindCalls + 1

\* A task that has not settled its key owns the key's entry.
LiveOwns == \A r \in Requests : Live(r) => OwnedBy(Key(r), r)

\* Such an entry is no older than the IPP calls its task has made so far.
Window(n) == n * IppTimeout
EntryYoung ==
    \A r \in Requests :
        /\ Keyed(r) /\ task[r].phase \in InCall =>
              entries[Key(r)].age <= Window(task[r].calls - 1) + task[r].elapsed
        /\ Keyed(r) /\ task[r].phase \in Settling =>
              entries[Key(r)].age <= Window(MaxCalls)

\* The retention period exceeds the longest a submission can take.
RetentionCoversWindow == Window(MaxCalls) < Ttl

\* A job of a key stands alone, and the store still vouches for it.
PrintedVouched ==
    \A k \in Keys : \A r \in printed[k] :
        /\ Key(r) = k /\ r \in jobs /\ printed[k] = {r}
        /\ \/ entries[k].state = "completed" /\ entries[k].token = r
           \/ OwnedBy(k, r) /\ task[r].phase \in {"sent", "reconcile", "complete"}

IndInv == TypeOK /\ EntryNamed /\ ControlOK /\ LiveOwns /\ EntryYoung
-----------------------------------------------------------------------------
(* The submission path implements PrintOnce.                               *)

\* A task is trying until it made its job or gave its key up.
Attempting == {r \in Requests \ jobs : task[r].phase \in InCall \cup {"abort"}}
Failed     == {r \in Requests \ jobs : task[r].phase \in Closing \cup {"done"}}

\* An error speaks of the try of its request.  Without a key there is no
\* reconciliation, so the error may follow a job: such an answer tells nothing.
Denied == {r \in Requests : reply[r].kind = "error" /\ (Keyed(r) \/ r \notin jobs)}

Once == INSTANCE PrintOnce WITH
            asks <- req, trying <- Attempting, refused <- Failed, made <- jobs,
            current <- printed, kept <- CompletedKeys(entries),
            told <- [r \in Requests |-> reply[r].job], denied <- Denied,
            over <- {r \in Requests : http[r] = "closed"},
            Nothing <- [key |-> NoKey, payload |-> None]

\* In every behaviour without a broken reconciliation the service does what
\* PrintOnce promises: one print per key and retention, kept before it is
\* forgotten; what it tells of jobs is true, and it refuses only what it did not
\* print.
ImplementsPrintOnce == Once!Spec
=============================================================================
