------------------------------ MODULE Shutdown ------------------------------
(***************************************************************************)
(* The life of the process around the print submissions (run and           *)
(* shutdown_signal of src/main.rs): it serves, is told to stop, lets the   *)
(* HTTP requests in flight end, waits a bounded time for the print tasks   *)
(* that have lost their client, and exits; whoever runs it kills it when   *)
(* stopping takes longer than the grace period, and starts it again.  CUPS *)
(* keeps its jobs; the store, the registry and the tasks are memory.       *)
(***************************************************************************)
EXTENDS PrintSubmission

CONSTANTS ShutdownTimeouts, \* values of JUST_PRINT_SHUTDOWN_TIMEOUT_SECS, in ticks
          StopGrace,        \* from SIGTERM to SIGKILL, in ticks
          MayCrash,         \* the process may be killed without a warning
          Lives             \* the process is started at most this often

ASSUME ShutdownAssumption ==
    /\ ShutdownTimeouts \subseteq Nat \ {0}
    /\ StopGrace \in Nat \ {0}
    /\ MayCrash \in BOOLEAN
    /\ Lives \in Nat \ {0}

VARIABLES phase,     \* where run() is, or how it ended
          stopping,  \* ticks since SIGTERM
          draining,  \* ticks spent in print_tasks.wait()
          budget,    \* the configured shutdown timeout
          life,      \* how often the process was started
          born,      \* ghost: the life in which a request arrived, 0 before
          panicked   \* ghost: the requests whose task panicked

lifeVars == <<phase, stopping, draining, budget, life, born, panicked>>
allVars  == <<vars, lifeVars>>

Ended == {"drained", "timed_out", "killed"}

LifeTypeOK ==
    /\ phase \in {"serving", "stopping", "draining"} \cup Ended
    /\ stopping \in 0..StopGrace
    /\ budget \in ShutdownTimeouts
    /\ draining \in 0..budget
    /\ life \in 1..Lives
    /\ born \in [Requests -> 0..Lives]
    /\ panicked \subseteq Requests

LifeInit ==
    /\ Init
    /\ phase = "serving"
    /\ stopping = 0
    /\ draining = 0
    /\ budget \in ShutdownTimeouts
    /\ life = 1
    /\ born = [r \in Requests |-> 0]
    /\ panicked = {}

InFlight == {r \in Requests : task[r].phase \notin {"none", "done"}}
Running == phase \notin Ended

-----------------------------------------------------------------------------
(* The listener takes connections only while the process serves; what runs *)
(* already goes on while it stops.                                         *)
Accept(r, d) ==
    /\ phase = "serving"
    /\ Arrive(r, d)
    /\ born' = [born EXCEPT ![r] = life]
    /\ UNCHANGED <<phase, stopping, draining, budget, life, panicked>>

Work(r) ==
    /\ Running
    /\ Handler(r) \/ TaskStep(r)
    /\ UNCHANGED lifeVars

Surroundings(r) ==
    /\ Running
    /\ WaitTimeout(r) \/ Leave(r) \/ CupsAccepts(r)
    /\ UNCHANGED lifeVars

TaskPanics(r) ==
    /\ Running
    /\ Panic(r)
    /\ panicked' = panicked \cup {r}
    /\ UNCHANGED <<phase, stopping, draining, budget, life, born>>

\* CUPS may still be reading a document when the process is gone.
CupsReads(r) == LateAccept(r) /\ UNCHANGED lifeVars

Cleanup == Running /\ CleanupPrune /\ UNCHANGED lifeVars

(* SIGINT or SIGTERM: shutdown_signal ends.                                *)
Terminate == /\ phase = "serving"
             /\ phase' = "stopping"
             /\ UNCHANGED <<vars, stopping, draining, budget, life, born, panicked>>

(* axum::serve returns when the last request is answered, however long it  *)
(* takes; only then does the budget of the print tasks begin.              *)
HttpDrained ==
    /\ phase = "stopping"
    /\ \A r \in Requests : http[r] \notin Waiting
    /\ phase' = "draining"
    /\ UNCHANGED <<vars, stopping, draining, budget, life, born, panicked>>

-----------------------------------------------------------------------------
(* The end of the process takes every handler and every task with it.  A   *)
(* Print-Job that was being sent may still become a job.                   *)
Lost(r) == task[r].phase = "send"

End(how) ==
    /\ phase' = how
    /\ http' = [r \in Requests |-> IF http[r] \in Waiting THEN "closed" ELSE http[r]]
    /\ joined' = [r \in Requests |-> None]
    /\ reply' = [r \in Requests |-> IF http[r] \in Waiting THEN Reply("gone") ELSE reply[r]]
    /\ task' = [r \in Requests |->
                  IF r \in InFlight THEN At("done", 0, None) ELSE task[r]]
    /\ \E S \in SUBSET {r \in Requests : Lost(r)} : late' = late \cup S
    /\ UNCHANGED <<storeVars, req, jobs, entered, printed, stopping, draining,
                   budget, life, born, panicked>>

DrainedUnchecked == phase = "draining" /\ End("drained")  \* mutant: close without wait

Drained == /\ phase = "draining"
           /\ InFlight = {}
           /\ End("drained")

DrainTimesOut == /\ phase = "draining"
                 /\ draining = budget
                 /\ InFlight # {}
                 /\ End("timed_out")

Kill == /\ phase \in {"stopping", "draining"}
        /\ stopping = StopGrace
        /\ End("killed")

Crash == /\ MayCrash
         /\ Running
         /\ End("killed")

\* mutant: the keys outlive the process, the attempts they name do not
RestartKeepingStore ==
    /\ phase \in Ended
    /\ life < Lives
    /\ phase' = "serving"
    /\ life' = life + 1
    /\ stopping' = 0
    /\ draining' = 0
    /\ entered' = {}
    /\ UNCHANGED <<storeVars, handlerVars, task, jobs, late, printed, budget, born, panicked>>

(* A new process: nothing of the old one but CUPS and its jobs.            *)
Restart ==
    /\ phase \in Ended
    /\ life < Lives
    /\ phase' = "serving"
    /\ life' = life + 1
    /\ stopping' = 0
    /\ draining' = 0
    /\ entries' = [k \in Keys |-> Absent]
    /\ signals' = [t \in Tokens |-> NoSignal]
    /\ entered' = {}
    /\ UNCHANGED <<handlerVars, task, jobs, late, printed, budget, born, panicked>>

Upto(n, bound) == IF n < bound THEN n + 1 ELSE n

Pass ==
    /\ Running
    /\ phase = "draining" => draining < budget
    /\ Tick
    /\ stopping' = IF phase = "serving" THEN 0 ELSE Upto(stopping, StopGrace)
    /\ draining' = IF phase = "draining" THEN draining + 1 ELSE draining
    /\ UNCHANGED <<phase, budget, life, born, panicked>>

LifeNext ==
    \/ \E r \in Requests : \/ \E d \in Demands : Accept(r, d)
                           \/ Work(r) \/ Surroundings(r) \/ TaskPanics(r)
                           \/ CupsReads(r)
    \/ Cleanup \/ Terminate \/ HttpDrained \/ Drained \/ DrainTimesOut
    \/ Kill \/ Crash \/ Restart \/ Pass

LifeSpec == LifeInit /\ [][LifeNext]_allVars

(* The tasks and handlers as in PrintSubmission; main() goes on when what  *)
(* it waits for has happened.  Nobody has to stop or start the process.    *)
LifeFairSpec ==
    /\ LifeSpec
    /\ \A r \in Requests : /\ WF_allVars(Running /\ Handler(r) /\ UNCHANGED lifeVars)
                           /\ WF_allVars(Running /\ TaskStep(r) /\ UNCHANGED lifeVars)
    /\ WF_allVars(HttpDrained)
    /\ WF_allVars(Drained)

-----------------------------------------------------------------------------
(* Properties.                                                             *)

\* Within one life of the process a key prints once per retention period: a
\* restart, which forgets the keys, is the only way to a second one (a panic
\* between Print-Job and the end of the task apart).
OneJobPerLife ==
    \A k \in Keys : \A r, s \in printed[k] \ panicked :
        born[r] = born[s] => r = s

\* A process that drained leaves no job behind whose outcome it does not know,
\* with or without a client (the comment above print_tasks.close in main).
DrainLeavesNothingUnknown ==
    phase = "drained" =>
        \A r \in jobs \cup late : born[r] = life => r \in entered

\* A success is true for good: whatever becomes of the process, the job it names
\* was accepted by CUPS, in the life of the request and for what the request asked;
\* no reply is made of an attempt of an earlier life.
RepliesStand ==
    \A r \in Requests : reply[r].kind \in {"accepted", "replayed"} =>
        LET j == reply[r].job IN
        j \in jobs /\ req[j] = req[r] /\ born[j] = born[r]

\* A budget longer than a submission can take is never exhausted.
BudgetSuffices ==
    budget > Window(MaxCalls) => phase # "timed_out"

\* No attempt stays in the store of a process that goes on.
EveryAttemptSettles ==
    \A k \in Keys, t \in Requests :
        (OwnedBy(k, t) /\ Running) ~> (~OwnedBy(k, t) \/ phase \in Ended)

-----------------------------------------------------------------------------
(* Every life is a submission path of its own.                             *)

Ours == {r \in Requests : born[r] = life}
OnlyOf(S, f, before) == [r \in Requests |-> IF r \in S THEN f[r] ELSE before]

Path == INSTANCE PrintSubmission WITH
            req <- OnlyOf(Ours, req, [key |-> NoKey, payload |-> None]),
            http <- OnlyOf(Ours, http, "idle"),
            joined <- OnlyOf(Ours, joined, None),
            reply <- OnlyOf(Ours, reply, NoReply),
            task <- OnlyOf(Ours, task, NoTask),
            jobs <- jobs \cap Ours,
            late <- late \cap Ours,
            printed <- [k \in Keys |-> printed[k] \cap Ours]

\* Whatever a stop, a kill or a crash left behind, jobs that CUPS takes afterwards
\* included, the next process is PrintSubmission from its start, and goes on as
\* PrintSubmission does until it ends itself (main, and the memory it owns).
EachLifeAnew ==
    /\ Path!Init
    /\ [][/\ Running /\ Running' => Path!Next \/ UNCHANGED Path!vars
          /\ ~Running /\ Running' => Path!Init']_allVars
=============================================================================
