--------------------------- MODULE ShutdownProofs ---------------------------
(***************************************************************************)
(* What the life of the process promises, for any requests, timeouts,      *)
(* budgets and number of restarts, and what the process may assume of a    *)
(* configuration it has accepted.                                          *)
(*                                                                         *)
(* Most steps of LifeNext are steps of PrintSubmission, whose invariants   *)
(* are inductive: they need only be shown for End, which takes every       *)
(* handler and task away, and for Restart, which forgets the rest.  The    *)
(* refinement Path says the same of all of PrintSubmission at once.        *)
(***************************************************************************)
EXTENDS Shutdown, Configuration, PrintSubmissionProofs

USE DEF Key, Keyed, Payload, handlerVars, cupsVars, storeVars

-----------------------------------------------------------------------------
(* Types, and what the phases say of handlers and tasks.                   *)

Flying(r) == task[r].phase \notin {"none", "done"}

\* Requests and tasks belong to the life that goes on, and none is left when the
\* process has ended; draining has waited for the requests.
LifeShape ==
    /\ LifeTypeOK
    /\ phase \in {"serving", "stopping"} => draining = 0
    /\ \A r \in Requests :
          /\ born[r] <= life
          /\ http[r] = "idle" => born[r] = 0
          /\ http[r] \in Waiting =>
                born[r] = life /\ phase \in {"serving", "stopping"}
          /\ Flying(r) => born[r] = life /\ Running
          /\ r \in panicked => task[r].phase \in {"drop", "done"}

LEMMA LifeNumbers ==
    /\ ShutdownTimeouts \subseteq Nat /\ StopGrace \in Nat /\ Lives \in Nat /\ 1 \in 1..Lives
    /\ 0 \in 0..StopGrace
    /\ \A b \in ShutdownTimeouts : 0 \in 0..b
BY ShutdownAssumption

LEMMA LifeShapeInit == LifeInit => Shape /\ LifeShape
<1>. SUFFICES ASSUME LifeInit PROVE Shape /\ LifeShape
  OBVIOUS
<1>1. Shape
  BY InitTypeOK, InitShape DEF LifeInit, Shape
<1>2. \A r \in Requests : http[r] = "idle" /\ ~Flying(r) /\ born[r] = 0 /\ r \notin panicked
  BY DEF LifeInit, Init, Flying, NoTask, At
<1>3. LifeTypeOK
  BY LifeNumbers DEF LifeInit, LifeTypeOK
<1>. QED BY <1>1, <1>2, <1>3 DEF LifeInit, LifeShape, Waiting

\* A step of one request: what it does to the others, and that it starts a task
\* only for a client that is there.
Serves(r) == Handler(r) \/ TaskStep(r) \/ WaitTimeout(r) \/ Leave(r) \/ CupsAccepts(r)

LEMMA ServesFrame ==
    ASSUME Shape, NEW r \in Requests, Serves(r) \/ Panic(r)
    PROVE  /\ UNCHANGED req
           /\ \A s \in Requests \ {r} : task'[s] = task[s] /\ http'[s] = http[s]
           /\ http'[r] \in Waiting => http[r] \in Waiting
           /\ http[r] = "idle" => task[r].phase = "none"
           /\ http'[r] = "idle" => http[r] = "idle"
           /\ Flying(r)' => Flying(r) \/ http[r] \in Waiting
           /\ task[r].phase \in {"drop", "done"} => task'[r].phase \in {"drop", "done"}
<1>s. /\ task \in [Requests -> Task] /\ http \in [Requests -> {"idle", "closed"} \cup Waiting]
      /\ ControlOK
  BY DEF Shape, TypeOK, HandlerTypeOK
<1>1. CASE Decide(r) \/ Wake(r)
  <2>1. http[r] \in {"begin", "waiting"} /\ task[r].phase = "none"
    BY <1>s, <1>1 DEF Decide, DecideFresh, DecideJoin, DecideReplay, DecideConflict, Wake, ControlOK
  <2>. QED BY <1>s, <1>1, <2>1
       DEF Decide, DecideFresh, DecideJoin, DecideReplay, DecideConflict, Wake, Answer, Waiting
<1>2. CASE TaskEnded(r) \/ WaitTimeout(r) \/ Leave(r)
  BY <1>s, <1>2 DEF TaskEnded, WaitTimeout, Leave, Answer, Waiting, Flying, ControlOK
<1>3. CASE Printing(r)
  <2>1. /\ UNCHANGED handlerVars /\ \A s \in Requests \ {r} : task'[s] = task[s]
        /\ task[r].phase \in InCall \cup {"complete"}
    BY <1>3, PrintingPhases
  <2>. QED BY <1>s, <2>1 DEF Flying, InCall, ControlOK
<1>4. CASE Settle(r)
  <2>1. /\ UNCHANGED handlerVars /\ \A s \in Requests \ {r} : task'[s] = task[s]
        /\ task[r].phase \in Settling \cup Closing
        /\ task[r].phase = "drop" => task'[r].phase = "done"
    BY <1>s, <1>4 DEF Settle, CompleteKey, AbortKey, Notify, DropGuard, Goto, At, Settling, Closing
  <2>. QED BY <1>s, <2>1 DEF Flying, Settling, Closing, ControlOK
<1>. QED BY <1>1, <1>2, <1>3, <1>4 DEF Serves, Handler, TaskStep, Printing

\* The end of the process closes every connection and ends every task.
LEMMA EndFacts ==
    ASSUME Shape, NEW how \in Ended, End(how)
    PROVE  /\ Shape'
           /\ phase' = how /\ UNCHANGED <<storeVars, req, jobs, entered, printed, stopping,
                                          draining, budget, life, born, panicked>>
           /\ \A r \in Requests :
                 /\ task'[r] = task[r] \/ (Flying(r) /\ task'[r] = At("done", 0, None))
                 /\ ~Flying(r)'
                 /\ http'[r] \notin Waiting
                 /\ http'[r] = "idle" <=> http[r] = "idle"
           /\ \E S \in SUBSET {r \in Requests : Lost(r)} : late' = late \cup S
<1>s. /\ task \in [Requests -> Task] /\ http \in [Requests -> {"idle", "closed"} \cup Waiting]
      /\ reply \in [Requests -> [kind : ReplyKinds, job : Requests \cup {None}]]
      /\ CupsTypeOK /\ StoreTypeOK /\ ControlOK /\ EntryNamed
  BY DEF Shape, TypeOK, HandlerTypeOK
<1>1. /\ At("done", 0, None) \in Task /\ At("done", 0, None).phase = "done"
  <2>1. "done" \in Phases /\ 0 \in 0..MaxCalls /\ None \in Requests \cup {None}
    BY SubmissionAssumption DEF Phases, MaxCalls
  <2>. QED BY <2>1, AtType DEF At
<1>2. Reply("gone") \in [kind : ReplyKinds, job : Requests \cup {None}]
  BY DEF Reply, ReplyKinds
<1>3. /\ phase' = how /\ UNCHANGED <<storeVars, req, jobs, entered, printed, stopping,
                                     draining, budget, life, born, panicked>>
      /\ http' = [r \in Requests |-> IF http[r] \in Waiting THEN "closed" ELSE http[r]]
      /\ joined' = [r \in Requests |-> None]
      /\ reply' = [r \in Requests |-> IF http[r] \in Waiting THEN Reply("gone") ELSE reply[r]]
      /\ task' = [r \in Requests |-> IF Flying(r) THEN At("done", 0, None) ELSE task[r]]
  BY DEF End, InFlight, Flying
<1>4. PICK S \in SUBSET {r \in Requests : Lost(r)} : late' = late \cup S
  BY DEF End
<1>5. \A r \in Requests :
         /\ task'[r] = task[r] \/ (Flying(r) /\ task'[r] = At("done", 0, None))
         /\ ~Flying(r)'
         /\ http'[r] \notin Waiting
         /\ http'[r] = "idle" <=> http[r] = "idle"
  BY <1>1, <1>3 DEF Flying, Waiting
<1>6. HandlerTypeOK' /\ (task \in [Requests -> Task])'
  BY <1>s, <1>1, <1>2, <1>3 DEF HandlerTypeOK, Shape, TypeOK
<1>7. CupsTypeOK' /\ StoreTypeOK' /\ EntryNamed'
  BY <1>s, <1>3, <1>4 DEF CupsTypeOK, StoreTypeOK, EntryNamed
<1>8. ControlOK'
  <2>1. \A r \in Requests : ~Keyed(r)' <=> ~Keyed(r)
    BY <1>3
  <2>2. ASSUME NEW r \in Requests
        PROVE  /\ task'[r].phase \in {"none", "done"}
               /\ http'[r] \in {"idle", "closed"}
               /\ http'[r] = "idle" => ~Keyed(r) /\ task'[r].phase = "none"
    BY <1>s, <1>1, <1>3, <1>5 DEF Flying, ControlOK, Waiting
  <2>. QED BY <2>1, <2>2 DEF ControlOK, InCall, Settling, Closing
<1>. QED BY <1>3, <1>4, <1>5, <1>6, <1>7, <1>8 DEF Shape, TypeOK

\* The phases in which the process ends.
LEMMA Endings ==
    ASSUME Drained \/ DrainTimesOut \/ Kill \/ Crash
    PROVE  /\ Running
           /\ \E how \in Ended :
                 /\ End(how)
                 /\ how = "drained" => InFlight = {}
                 /\ how = "timed_out" => /\ phase = "draining" /\ draining = budget
                                         /\ InFlight # {}
BY DEF Drained, DrainTimesOut, Kill, Crash, Running, Ended

LEMMA RestartFacts ==
    ASSUME Shape, LifeShape, Restart
    PROVE  /\ Shape'
           /\ entries' = [k \in Keys |-> Absent]
           /\ \A r \in Requests : ~Flying(r)
<1>s. /\ HandlerTypeOK /\ task \in [Requests -> Task] /\ CupsTypeOK /\ ControlOK
  BY DEF Shape, TypeOK
<1>1. /\ UNCHANGED <<req, http, joined, reply, task, jobs, late, printed>>
      /\ entries' = [k \in Keys |-> Absent] /\ signals' = [t \in Tokens |-> NoSignal]
      /\ entered' = {}
  BY DEF Restart
<1>2. StoreTypeOK' /\ EntryNamed'
  BY <1>1, StoreAssumption DEF StoreTypeOK, EntryNamed, Absent, NoSignal, Entry, Signal
<1>3. HandlerTypeOK' /\ (task \in [Requests -> Task])' /\ CupsTypeOK' /\ ControlOK'
  BY <1>s, <1>1 DEF HandlerTypeOK, CupsTypeOK, ControlOK
<1>4. \A r \in Requests : ~Flying(r)
  BY DEF Restart, LifeShape, Running
<1>. QED BY <1>1, <1>2, <1>3, <1>4 DEF Shape, TypeOK

\* What Pass, a tick of the clock, does.
LEMMA PassFacts ==
    ASSUME Shape, Pass
    PROVE  /\ Running /\ Tick
           /\ UNCHANGED <<signals, handlerVars, cupsVars, phase, budget, life, born, panicked>>
           /\ \A r \in Requests :
                 /\ task'[r].phase = task[r].phase /\ task'[r].calls = task[r].calls
                 /\ Flying(r) => task[r].phase \in InCall /\ task'[r].elapsed = task[r].elapsed + 1
           /\ stopping' = IF phase = "serving" THEN 0 ELSE Upto(stopping, StopGrace)
           /\ draining' = IF phase = "draining" THEN draining + 1 ELSE draining
           /\ phase = "draining" => draining < budget
<1>s. task \in [Requests -> Task]
  BY DEF Shape, TypeOK
<1>1. Running /\ Tick /\ UNCHANGED <<signals, handlerVars, cupsVars, phase, budget, life, born, panicked>>
  BY DEF Pass, Tick
<1>2. ASSUME NEW r \in Requests
      PROVE  /\ task'[r].phase = task[r].phase /\ task'[r].calls = task[r].calls
             /\ Flying(r) => task[r].phase \in InCall /\ task'[r].elapsed = task[r].elapsed + 1
  BY <1>s, <1>1 DEF Tick, Task, Flying, Phases, Settling, Closing
<1>. QED BY <1>1, <1>2 DEF Pass

LEMMA LifeShapeStep ==
    ASSUME Shape, LifeShape, [LifeNext]_allVars
    PROVE  Shape' /\ LifeShape'
<1>s. /\ task \in [Requests -> Task] /\ http \in [Requests -> {"idle", "closed"} \cup Waiting]
      /\ ControlOK /\ LifeTypeOK
  BY DEF Shape, TypeOK, HandlerTypeOK, LifeShape
\* What holds of each request is kept by a step that leaves most of it alone.
<1>k. ASSUME Shape', LifeTypeOK', UNCHANGED <<draining, life, born>>,
             phase' = phase, panicked \subseteq panicked',
             \A r \in Requests : /\ http'[r] = "idle" => http[r] = "idle"
                                 /\ http'[r] \in Waiting => http[r] \in Waiting
                                 /\ Flying(r)' => Flying(r) \/ http[r] \in Waiting
                                 /\ r \in panicked' => task'[r].phase \in {"drop", "done"}
      PROVE  Shape' /\ LifeShape'
  BY <1>k DEF LifeShape, Running, Ended
<1>1. ASSUME NEW r \in Requests, NEW d \in Demands, Accept(r, d) PROVE Shape' /\ LifeShape'
  <2>1. /\ Shape' /\ phase = "serving" /\ Arrive(r, d) /\ born' = [born EXCEPT ![r] = life]
        /\ UNCHANGED <<phase, stopping, draining, budget, life, panicked>>
    BY <1>1, HandlerShape DEF Accept
  <2>2. /\ http[r] = "idle" /\ task[r].phase = "none" /\ http'[r] \in Waiting
        /\ \A s \in Requests \ {r} : task'[s] = task[s] /\ http'[s] = http[s]
    BY <1>s, <2>1 DEF Arrive, ControlOK, Waiting
  <2>3. LifeTypeOK'
    BY <1>s, <2>1 DEF LifeTypeOK
  <2>4. /\ Running /\ born'[r] = life
        /\ \A s \in Requests \ {r} : born'[s] = born[s]
    BY <1>s, <2>1 DEF LifeTypeOK, Running, Ended
  <2>5. life <= life
    BY <1>s DEF LifeTypeOK
  <2>6. r \notin panicked
    BY <2>2 DEF LifeShape
  <2>7. ASSUME NEW s \in Requests
        PROVE  (/\ born[s] <= life
                /\ http[s] = "idle" => born[s] = 0
                /\ http[s] \in Waiting => born[s] = life /\ phase \in {"serving", "stopping"}
                /\ Flying(s) => born[s] = life /\ Running
                /\ s \in panicked => task[s].phase \in {"drop", "done"})'
    <3>1. CASE s = r
      <4>1. born'[s] = life /\ life' = life /\ phase' = "serving" /\ Running'
        BY <2>1, <2>4, <3>1 DEF Running
      <4>2. http'[s] # "idle" /\ s \notin panicked'
        BY <2>1, <2>2, <2>6, <3>1 DEF Waiting
      <4>. QED BY <2>5, <4>1, <4>2
    <3>2. CASE s # r
      BY <2>1, <2>2, <2>4, <3>2 DEF LifeShape, Flying, Running
    <3>. QED BY <3>1, <3>2
  <2>. QED BY <2>1, <2>3, <2>7 DEF LifeShape
<1>2. ASSUME NEW r \in Requests, Work(r) \/ Surroundings(r) PROVE Shape' /\ LifeShape'
  <2>1. Serves(r) /\ UNCHANGED lifeVars
    BY <1>2 DEF Work, Surroundings, Serves
  <2>2. Shape'
    BY <2>1, HandlerShape, TaskShape DEF Serves
  <2>3. LifeTypeOK' /\ UNCHANGED <<draining, life, born, phase, panicked>>
    BY <1>s, <2>1 DEF LifeTypeOK, lifeVars
  <2>. QED BY <1>k, <2>1, <2>2, <2>3, ServesFrame DEF LifeShape, Flying
<1>3. ASSUME NEW r \in Requests, TaskPanics(r) PROVE Shape' /\ LifeShape'
  <2>1. Panic(r) /\ panicked' = panicked \cup {r} /\ UNCHANGED <<phase, stopping, draining, budget, life, born>>
    BY <1>3 DEF TaskPanics
  <2>2. Shape'
    BY <2>1, TaskShape
  <2>3. LifeTypeOK'
    BY <1>s, <2>1 DEF LifeTypeOK
  <2>4. task'[r].phase \in {"drop", "done"}
    BY <1>s, <2>1 DEF Panic, Goto, At
  <2>. QED BY <1>k, <2>1, <2>2, <2>3, <2>4, ServesFrame DEF LifeShape, Flying
<1>4. ASSUME NEW r \in Requests, CupsReads(r) PROVE Shape' /\ LifeShape'
  <2>1. LateAccept(r) /\ UNCHANGED lifeVars /\ Shape'
    BY <1>4, TaskShape DEF CupsReads
  <2>2. LifeTypeOK' /\ UNCHANGED <<draining, life, born, phase, panicked>>
    BY <1>s, <2>1 DEF LifeTypeOK, lifeVars
  <2>. QED BY <1>k, <2>1, <2>2 DEF LateAccept, LifeShape, Flying
<1>5. CASE Cleanup
  <2>1. UNCHANGED <<lifeVars, handlerVars, task>> /\ Shape'
    BY <1>5, PruneShape DEF Cleanup, CleanupPrune
  <2>2. LifeTypeOK' /\ UNCHANGED <<draining, life, born, phase, panicked>>
    BY <1>s, <2>1 DEF LifeTypeOK, lifeVars
  <2>. QED BY <1>k, <2>1, <2>2 DEF LifeShape, Flying
<1>6. CASE Terminate \/ HttpDrained \/ UNCHANGED allVars
  <2>1. UNCHANGED <<vars, stopping, draining, budget, life, born, panicked>> /\ Shape'
    <3>1. UNCHANGED <<vars, stopping, draining, budget, life, born, panicked>>
      BY <1>6 DEF Terminate, HttpDrained, allVars, lifeVars
    <3>. QED BY <3>1, NextShape
  <2>2. UNCHANGED <<task, http>>
    BY <2>1 DEF vars
  <2>3. CASE Terminate
    BY <1>s, <2>1, <2>2, <2>3 DEF LifeTypeOK, LifeShape, Terminate, Flying, Running, Ended
  <2>4. CASE HttpDrained
    BY <1>s, <2>1, <2>2, <2>4 DEF LifeTypeOK, LifeShape, HttpDrained, Flying, Running, Ended
  <2>5. CASE UNCHANGED allVars
    BY <1>s, <2>1, <2>2, <2>5 DEF LifeTypeOK, LifeShape, allVars, lifeVars, Flying, Running
  <2>. QED BY <1>6, <2>3, <2>4, <2>5
<1>7. CASE Drained \/ DrainTimesOut \/ Kill \/ Crash
  <2>1. PICK how \in Ended : End(how)
    BY <1>7, Endings
  <2>2. /\ Shape' /\ phase' = how
        /\ UNCHANGED <<stopping, draining, budget, life, born, panicked>>
        /\ \A r \in Requests :
              /\ task'[r] = task[r] \/ task'[r].phase = "done"
              /\ ~Flying(r)'
              /\ http'[r] \notin Waiting
              /\ http'[r] = "idle" <=> http[r] = "idle"
    BY <2>1, EndFacts DEF At
  <2>3. LifeTypeOK'
    BY <1>s, <2>2 DEF LifeTypeOK
  <2>. QED BY <2>2, <2>3 DEF LifeShape, Ended
<1>8. CASE Restart
  <2>1. /\ Shape' /\ phase' = "serving" /\ life' = life + 1 /\ life < Lives
        /\ stopping' = 0 /\ draining' = 0
        /\ UNCHANGED <<http, task, budget, born, panicked>>
        /\ \A r \in Requests : ~Flying(r)
        /\ phase \in Ended
    BY <1>8, RestartFacts DEF Restart
  <2>2. LifeTypeOK'
    BY <1>s, <2>1, LifeNumbers DEF LifeTypeOK
  <2>3. \A r \in Requests : http[r] \notin Waiting
    BY <2>1 DEF LifeShape, Ended
  <2>4. \A r \in Requests : born[r] <= life + 1
    BY <1>s, LifeNumbers DEF LifeShape, LifeTypeOK
  <2>. QED BY <2>1, <2>2, <2>3, <2>4 DEF LifeShape, Flying, Waiting
<1>9. CASE Pass
  <2>1. /\ Shape'
        /\ UNCHANGED <<http, phase, budget, life, born, panicked>>
        /\ \A r \in Requests : task'[r].phase = task[r].phase
        /\ stopping' = IF phase = "serving" THEN 0 ELSE Upto(stopping, StopGrace)
        /\ draining' = IF phase = "draining" THEN draining + 1 ELSE draining
        /\ phase = "draining" => draining < budget
    BY <1>9, PassFacts, TickShape
  <2>2. stopping' \in 0..StopGrace
    BY <1>s, <2>1, LifeNumbers DEF LifeTypeOK, Upto
  <2>3. draining' \in 0..budget
    BY <1>s, <2>1, LifeNumbers DEF LifeTypeOK
  <2>4. LifeTypeOK'
    BY <1>s, <2>1, <2>2, <2>3 DEF LifeTypeOK
  <2>. QED BY <2>1, <2>4 DEF LifeShape, Flying, Running
<1>. QED BY <1>1, <1>2, <1>3, <1>4, <1>5, <1>6, <1>7, <1>8, <1>9 DEF LifeNext

\* The life of the process keeps its types, and so do the handlers, the tasks and
\* the store, which End and Restart reset.
THEOREM LifeShapeCorrect == LifeSpec => [](Shape /\ LifeShape)
<1>1. Shape /\ LifeShape /\ [LifeNext]_allVars => Shape' /\ LifeShape'
  BY LifeShapeStep
<1>. QED BY <1>1, LifeShapeInit, PTL DEF LifeSpec

LEMMA LifeTypesCorrect == LifeSpec => [](TypeOK /\ LifeTypeOK)
<1>1. Shape /\ LifeShape => TypeOK /\ LifeTypeOK
  BY DEF Shape, LifeShape
<1>. QED BY <1>1, LifeShapeCorrect, PTL

-----------------------------------------------------------------------------
(* The budget.                                                             *)

\* A task that the process waits for when it drains was there when it began, so
\* it has waited for its IPP calls at least as long as the process for it.
Patient(r) ==
    Flying(r) => /\ task[r].phase \in InCall =>
                       draining <= Window(task[r].calls - 1) + task[r].elapsed
                 /\ draining <= Window(MaxCalls)

Budgeted ==
    /\ phase = "draining" => \A r \in Requests : Patient(r)
    /\ phase = "timed_out" => budget <= Window(MaxCalls)

LEMMA WindowNat == ASSUME NEW n \in Nat PROVE Window(n) \in Nat
BY WindowStep

\* The IPP calls a task makes fit the window.
LEMMA CallsFit ==
    ASSUME Shape, NEW r \in Requests, task[r].phase \in InCall
    PROVE  /\ task[r].calls \in Nat /\ task[r].calls - 1 \in Nat
           /\ task[r].elapsed \in Nat /\ task[r].elapsed <= IppTimeout
           /\ Window(task[r].calls - 1) \in Nat /\ Window(MaxCalls) \in Nat
           /\ Window(task[r].calls) = Window(task[r].calls - 1) + IppTimeout
           /\ Window(task[r].calls - 1) + task[r].elapsed <= Window(MaxCalls)
<1>1. /\ task[r].calls \in 0..MaxCalls /\ task[r].calls >= 1 /\ task[r].elapsed \in 0..IppTimeout
      /\ MaxCalls \in Nat /\ IppTimeout \in Nat
  BY SubmissionAssumption DEF Shape, TypeOK, Task, ControlOK, MaxCalls
<1>2. PICK n : n = task[r].calls - 1
  OBVIOUS
<1>3. n \in Nat /\ n + 1 = task[r].calls /\ n + 1 \in Nat /\ n + 1 <= MaxCalls
  BY <1>1, <1>2
<1>4. Window(n) \in Nat /\ Window(n + 1) = Window(n) + IppTimeout
  BY <1>3, WindowStep
<1>5. Window(n + 1) <= Window(MaxCalls) /\ Window(MaxCalls) \in Nat
  BY <1>1, <1>3, WindowGrows, WindowNat
<1>. QED BY <1>1, <1>2, <1>3, <1>4, <1>5

LEMMA PatientStep ==
    ASSUME Shape, Shape', LifeShape, NEW r \in Requests, Patient(r),
           Serves(r) \/ Panic(r), http[r] \notin Waiting, UNCHANGED draining
    PROVE  Patient(r)'
<1>. SUFFICES ASSUME Flying(r)' PROVE Patient(r)'
  BY DEF Patient
<1>1. Flying(r)
  BY ServesFrame
<1>2. draining <= Window(MaxCalls) /\ draining \in Nat
  BY <1>1, LifeNumbers DEF Patient, LifeShape, LifeTypeOK
<1>3. ASSUME task'[r].phase \in InCall
      PROVE  draining <= Window(task'[r].calls - 1) + task'[r].elapsed
  <2>1. /\ task[r].phase \in InCall
        /\ \/ task'[r].calls = task[r].calls + 1 /\ task'[r].elapsed = 0
           \/ task'[r].calls = task[r].calls /\ task'[r].elapsed = task[r].elapsed
    <3>1. CASE Printing(r)
      BY <1>3, <3>1, PrintJobMove DEF Printing, Unsettled, InCall, Settling
    <3>2. CASE Settle(r)
      <4>1. task'[r].phase \in Closing \cup {"done"}
        BY <3>2 DEF Shape, TypeOK, Settle, CompleteKey, AbortKey, Notify, DropGuard, Goto, At,
                    Closing, Task
      <4>. QED BY <1>3, <4>1 DEF InCall, Closing
    <3>3. CASE Decide(r) \/ Wake(r)
      BY <3>3 DEF Decide, DecideFresh, DecideJoin, DecideReplay, DecideConflict, Wake, Waiting
    <3>4. CASE TaskEnded(r) \/ WaitTimeout(r) \/ Leave(r)
      BY <1>3, <3>4 DEF TaskEnded, WaitTimeout, Leave
    <3>. QED BY <3>1, <3>2, <3>3, <3>4 DEF Serves, Handler, TaskStep, Printing
  <2>2. /\ draining <= Window(task[r].calls - 1) + task[r].elapsed
    BY <1>1, <2>1 DEF Patient
  <2>3. CASE task'[r].calls = task[r].calls /\ task'[r].elapsed = task[r].elapsed
    BY <2>2, <2>3
  <2>4. CASE task'[r].calls = task[r].calls + 1 /\ task'[r].elapsed = 0
    <3>1. /\ task[r].calls \in Nat /\ task[r].calls - 1 \in Nat
          /\ task[r].elapsed \in Nat /\ task[r].elapsed <= IppTimeout
          /\ Window(task[r].calls - 1) \in Nat
          /\ Window(task[r].calls) = Window(task[r].calls - 1) + IppTimeout
      BY <2>1, CallsFit
    <3>2. draining <= Window(task[r].calls)
      BY <1>2, <2>2, <3>1, SubmissionAssumption
    <3>3. task'[r].calls - 1 = task[r].calls /\ Window(task[r].calls) \in Nat
      BY <2>4, <3>1, SubmissionAssumption
    <3>. QED BY <2>4, <3>2, <3>3
  <2>. QED BY <2>1, <2>3, <2>4
<1>. QED BY <1>2, <1>3 DEF Patient, Window

LEMMA BudgetedStep ==
    ASSUME Shape, LifeShape, Shape', LifeShape', Budgeted, [LifeNext]_allVars
    PROVE  Budgeted'
<1>k. ASSUME UNCHANGED <<phase, draining, budget>>,
             phase = "draining" => \A r \in Requests : Patient(r)'
      PROVE  Budgeted'
  BY <1>k DEF Budgeted, Window
<1>u. ASSUME UNCHANGED <<phase, draining, budget, task>>
      PROVE  Budgeted'
  BY <1>u DEF Budgeted, Patient, Flying, Window
<1>1. ASSUME NEW r \in Requests, NEW d \in Demands, Accept(r, d) PROVE Budgeted'
  BY <1>1, <1>k DEF Accept
<1>2. ASSUME NEW r \in Requests, Work(r) \/ Surroundings(r) \/ TaskPanics(r) PROVE Budgeted'
  <2>1. (Serves(r) \/ Panic(r)) /\ UNCHANGED <<phase, draining, budget>>
    BY <1>2 DEF Work, Surroundings, TaskPanics, Serves, lifeVars
  <2>2. ASSUME phase = "draining", NEW s \in Requests PROVE Patient(s)'
    <3>1. http[s] \notin Waiting /\ Patient(s)
      BY <2>2 DEF LifeShape, Budgeted
    <3>2. CASE s = r
      BY <2>1, <3>1, <3>2, PatientStep
    <3>3. CASE s # r
      <4>1. task'[s] = task[s]
        BY <2>1, <3>3, ServesFrame
      <4>. QED BY <2>1, <3>1, <4>1 DEF Patient, Flying, Window
    <3>. QED BY <3>2, <3>3
  <2>. QED BY <1>k, <2>1, <2>2
<1>3. ASSUME NEW r \in Requests, CupsReads(r) PROVE Budgeted'
  BY <1>3, <1>u DEF CupsReads, LateAccept, lifeVars
<1>4. CASE Cleanup \/ UNCHANGED allVars
  BY <1>4, <1>u DEF Cleanup, CleanupPrune, lifeVars, allVars, vars
<1>5. CASE Terminate \/ Restart
  BY <1>5 DEF Terminate, Restart, Budgeted
<1>6. CASE HttpDrained
  <2>1. draining' = 0 /\ task' = task /\ phase' = "draining"
    BY <1>6 DEF HttpDrained, LifeShape, vars
  <2>2. ASSUME NEW r \in Requests PROVE Patient(r)'
    <3>1. Window(MaxCalls) \in Nat
      BY WindowNat, SubmissionAssumption DEF MaxCalls
    <3>2. ASSUME task[r].phase \in InCall PROVE 0 <= Window(task[r].calls - 1) + task[r].elapsed
      <4>1. task[r].elapsed \in Nat /\ Window(task[r].calls - 1) \in Nat
        BY <3>2, CallsFit
      <4>. QED BY <4>1
    <3>. QED BY <2>1, <3>1, <3>2 DEF Patient, Window
  <2>. QED BY <2>1, <2>2 DEF Budgeted
<1>7. CASE Drained \/ DrainTimesOut \/ Kill \/ Crash
  <2>1. PICK how \in Ended : /\ End(how)
                             /\ how = "timed_out" => /\ phase = "draining" /\ draining = budget
                                                     /\ InFlight # {}
    BY <1>7, Endings
  <2>2. phase' = how /\ budget' = budget
    BY <2>1, EndFacts
  <2>3. ASSUME how = "timed_out" PROVE budget <= Window(MaxCalls)
    <3>1. PICK r \in Requests : Flying(r)
      BY <2>1, <2>3 DEF InFlight, Flying
    <3>. QED BY <2>1, <2>3, <3>1 DEF Budgeted, Patient
  <2>. QED BY <2>2, <2>3 DEF Budgeted, Ended, Window
<1>8. CASE Pass
  <2>1. /\ UNCHANGED <<phase, budget>>
        /\ \A r \in Requests :
              /\ task'[r].phase = task[r].phase /\ task'[r].calls = task[r].calls
              /\ Flying(r) => task[r].phase \in InCall /\ task'[r].elapsed = task[r].elapsed + 1
        /\ draining' = IF phase = "draining" THEN draining + 1 ELSE draining
    BY <1>8, PassFacts
  <2>2. ASSUME phase = "draining", NEW r \in Requests, Flying(r)' PROVE Patient(r)'
    <3>1. /\ Flying(r) /\ task[r].phase \in InCall /\ task'[r].phase \in InCall
          /\ draining <= Window(task[r].calls - 1) + task[r].elapsed
          /\ task'[r].elapsed = task[r].elapsed + 1 /\ task'[r].calls = task[r].calls
          /\ draining' = draining + 1 /\ draining \in Nat
      BY <2>1, <2>2, LifeNumbers DEF Flying, Budgeted, Patient, LifeShape, LifeTypeOK
    <3>2. /\ Window(task[r].calls - 1) \in Nat /\ task[r].elapsed \in Nat
      BY <3>1, CallsFit
    <3>3. draining' <= Window(task[r].calls - 1) + task'[r].elapsed
      BY <3>1, <3>2
    <3>4. (Window(task[r].calls - 1) + task[r].elapsed <= Window(MaxCalls))'
      <4>1. task'[r].calls \in 0..MaxCalls /\ task'[r].calls >= 1 /\ task'[r].elapsed \in 0..IppTimeout
        BY <3>1, SubmissionAssumption DEF Shape, TypeOK, Task, ControlOK
      <4>2. PICK n : n = task'[r].calls - 1
        OBVIOUS
      <4>3. n \in Nat /\ n + 1 \in Nat /\ n + 1 <= MaxCalls /\ MaxCalls \in Nat
        BY <4>1, <4>2, SubmissionAssumption DEF MaxCalls
      <4>4. Window(n) \in Nat /\ Window(n + 1) = Window(n) + IppTimeout /\ Window(n + 1) <= Window(MaxCalls)
            /\ Window(MaxCalls) \in Nat
        BY <4>3, WindowStep, WindowGrows, WindowNat
      <4>5. Window(n) + task'[r].elapsed <= Window(MaxCalls)
        BY <4>1, <4>4, SubmissionAssumption
      <4>. QED BY <4>2, <4>5 DEF Window, MaxCalls
    <3>5. draining' <= Window(MaxCalls)
      <4>1. /\ Window(task'[r].calls - 1) + task'[r].elapsed <= Window(MaxCalls)
            /\ Window(MaxCalls) \in Nat
        BY <3>4, WindowNat, SubmissionAssumption DEF Window, MaxCalls
      <4>. QED BY <3>1, <3>2, <3>3, <4>1, SubmissionAssumption
    <3>. QED BY <3>1, <3>3, <3>5 DEF Patient, Window
  <2>3. phase = "draining" => \A r \in Requests : Patient(r)'
    BY <2>2 DEF Patient
  <2>. QED BY <2>1, <2>3 DEF Budgeted, Window
<1>. QED BY <1>1, <1>2, <1>3, <1>4, <1>5, <1>6, <1>7, <1>8 DEF LifeNext

\* A budget that exceeds what a submission can take is never exhausted (the
\* shutdown timeout of src/config.rs): the process waits for no task longer.
THEOREM BudgetSufficesCorrect == LifeSpec => []BudgetSuffices
<1>1. LifeInit => Budgeted
  BY DEF LifeInit, Budgeted
<1>2. /\ Shape /\ LifeShape
      /\ (Shape /\ LifeShape)' /\ Budgeted /\ [LifeNext]_allVars
      => Budgeted'
  BY BudgetedStep
<1>3. Shape /\ LifeShape /\ Budgeted => BudgetSuffices
  <2>1. MaxCalls \in Nat
    BY SubmissionAssumption DEF MaxCalls
  <2>2. Window(MaxCalls) \in Nat
    BY <2>1, WindowNat
  <2>3. Shape /\ LifeShape => budget \in Nat
    BY ShutdownAssumption DEF LifeShape, LifeTypeOK
  <2>. QED BY <2>2, <2>3 DEF Budgeted, BudgetSuffices
<1>. QED BY <1>1, <1>2, <1>3, LifeShapeCorrect, PTL DEF LifeSpec

-----------------------------------------------------------------------------
(* What is known of the jobs of a process that drained.                    *)

\* The environment lets every reconciliation find what CUPS has accepted.
Reconciles == Faults \subseteq {"panic"}

\* Without a key there is nothing to reconcile: such a print may be unknown.
KeyedDemands == \A d \in Demands : d.key # NoKey

\* The ends that give up on tasks.
Abrupt == {"timed_out", "killed"}

\* CUPS has jobs and documents of requests that arrived.
Asked == \A r \in jobs \cup late : http[r] # "idle"

\* A job of this life is registered, or its task is about to learn of it; CUPS
\* still reads a document only for an end that gave up on its task.
Tracked ==
    /\ \A r \in Requests : http[r] # "idle" => Keyed(r)
    /\ phase \notin Abrupt =>
          /\ \A r \in jobs : born[r] = life =>
                r \in entered \/ task[r].phase \in {"sent", "reconcile"}
          /\ \A r \in late : born[r] # life

\* What a step of one request does to CUPS and to the registry.
LEMMA ServesCups ==
    ASSUME Shape, NEW r \in Requests, Serves(r) \/ Panic(r), Reconciles
    PROVE  /\ late' = late /\ entered \subseteq entered'
           /\ jobs' = jobs \/ (/\ jobs' = jobs \cup {r} /\ task[r].phase = "send"
                               /\ task'[r].phase = "sent")
           /\ Keyed(r) /\ r \in jobs /\ task[r].phase \in {"sent", "reconcile"} =>
                 r \in entered' \/ task'[r].phase \in {"sent", "reconcile"}
<1>s. task \in [Requests -> Task]
  BY DEF Shape, TypeOK
<1>f. "late_accept" \notin Faults /\ "garbled" \notin Faults /\ "get_jobs_fails" \notin Faults
  BY DEF Reconciles
<1>1. CASE Decide(r) \/ Wake(r) \/ TaskEnded(r) \/ WaitTimeout(r) \/ Leave(r)
  <2>1. UNCHANGED <<late, entered, jobs>>
    BY <1>1 DEF Decide, DecideFresh, DecideJoin, DecideReplay, DecideConflict, Wake, TaskEnded,
                WaitTimeout, Leave
  <2>2. task[r].phase \in {"sent", "reconcile"} => task' = task
    BY <1>1 DEF Decide, DecideFresh, DecideJoin, DecideReplay, DecideConflict, Wake, TaskEnded,
                WaitTimeout, Leave, Shape, ControlOK
  <2>. QED BY <2>1, <2>2
<1>2. CASE Settle(r)
  BY <1>2 DEF Settle, CompleteKey, AbortKey, Notify, DropGuard
<1>3. CASE Panic(r)
  BY <1>3 DEF Panic
<1>4. CASE CupsAccepts(r)
  <2>1. task'[r].phase = "sent" /\ task[r].phase = "send" /\ jobs' = jobs \cup {r}
        /\ UNCHANGED <<late, entered>>
    BY <1>s, <1>4 DEF CupsAccepts, AddJob, Task
  <2>. QED BY <2>1
<1>5. CASE PrintJob(r)
  <2>1. UNCHANGED <<late, jobs>> /\ entered \subseteq entered'
    BY <1>f, <1>5
    DEF PrintJob, FindNextCall, StartPrintJob, RefuseLocally, FindUnanswered, CupsRefuses,
        PrintJobUnanswered, PrintJobAnswered, PrintJobGarbled, ReconcileFinds, ReconcileMisses,
        ReconcileFails, Succeed
  <2>2. ASSUME Keyed(r), r \in jobs, task[r].phase \in {"sent", "reconcile"}
        PROVE  r \in entered' \/ task'[r].phase \in {"sent", "reconcile"}
    <3>1. PrintJobUnanswered(r) \/ PrintJobAnswered(r) \/ ReconcileFinds(r)
      BY <1>f, <1>5, <2>2
      DEF PrintJob, FindNextCall, StartPrintJob, RefuseLocally, FindUnanswered, CupsRefuses,
          PrintJobGarbled, ReconcileMisses, ReconcileFails
    <3>2. CASE PrintJobUnanswered(r)
      BY <1>s, <2>2, <3>2 DEF PrintJobUnanswered, Unanswered, Call, At
    <3>3. CASE PrintJobAnswered(r) \/ ReconcileFinds(r)
      BY <3>3 DEF PrintJobAnswered, ReconcileFinds, Succeed
    <3>. QED BY <3>1, <3>2, <3>3
  <2>. QED BY <2>1, <2>2
<1>. QED BY <1>1, <1>2, <1>3, <1>4, <1>5 DEF Serves, Handler, TaskStep

LEMMA AskedStep ==
    ASSUME Shape, LifeShape, Asked, [LifeNext]_allVars, Reconciles
    PROVE  Asked'
<1>s. jobs \subseteq Requests /\ late \subseteq Requests /\ ControlOK
      /\ http \in [Requests -> {"idle", "closed"} \cup Waiting]
  BY DEF Shape, TypeOK, CupsTypeOK, HandlerTypeOK
<1>k. ASSUME jobs' \cup late' \subseteq jobs \cup late,
             \A r \in Requests : http'[r] = "idle" => http[r] = "idle"
      PROVE  Asked'
  BY <1>s, <1>k DEF Asked
<1>1. ASSUME NEW r \in Requests, NEW d \in Demands, Accept(r, d) PROVE Asked'
  <2>1. UNCHANGED <<jobs, late>> /\ \A s \in Requests : http'[s] = "idle" => http[s] = "idle"
    BY <1>s, <1>1 DEF Accept, Arrive
  <2>. QED BY <1>k, <2>1
<1>2. ASSUME NEW r \in Requests, Work(r) \/ Surroundings(r) \/ TaskPanics(r) PROVE Asked'
  <2>1. Serves(r) \/ Panic(r)
    BY <1>2 DEF Work, Surroundings, TaskPanics, Serves
  <2>2. /\ late' = late
        /\ jobs' = jobs \/ (jobs' = jobs \cup {r} /\ task[r].phase = "send")
    BY <2>1, ServesCups
  <2>3. /\ http[r] = "idle" => task[r].phase = "none"
        /\ http'[r] = "idle" => http[r] = "idle"
        /\ \A s \in Requests \ {r} : http'[s] = http[s]
    BY <2>1, ServesFrame
  <2>. QED BY <1>s, <2>2, <2>3 DEF Asked
<1>3. ASSUME NEW r \in Requests, CupsReads(r) PROVE Asked'
  BY <1>3, <1>k DEF CupsReads, LateAccept, AddJob
<1>4. CASE Cleanup \/ Terminate \/ HttpDrained \/ Restart \/ UNCHANGED allVars
  BY <1>4, <1>k DEF Cleanup, CleanupPrune, Terminate, HttpDrained, Restart, allVars, vars
<1>5. CASE Drained \/ DrainTimesOut \/ Kill \/ Crash
  <2>1. PICK how \in Ended : End(how)
    BY <1>5, Endings
  <2>2. /\ jobs' = jobs /\ \A r \in Requests : http'[r] = "idle" <=> http[r] = "idle"
        /\ \E S \in SUBSET {r \in Requests : Lost(r)} : late' = late \cup S
    BY <2>1, EndFacts
  <2>3. \A r \in Requests : Lost(r) => http[r] # "idle"
    BY <1>s DEF Lost, ControlOK
  <2>. QED BY <1>s, <2>2, <2>3 DEF Asked
<1>6. CASE Pass
  BY <1>6, <1>k, PassFacts
<1>. QED BY <1>1, <1>2, <1>3, <1>4, <1>5, <1>6 DEF LifeNext

LEMMA TrackedStep ==
    ASSUME Shape, LifeShape, Asked, Tracked, [LifeNext]_allVars, Reconciles, KeyedDemands
    PROVE  Tracked'
<1>s. /\ task \in [Requests -> Task] /\ jobs \subseteq Requests /\ late \subseteq Requests
      /\ http \in [Requests -> {"idle", "closed"} \cup Waiting]
      /\ req \in [Requests -> [key : Keys \cup {NoKey}, payload : Payloads \cup {None}]]
      /\ life \in Nat /\ born \in [Requests -> 0..Lives] /\ ControlOK
  BY LifeNumbers DEF Shape, TypeOK, HandlerTypeOK, CupsTypeOK, LifeShape, LifeTypeOK
<1>0. \A r \in Requests : http[r] # "idle" => Keyed(r)
  BY DEF Tracked
<1>u. ASSUME UNCHANGED <<life, born, jobs, late, entered, req, http>>,
             phase' \notin Abrupt => phase \notin Abrupt,
             \A r \in Requests : task'[r].phase = task[r].phase
      PROVE  Tracked'
  BY <1>s, <1>u DEF Tracked
<1>1. ASSUME NEW r \in Requests, NEW d \in Demands, Accept(r, d) PROVE Tracked'
  <2>1. /\ http[r] = "idle" /\ req' = [req EXCEPT ![r] = d] /\ phase = "serving"
        /\ UNCHANGED <<phase, life, jobs, late, entered, task>>
        /\ born' = [born EXCEPT ![r] = life]
        /\ http' = [http EXCEPT ![r] = "begin"]
        /\ d.key \in Keys
    BY <1>1, SubmissionAssumption DEF Accept, Arrive, KeyedDemands
  <2>2. ASSUME NEW s \in Requests, http'[s] # "idle" PROVE Keyed(s)'
    <3>1. CASE s = r
      BY <1>s, <2>1, <3>1
    <3>2. CASE s # r
      BY <1>s, <1>0, <2>1, <2>2, <3>2
    <3>. QED BY <3>1, <3>2
  <2>3. \A s \in jobs \cup late : born'[s] = born[s]
    BY <1>s, <2>1 DEF Asked
  <2>. QED BY <2>1, <2>2, <2>3 DEF Tracked, Abrupt
<1>2. ASSUME NEW r \in Requests, Work(r) \/ Surroundings(r) \/ TaskPanics(r) PROVE Tracked'
  <2>1. (Serves(r) \/ Panic(r)) /\ Running /\ UNCHANGED <<phase, life, born>>
    BY <1>2 DEF Work, Surroundings, TaskPanics, Serves, lifeVars
  <2>2. /\ late' = late /\ entered \subseteq entered'
        /\ jobs' = jobs \/ (jobs' = jobs \cup {r} /\ task'[r].phase = "sent")
        /\ Keyed(r) /\ r \in jobs /\ task[r].phase \in {"sent", "reconcile"} =>
              r \in entered' \/ task'[r].phase \in {"sent", "reconcile"}
    BY <2>1, ServesCups
  <2>3. /\ UNCHANGED req
        /\ \A s \in Requests \ {r} : task'[s] = task[s] /\ http'[s] = http[s]
        /\ http'[r] = "idle" => http[r] = "idle"
        /\ http[r] = "idle" => task[r].phase = "none"
    BY <2>1, ServesFrame
  <2>4. \A s \in Requests : http'[s] # "idle" => Keyed(s)'
    <3>1. ASSUME NEW s \in Requests, http'[s] # "idle", s # r PROVE Keyed(s)'
      BY <1>0, <2>3, <3>1
    <3>2. http'[r] # "idle" => http[r] # "idle"
      <4>1. CASE Decide(r) \/ Wake(r) \/ TaskEnded(r) \/ WaitTimeout(r) \/ Leave(r)
        BY <4>1 DEF Decide, DecideFresh, DecideJoin, DecideReplay, DecideConflict, Wake,
                    TaskEnded, WaitTimeout, Leave, Waiting
      <4>2. CASE Printing(r)
        BY <4>2, PrintingPhases
      <4>3. CASE Settle(r)
        BY <4>3 DEF Settle, CompleteKey, AbortKey, Notify, DropGuard
      <4>. QED BY <2>1, <4>1, <4>2, <4>3 DEF Serves, Handler, TaskStep, Printing
    <3>. QED BY <1>0, <2>3, <3>1, <3>2
  <2>5. ASSUME phase \notin Abrupt, NEW s \in jobs', born[s] = life
        PROVE  s \in entered' \/ task'[s].phase \in {"sent", "reconcile"}
    <3>1. CASE s \in jobs
      <4>1. s \in entered \/ task[s].phase \in {"sent", "reconcile"}
        BY <2>5, <3>1 DEF Tracked
      <4>2. Keyed(s)
        BY <1>0, <1>s, <3>1 DEF Asked
      <4>. QED BY <1>s, <2>2, <2>3, <3>1, <4>1, <4>2
    <3>2. CASE s \notin jobs
      BY <2>2, <2>5, <3>2
    <3>. QED BY <3>1, <3>2
  <2>6. phase' \notin Abrupt => \A s \in late' : born'[s] # life'
    BY <2>1, <2>2 DEF Tracked
  <2>. QED BY <2>1, <2>4, <2>5, <2>6 DEF Tracked
<1>3. ASSUME NEW r \in Requests, CupsReads(r) PROVE Tracked'
  <2>1. /\ r \in late /\ late' = late \ {r} /\ jobs' = jobs \cup {r}
        /\ UNCHANGED <<phase, life, born, entered, req, http, task>>
    BY <1>3 DEF CupsReads, LateAccept, AddJob, lifeVars
  <2>. QED BY <2>1 DEF Tracked
<1>4. CASE Cleanup \/ Terminate \/ HttpDrained \/ UNCHANGED allVars
  <2>1. /\ UNCHANGED <<life, born, jobs, late, entered, req, http, task>>
        /\ phase' = phase \/ phase \in {"serving", "stopping"}
    BY <1>4 DEF Cleanup, CleanupPrune, Terminate, HttpDrained, allVars, vars, lifeVars
  <2>. QED BY <1>u, <2>1 DEF Abrupt
<1>5. CASE Drained \/ DrainTimesOut \/ Kill \/ Crash
  <2>0. Running
    BY <1>5, Endings
  <2>1. PICK how \in Ended : End(how) /\ (how = "drained" => InFlight = {})
    BY <1>5, Endings
  <2>2. /\ phase' = how /\ UNCHANGED <<req, jobs, entered, life, born>>
        /\ \A r \in Requests : /\ task'[r] = task[r] \/ (Flying(r) /\ task'[r] = At("done", 0, None))
                               /\ http'[r] = "idle" <=> http[r] = "idle"
        /\ \E S \in SUBSET {r \in Requests : Lost(r)} : late' = late \cup S
    BY <2>1, EndFacts
  <2>3. \A r \in Requests : http'[r] # "idle" => Keyed(r)'
    BY <1>0, <2>2
  <2>4. CASE how = "drained"
    <3>1. \A r \in Requests : ~Flying(r)
      BY <2>1, <2>4 DEF InFlight, Flying
    <3>2. late' = late /\ \A r \in Requests : task'[r] = task[r]
      BY <2>2, <3>1 DEF Lost, Flying
    <3>3. phase \notin Abrupt
      BY <2>0 DEF Running, Ended, Abrupt
    <3>. QED BY <1>s, <2>2, <2>3, <3>2, <3>3 DEF Tracked
  <2>5. CASE how # "drained"
    BY <2>2, <2>3, <2>5 DEF Tracked, Abrupt, Ended
  <2>. QED BY <2>4, <2>5
<1>6. CASE Restart
  <2>1. /\ life' = life + 1 /\ UNCHANGED <<req, http, jobs, late, born>>
    BY <1>6 DEF Restart
  <2>2. \A r \in Requests : born[r] # life + 1
    BY <1>s, LifeNumbers DEF LifeShape
  <2>. QED BY <1>s, <2>1, <2>2 DEF Tracked
<1>7. CASE Pass
  <2>1. /\ UNCHANGED <<phase, life, born, jobs, late, entered, req, http>>
        /\ \A r \in Requests : task'[r].phase = task[r].phase
    BY <1>7, PassFacts
  <2>. QED BY <1>u, <2>1
<1>. QED BY <1>1, <1>2, <1>3, <1>4, <1>5, <1>6, <1>7 DEF LifeNext

\* A process that drained knows every job of its own life (the comment above
\* print_tasks.close in src/main.rs): a keyed print is looked up when its answer
\* is missing, and the process waits for that.
THEOREM DrainLeavesNothingUnknownCorrect ==
    Reconciles /\ KeyedDemands => (LifeSpec => []DrainLeavesNothingUnknown)
<1>. SUFFICES ASSUME Reconciles, KeyedDemands PROVE LifeSpec => []DrainLeavesNothingUnknown
  OBVIOUS
<1>1. LifeInit => Asked /\ Tracked
  BY DEF LifeInit, Init, Asked, Tracked
<1>2. Shape /\ LifeShape /\ Asked /\ Tracked /\ [LifeNext]_allVars => Asked' /\ Tracked'
  BY AskedStep, TrackedStep
<1>3. Shape /\ LifeShape /\ Asked /\ Tracked => DrainLeavesNothingUnknown
  <2>. SUFFICES ASSUME Shape, LifeShape, Tracked, phase = "drained",
                       NEW r \in jobs \cup late, born[r] = life
                PROVE  r \in entered
    BY DEF DrainLeavesNothingUnknown
  <2>1. r \in Requests
    BY DEF Shape, TypeOK, CupsTypeOK
  <2>2. ~Flying(r)
    BY <2>1 DEF LifeShape, Running, Ended
  <2>. QED BY <2>2 DEF Tracked, Abrupt, Flying
<1>. QED BY <1>1, <1>2, <1>3, LifeShapeCorrect, PTL DEF LifeSpec

-----------------------------------------------------------------------------
(* One job per key and life.                                               *)

\* The store vouches for a job of a key: it keeps the response, or the attempt
\* that will make it one.
Vouching(k, r) ==
    \/ entries[k].state = "completed" /\ entries[k].token = r
    \/ OwnedBy(k, r) /\ task[r].phase \in {"sent", "reconcile", "complete"}

\* What a key printed, or will when CUPS has read the document.
Counted(k) == {r \in printed[k] \cup late : Key(r) = k} \ panicked

Counts(k) ==
    /\ \A r \in printed[k] : Key(r) = k /\ r \in jobs
    /\ \A r, s \in Counted(k) : born[r] = born[s] => r = s

\* The store vouches for what the key printed in the life that goes on.
VouchedHere(k) == \A r \in printed[k] \ panicked : born[r] = life => Vouching(k, r)

OneEach ==
    /\ \A k \in Keys : Counts(k)
    /\ Running => /\ \A r \in late : born[r] # life
                  /\ \A k \in Keys : VouchedHere(k)

\* While a task is live, its key has printed no other job in this life.
LEMMA SoleHere ==
    ASSUME Held, NEW r \in Requests, Live(r), VouchedHere(Key(r)),
           NEW s \in printed[Key(r)] \ panicked, born[s] = life
    PROVE  s = r /\ task[r].phase \in {"sent", "reconcile", "complete"}
<1>1. Key(r) \in Keys /\ OwnedBy(Key(r), r)
  BY LiveHeld
<1>2. Vouching(Key(r), s)
  BY DEF VouchedHere
<1>. QED BY <1>1, <1>2 DEF Vouching, OwnedBy

\* The store forgets a key only together with the jobs printed for it.
LEMMA ForgetHere ==
    ASSUME Held, RetentionCoversWindow, NEW k \in Keys, Counts(k), VouchedHere(k),
           Forget, UNCHANGED <<req, born, life, panicked>>,
           \A r \in printed[k] : task'[r] = task[r],
           \/ entries'[k] = Pruned[k]
           \/ Pruned[k].state = "completed" /\ entries'[k] = Absent
    PROVE  VouchedHere(k)'
<1>s. TypeOK
  BY DEF Held, Shape
<1>1. CASE /\ entries[k].state = "completed"
           /\ Expired(k) \/ entries'[k].state = "absent"
  BY <1>1 DEF Forget, VouchedHere
<1>2. CASE ~ /\ entries[k].state = "completed"
             /\ Expired(k) \/ entries'[k].state = "absent"
  <2>1. printed'[k] = printed[k]
    BY <1>2 DEF Forget
  <2>2. ASSUME NEW r \in printed[k] \ panicked, born[r] = life PROVE Vouching(k, r)'
    <3>0. r \in Requests /\ Vouching(k, r) /\ Key(r) = k /\ task'[r] = task[r]
      BY <1>s, <2>2 DEF TypeOK, CupsTypeOK, VouchedHere, Counts
    <3>1. entries'[k] = entries[k]
      <4>1. CASE entries[k].state = "completed"
        BY <1>2, <4>1 DEF Pruned, Absent
      <4>2. CASE OwnedBy(k, r) /\ task[r].phase \in {"sent", "reconcile", "complete"}
        <5>1. Live(r)
          BY <3>0, <4>2 DEF Live, Unsettled, InCall, Settling
        <5>2. Pruned[k] = entries[k]
          BY <3>0, <5>1, LiveUnexpired
        <5>. QED BY <4>2, <5>2 DEF OwnedBy
      <4>. QED BY <3>0, <4>1, <4>2 DEF Vouching
    <3>. QED BY <3>0, <3>1 DEF Vouching, OwnedBy
  <2>. QED BY <2>1, <2>2 DEF VouchedHere
<1>. QED BY <1>1, <1>2

LEMMA FreshHere ==
    ASSUME Held, RetentionCoversWindow, NEW r \in Requests, DecideFresh(r),
           UNCHANGED <<born, life, panicked>>,
           NEW k \in Keys, Counts(k), VouchedHere(k)
    PROVE  VouchedHere(k)'
<1>s. TypeOK /\ ControlOK /\ task \in [Requests -> Task]
  BY DEF Held, Shape, TypeOK
<1>0. /\ Forget /\ UNCHANGED <<req, jobs>> /\ task' = [task EXCEPT ![r] = NewTask]
      /\ BeginFresh(Key(r), Payload(r), r) /\ Key(r) \in Keys
  BY <1>s DEF DecideFresh, ControlOK
<1>1. PICK gone \in Evictions(Pruned) :
         entries' = [l \in Keys |-> IF l = Key(r) THEN InProgress(Payload(r), r)
                                    ELSE IF l \in gone THEN Absent ELSE Pruned[l]]
  BY <1>0 DEF BeginFresh
<1>2. CASE k = Key(r)
  <2>1. ASSUME NEW s \in printed'[k] \ panicked, born[s] = life PROVE FALSE
    <3>0. s \in printed[k] /\ printed'[k] # {}
      BY <1>0, <2>1 DEF Forget
    <3>1. s \in Requests /\ Key(s) = k /\ Vouching(k, s)
      BY <1>s, <2>1, <3>0 DEF TypeOK, CupsTypeOK, Counts, VouchedHere
    <3>2. CASE entries[k].state = "completed"
      <4>1. Expired(k)
        BY <1>0, <1>2, <3>2 DEF BeginFresh, Pruned
      <4>. QED BY <1>0, <3>0, <3>2, <4>1 DEF Forget
    <3>3. CASE OwnedBy(k, s) /\ task[s].phase \in {"sent", "reconcile", "complete"}
      <4>1. Live(s)
        BY <3>1, <3>3 DEF Live, Unsettled, InCall, Settling
      <4>. QED BY <1>0, <1>2, <3>1, <4>1, FreshSpares
    <3>. QED BY <3>1, <3>2, <3>3 DEF Vouching
  <2>. QED BY <2>1 DEF VouchedHere
<1>3. CASE k # Key(r)
  <2>1. \/ entries'[k] = Pruned[k]
        \/ Pruned[k].state = "completed" /\ entries'[k] = Absent
    BY <1>1, <1>3 DEF Evictions, CompletedKeys
  <2>2. \A s \in printed[k] : task'[s] = task[s]
    BY <1>s, <1>0, <1>3 DEF Counts, TypeOK, CupsTypeOK
  <2>. QED BY <1>0, <2>1, <2>2, ForgetHere
<1>. QED BY <1>2, <1>3

\* A step that prints nothing new leaves a key's jobs vouched for, if it changes
\* neither its entry nor the phases in which a task answers for its job.
LEMMA HereFrame ==
    ASSUME NEW k \in Keys, VouchedHere(k), UNCHANGED <<born, life>>,
           panicked \subseteq panicked', printed'[k] \subseteq printed[k],
           \A r \in printed'[k] \ panicked' :
              born[r] = life =>
                 /\ entries'[k] = entries[k]
                 /\ \/ task'[r].phase = task[r].phase
                    \/ task'[r].phase \in {"sent", "reconcile", "complete"}
                    \/ entries[k].state = "completed"
    PROVE  VouchedHere(k)'
  BY DEF VouchedHere, Vouching, OwnedBy

\* What a step of a request prints.
LEMMA ServesPrinted ==
    ASSUME Shape, NEW r \in Requests, Serves(r) \/ Panic(r)
    PROVE  /\ jobs \subseteq jobs'
           /\ \A k \in Keys :
                 \/ printed'[k] \subseteq printed[k]
                 \/ /\ CupsAccepts(r) /\ Key(r) = k /\ r \in jobs'
                    /\ printed'[k] = printed[k] \cup {r}
<1>s. printed \in [Keys -> SUBSET Requests]
  BY DEF Shape, TypeOK, CupsTypeOK
<1>1. CASE Decide(r)
  BY <1>1 DEF Decide, DecideFresh, DecideJoin, DecideReplay, DecideConflict, Forget
<1>2. CASE Wake(r) \/ TaskEnded(r) \/ WaitTimeout(r) \/ Leave(r) \/ Panic(r)
  BY <1>2 DEF Wake, TaskEnded, WaitTimeout, Leave, Panic
<1>3. CASE PrintJob(r)
  BY <1>3 DEF PrintJob, FindNextCall, StartPrintJob, RefuseLocally, FindUnanswered, CupsRefuses,
              PrintJobUnanswered, PrintJobAnswered, PrintJobGarbled, ReconcileFinds,
              ReconcileMisses, ReconcileFails, Succeed
<1>4. CASE Settle(r)
  BY <1>4 DEF Settle, CompleteKey, AbortKey, Notify, DropGuard
<1>5. CASE CupsAccepts(r)
  BY <1>s, <1>5 DEF CupsAccepts, AddJob
<1>. QED BY <1>1, <1>2, <1>3, <1>4, <1>5 DEF Serves, Handler, TaskStep

LEMMA PrintingHere ==
    ASSUME Held, LifeShape, Reconciles, NEW r \in Requests,
           PrintJob(r) \/ CupsAccepts(r) \/ (Panic(r) /\ r \in panicked'),
           UNCHANGED <<born, life>>, panicked \subseteq panicked',
           NEW k \in Keys, Counts(k), VouchedHere(k)
    PROVE  VouchedHere(k)'
<1>s. Shape /\ task \in [Requests -> Task] /\ printed \in [Keys -> SUBSET Requests] /\ ControlOK
  BY DEF Held, Shape, TypeOK, CupsTypeOK
<1>0. /\ UNCHANGED <<entries, req>> /\ \A s \in Requests \ {r} : task'[s] = task[s]
      /\ task[r].phase \in InCall \cup {"complete"}
  BY <1>s, PrintingPhases DEF Printing
<1>1. \A s \in printed[k] : Key(s) = k /\ s \in jobs
  BY DEF Counts
<1>2. CASE PrintJob(r)
  <2>1. UNCHANGED <<printed, jobs>>
    BY <1>2 DEF PrintJob, FindNextCall, StartPrintJob, RefuseLocally, FindUnanswered, CupsRefuses,
                PrintJobUnanswered, PrintJobAnswered, PrintJobGarbled, ReconcileFinds,
                ReconcileMisses, ReconcileFails, Succeed
  <2>2. ASSUME r \in printed[k] \ panicked, born[r] = life
        PROVE  task'[r].phase \in {"sent", "reconcile", "complete"}
    <3>1. Live(r) /\ Key(r) = k /\ r \in jobs /\ Keyed(r)
      BY <1>0, <1>1, <1>2, <2>2 DEF Live, Unsettled, Settling
    <3>2. task[r].phase \in {"sent", "reconcile", "complete"}
      BY <2>2, <3>1, SoleHere
    <3>3. PrintJobUnanswered(r) \/ PrintJobAnswered(r) \/ ReconcileFinds(r)
      BY <1>2, <3>1, <3>2
      DEF Reconciles, PrintJob, FindNextCall, StartPrintJob, RefuseLocally, FindUnanswered,
          CupsRefuses, PrintJobGarbled, ReconcileMisses, ReconcileFails
    <3>. QED BY <1>s, <3>1, <3>3
         DEF PrintJobUnanswered, PrintJobAnswered, ReconcileFinds, Unanswered, Call, Succeed,
             Goto, At
  <2>. QED BY <1>s, <1>0, <2>1, <2>2, HereFrame
<1>3. CASE Panic(r) /\ r \in panicked'
  <2>1. printed' = printed
    BY <1>3 DEF Panic
  <2>. QED BY <1>s, <1>0, <1>3, <2>1, HereFrame
<1>4. CASE CupsAccepts(r)
  <2>1. /\ task[r].phase = "send" /\ task'[r].phase = "sent"
        /\ AddJob(r) /\ r \notin panicked /\ born[r] = life
    BY <1>s, <1>4 DEF CupsAccepts, Task, LifeShape, Flying
  <2>2. CASE Key(r) = k
    <3>1. Live(r)
      BY <2>1, <2>2 DEF Live, Unsettled, InCall
    <3>2. \A s \in printed[k] \ panicked : born[s] # life
      BY <2>1, <2>2, <3>1, SoleHere
    <3>3. printed'[k] = printed[k] \cup {r}
      BY <1>s, <2>1, <2>2 DEF AddJob
    <3>4. OwnedBy(k, r)'
      BY <1>0, <2>2, <3>1, LiveHeld DEF OwnedBy
    <3>. QED BY <2>1, <3>2, <3>3, <3>4 DEF VouchedHere, Vouching
  <2>3. CASE Key(r) # k
    <3>1. printed'[k] = printed[k]
      BY <1>s, <2>1, <2>3 DEF AddJob
    <3>2. \A s \in printed[k] : task'[s] = task[s]
      BY <1>s, <1>0, <1>1, <2>3
    <3>. QED BY <1>0, <3>1, <3>2, HereFrame
  <2>. QED BY <2>2, <2>3
<1>. QED BY <1>2, <1>3, <1>4

LEMMA SettleHere ==
    ASSUME Held, LifeShape, NEW r \in Requests, Settle(r),
           UNCHANGED <<born, life, panicked>>,
           NEW k \in Keys, Counts(k), VouchedHere(k)
    PROVE  VouchedHere(k)'
<1>s. /\ Shape /\ StoreTypeOK /\ task \in [Requests -> Task] /\ ControlOK
      /\ printed \in [Keys -> SUBSET Requests]
  BY DEF Held, Shape, TypeOK, CupsTypeOK
<1>0. /\ UNCHANGED <<req, printed, jobs>> /\ \A s \in Requests \ {r} : task'[s] = task[s]
      /\ task[r].phase \in Settling \cup Closing
  BY <1>s DEF Settle, CompleteKey, AbortKey, Notify, DropGuard, Goto, Settling, Closing
<1>1. \A s \in printed[k] : Key(s) = k /\ s \in Requests
  BY <1>s DEF Counts
<1>2. CASE CompleteKey(r)
  <2>1. Keyed(r) /\ Live(r) /\ Complete(Key(r), Payload(r), r)
    BY <1>s, <1>2 DEF CompleteKey, ControlOK, Live, Unsettled, Settling
  <2>2. CASE Key(r) = k
    <3>1. \A s \in printed[k] \ panicked : born[s] = life => s = r
      BY <2>1, <2>2, SoleHere
    <3>2. entries'[k].state = "completed" /\ entries'[k].token = r
      BY <1>s, <2>1, <2>2 DEF Complete, Completed, StoreTypeOK
    <3>. QED BY <1>0, <3>1, <3>2 DEF VouchedHere, Vouching
  <2>3. CASE Key(r) # k
    <3>1. entries'[k] = entries[k]
      BY <1>s, <2>1, <2>3 DEF Complete, StoreTypeOK
    <3>. QED BY <1>0, <1>1, <2>3, <3>1, HereFrame
  <2>. QED BY <2>2, <2>3
<1>3. CASE AbortKey(r) \/ DropGuard(r)
  <2>1. Abort(Key(r), r) /\ task[r].phase \in {"abort", "drop"}
    BY <1>3 DEF AbortKey, DropGuard
  <2>2. ASSUME NEW s \in printed[k] \ panicked, born[s] = life
        PROVE  /\ entries'[k] = entries[k]
               /\ task'[s].phase = task[s].phase \/ entries[k].state = "completed"
    <3>1. Vouching(k, s) /\ s \in Requests
      BY <1>1, <2>2 DEF VouchedHere
    <3>2. ~OwnedBy(k, r)
      BY <2>1, <3>1 DEF Vouching, OwnedBy
    <3>3. entries'[k] = entries[k]
      BY <1>s, <2>1, <3>2 DEF Abort, StoreTypeOK
    <3>4. s = r => entries[k].state = "completed"
      BY <2>1, <3>1 DEF Vouching
    <3>. QED BY <1>0, <3>1, <3>3, <3>4
  <2>. QED BY <1>0, <2>2, HereFrame
<1>4. CASE Notify(r)
  <2>1. entries' = entries /\ task[r].phase = "notify"
    BY <1>4 DEF Notify
  <2>2. ASSUME NEW s \in printed[k] \ panicked, born[s] = life
        PROVE  task'[s].phase = task[s].phase \/ entries[k].state = "completed"
    BY <1>0, <1>1, <2>1, <2>2 DEF VouchedHere, Vouching
  <2>. QED BY <1>0, <2>1, <2>2, HereFrame
<1>. QED BY <1>2, <1>3, <1>4 DEF Settle

\* A step of a request or of the cleanup keeps the jobs of a key vouched for.
LEMMA RequestHere ==
    ASSUME Held, RetentionCoversWindow, LifeShape, Reconciles, NEW r \in Requests,
           \/ Serves(r) /\ panicked' = panicked
           \/ Panic(r) /\ panicked' = panicked \cup {r},
           UNCHANGED <<born, life>>,
           NEW k \in Keys, Counts(k), VouchedHere(k)
    PROVE  VouchedHere(k)'
<1>s. Shape /\ task \in [Requests -> Task]
  BY DEF Held, Shape, TypeOK
<1>p. CASE Panic(r) /\ panicked' = panicked \cup {r}
  BY <1>p, PrintingHere
<1>. SUFFICES ASSUME Serves(r), panicked' = panicked PROVE VouchedHere(k)'
  BY <1>p
<1>1. CASE PrintJob(r) \/ CupsAccepts(r)
  BY <1>1, PrintingHere
<1>2. CASE Settle(r)
  BY <1>2, SettleHere
<1>3. CASE DecideFresh(r)
  BY <1>3, FreshHere
<1>4. CASE DecideJoin(r) \/ DecideReplay(r) \/ DecideConflict(r)
  <2>1. Prune /\ Forget /\ UNCHANGED <<req, jobs, task>>
    BY <1>4 DEF DecideJoin, DecideReplay, DecideConflict, BeginJoin, BeginReplay, BeginConflict
  <2>. QED BY <1>4, <2>1, ForgetHere DEF Prune
<1>5. CASE Wake(r) \/ TaskEnded(r) \/ WaitTimeout(r) \/ Leave(r)
  <2>1. UNCHANGED <<entries, printed, task>>
    BY <1>5 DEF Wake, TaskEnded, WaitTimeout, Leave
  <2>. QED BY <2>1, HereFrame
<1>. QED BY <1>1, <1>2, <1>3, <1>4, <1>5 DEF Serves, Handler, Decide, TaskStep

\* Neither a job nor a document of this life comes in twice for a key.
LEMMA RequestCounts ==
    ASSUME Held, LifeShape, OneEach, Running, Reconciles, NEW r \in Requests,
           Serves(r) \/ Panic(r),
           UNCHANGED <<born, life>>, panicked \subseteq panicked',
           NEW k \in Keys
    PROVE  Counts(k)'
<1>s. Shape
  BY DEF Held
<1>1. UNCHANGED <<req, late>> /\ jobs \subseteq jobs'
  BY <1>s, ServesFrame, ServesCups, ServesPrinted
<1>2. Counts(k)
  BY DEF OneEach
<1>3. CASE printed'[k] \subseteq printed[k]
  <2>1. Counted(k)' \subseteq Counted(k)
    BY <1>1, <1>3 DEF Counted
  <2>. QED BY <1>1, <1>2, <1>3, <2>1 DEF Counts
<1>4. CASE CupsAccepts(r) /\ Key(r) = k /\ r \in jobs' /\ printed'[k] = printed[k] \cup {r}
  <2>1. Live(r) /\ task[r].phase = "send" /\ born[r] = life
    BY <1>4 DEF CupsAccepts, Live, Unsettled, InCall, LifeShape, Flying
  <2>2. Counted(k)' \subseteq Counted(k) \cup {r}
    BY <1>1, <1>4 DEF Counted
  <2>3. \A s \in Counted(k) : born[s] # life
    <3>1. ASSUME NEW s \in printed[k] \ panicked, born[s] = life PROVE FALSE
      BY <1>4, <2>1, <3>1, SoleHere DEF OneEach
    <3>. QED BY <3>1 DEF Counted, OneEach
  <2>4. \A a, b \in Counted(k)' : born'[a] = born'[b] => a = b
    BY <1>2, <2>1, <2>2, <2>3 DEF Counts
  <2>. QED BY <1>1, <1>2, <1>4, <2>4 DEF Counts
<1>. QED BY <1>s, <1>3, <1>4, ServesPrinted

\* The end of the process: a document CUPS still reads is of a task that was
\* sending, and its key has printed nothing else in this life.
LEMMA EndCounts ==
    ASSUME Held, LifeShape, OneEach, Running, NEW how \in Ended, End(how), NEW k \in Keys
    PROVE  Counts(k)'
<1>1. PICK S \in SUBSET {r \in Requests : Lost(r)} : late' = late \cup S
  BY DEF End
<1>2. UNCHANGED <<req, jobs, printed, born, life, panicked>>
  BY DEF End
<1>3. Counts(k)
  BY DEF OneEach
<1>4. ASSUME NEW r \in S, Key(r) = k
      PROVE  Live(r) /\ born[r] = life
             /\ \A s \in Counted(k) : born[s] # life
  <2>1. r \in Requests /\ task[r].phase = "send"
    BY <1>4 DEF Lost
  <2>2. Live(r) /\ born[r] = life
    BY <1>4, <2>1 DEF Live, Unsettled, InCall, LifeShape, Flying
  <2>3. ASSUME NEW s \in printed[k] \ panicked, born[s] = life PROVE FALSE
    BY <1>4, <2>1, <2>2, <2>3, SoleHere DEF OneEach
  <2>. QED BY <2>2, <2>3 DEF Counted, OneEach
<1>5. ASSUME NEW a \in Counted(k)', NEW b \in Counted(k)', born[a] = born[b] PROVE a = b
  <2>1. /\ a \in Counted(k) \/ (a \in S /\ Key(a) = k)
        /\ b \in Counted(k) \/ (b \in S /\ Key(b) = k)
    BY <1>1, <1>2 DEF Counted
  <2>2. CASE a \in S /\ b \in S /\ Key(a) = k /\ Key(b) = k
    BY <1>4, <2>2, LiveAlone
  <2>. QED BY <1>3, <1>4, <1>5, <2>1, <2>2 DEF Counts
<1>. QED BY <1>2, <1>3, <1>5 DEF Counts

\* Every unsettled task owns its key's entry, through every end and restart.
LEMMA LifeHeldStep ==
    ASSUME Held, LifeShape, RetentionCoversWindow, [LifeNext]_allVars
    PROVE  Held'
<1>1. CASE [Next]_vars
  BY <1>1, NextHeld
<1>2. ASSUME Shape', \A r \in Requests : ~Flying(r)' PROVE Held'
  BY <1>2 DEF Held, LiveOwns, EntryYoung, Live, Unsettled, Flying, InCall, Settling
<1>3. CASE Drained \/ DrainTimesOut \/ Kill \/ Crash
  <2>1. PICK how \in Ended : End(how)
    BY <1>3, Endings
  <2>. QED BY <1>2, <2>1, EndFacts DEF Held
<1>4. CASE Restart
  <2>1. Shape' /\ (\A r \in Requests : ~Flying(r)) /\ task' = task
    BY <1>4, RestartFacts DEF Held, Restart
  <2>. QED BY <1>2, <2>1 DEF Flying
<1>5. ASSUME NEW r \in Requests,
             \/ \E d \in Demands : Accept(r, d)
             \/ Work(r) \/ Surroundings(r) \/ TaskPanics(r) \/ CupsReads(r)
      PROVE  Next
  BY <1>5 DEF Accept, Work, Surroundings, TaskPanics, CupsReads, Next, Environment
<1>6. CASE Cleanup \/ Terminate \/ HttpDrained \/ Pass \/ UNCHANGED allVars
  BY <1>1, <1>6 DEF Cleanup, Terminate, HttpDrained, Pass, Next, allVars, vars
<1>. QED BY <1>1, <1>3, <1>4, <1>5, <1>6 DEF LifeNext

LEMMA OneEachStep ==
    ASSUME Held, LifeShape, Asked, OneEach, RetentionCoversWindow, Reconciles,
           [LifeNext]_allVars
    PROVE  OneEach'
<1>s. /\ Shape /\ task \in [Requests -> Task] /\ ControlOK
      /\ jobs \subseteq Requests /\ late \subseteq Requests
      /\ printed \in [Keys -> SUBSET Requests]
      /\ req \in [Requests -> [key : Keys \cup {NoKey}, payload : Payloads \cup {None}]]
      /\ life \in Nat /\ born \in [Requests -> 0..Lives]
  BY LifeNumbers DEF Held, Shape, TypeOK, HandlerTypeOK, CupsTypeOK, LifeShape, LifeTypeOK
\* A step that prints nothing and changes no entry.
<1>u. ASSUME UNCHANGED <<entries, req, jobs, late, printed, life, born, panicked>>,
             Running' => Running,
             \A r \in Requests : task'[r].phase = task[r].phase
      PROVE  OneEach'
  <2>1. ASSUME NEW k \in Keys PROVE Counts(k)'
    BY <1>u DEF OneEach, Counts, Counted
  <2>2. ASSUME Running', NEW k \in Keys PROVE VouchedHere(k)'
    <3>1. VouchedHere(k) /\ printed[k] \subseteq Requests
      BY <1>s, <1>u, <2>2 DEF OneEach
    <3>. QED BY <1>u, <3>1 DEF VouchedHere, Vouching, OwnedBy
  <2>3. Running' => \A r \in late' : born'[r] # life'
    BY <1>u DEF OneEach
  <2>. QED BY <2>1, <2>2, <2>3 DEF OneEach
<1>1. ASSUME NEW r \in Requests, NEW d \in Demands, Accept(r, d) PROVE OneEach'
  <2>1. /\ Running /\ Running' /\ r \notin jobs \cup late
        /\ UNCHANGED <<entries, jobs, late, printed, life, panicked>>
        /\ \A s \in Requests \ {r} : req'[s] = req[s] /\ born'[s] = born[s] /\ task'[s] = task[s]
    BY <1>s, <1>1 DEF Accept, Arrive, Asked, Running, Ended
  <2>2. \A s \in jobs \cup late : req'[s] = req[s] /\ born'[s] = born[s] /\ task'[s] = task[s]
    BY <1>s, <2>1
  <2>3. ASSUME NEW k \in Keys PROVE Counts(k)' /\ VouchedHere(k)'
    <3>1. Counts(k) /\ VouchedHere(k)
      BY <2>1 DEF OneEach
    <3>2. \A s \in printed[k] : s \in jobs
      BY <3>1 DEF Counts
    <3>3. Counted(k)' \subseteq Counted(k)
      BY <1>s, <2>1, <2>2, <3>2 DEF Counted
    <3>4. \A s \in Counted(k) : s \in jobs \cup late
      BY <3>2 DEF Counted
    <3>5. Counts(k)'
      BY <2>1, <2>2, <3>1, <3>2, <3>3, <3>4 DEF Counts
    <3>6. VouchedHere(k)'
      BY <2>1, <2>2, <3>1, <3>2 DEF VouchedHere, Vouching, OwnedBy
    <3>. QED BY <3>5, <3>6
  <2>4. \A s \in late' : born'[s] # life'
    BY <2>1, <2>2 DEF OneEach
  <2>. QED BY <2>3, <2>4 DEF OneEach
<1>2. ASSUME NEW r \in Requests, Work(r) \/ Surroundings(r) \/ TaskPanics(r) PROVE OneEach'
  <2>1. /\ Running /\ UNCHANGED <<phase, life, born>> /\ (Serves(r) \/ Panic(r))
        /\ panicked \subseteq panicked'
    BY <1>2 DEF Work, Surroundings, TaskPanics, Serves, lifeVars
  <2>2. ASSUME NEW k \in Keys PROVE Counts(k)'
    BY <2>1, RequestCounts
  <2>3. ASSUME NEW k \in Keys PROVE VouchedHere(k)'
    <3>0. Counts(k) /\ VouchedHere(k)
      BY <2>1 DEF OneEach
    <3>1. CASE TaskPanics(r)
      <4>1. Panic(r) /\ panicked' = panicked \cup {r}
        BY <3>1 DEF TaskPanics
      <4>. QED BY <2>1, <3>0, <4>1, RequestHere
    <3>2. CASE Work(r) \/ Surroundings(r)
      <4>1. Serves(r) /\ panicked' = panicked
        BY <3>2 DEF Work, Surroundings, Serves, lifeVars
      <4>. QED BY <2>1, <3>0, <4>1, RequestHere
    <3>. QED BY <1>2, <3>1, <3>2
  <2>4. \A s \in late' : born'[s] # life'
    BY <1>s, <2>1, ServesCups DEF OneEach
  <2>. QED BY <2>2, <2>3, <2>4 DEF OneEach
<1>3. ASSUME NEW r \in Requests, CupsReads(r) PROVE OneEach'
  <2>1. /\ r \in late /\ late' = late \ {r} /\ AddJob(r)
        /\ UNCHANGED <<entries, req, task, phase, life, born, panicked>>
    BY <1>3 DEF CupsReads, LateAccept, lifeVars
  <2>2. jobs \subseteq jobs' /\ r \in jobs'
    BY <2>1 DEF AddJob
  <2>3. ASSUME NEW k \in Keys PROVE /\ printed'[k] \subseteq printed[k] \cup {r}
                                    /\ r \in printed'[k] => r \in printed[k] \/ Key(r) = k
    BY <1>s, <2>1 DEF AddJob
  <2>4. ASSUME NEW k \in Keys PROVE Counts(k)'
    <3>1. Counts(k)
      BY DEF OneEach
    <3>2. Counted(k)' \subseteq Counted(k)
      BY <2>1, <2>3 DEF Counted
    <3>. QED BY <2>1, <2>2, <2>3, <3>1, <3>2 DEF Counts
  <2>5. Running => /\ \A s \in late' : born'[s] # life'
                   /\ \A k \in Keys : VouchedHere(k)'
    BY <2>1, <2>3 DEF OneEach, VouchedHere, Vouching, OwnedBy
  <2>. QED BY <2>1, <2>4, <2>5 DEF OneEach, Running
<1>4. CASE Cleanup
  <2>1. /\ Running /\ Prune /\ Forget
        /\ UNCHANGED <<req, task, jobs, late, phase, life, born, panicked>>
    BY <1>4 DEF Cleanup, CleanupPrune, lifeVars
  <2>2. ASSUME NEW k \in Keys PROVE Counts(k)' /\ VouchedHere(k)'
    <3>1. Counts(k) /\ VouchedHere(k)
      BY <2>1 DEF OneEach
    <3>2. VouchedHere(k)'
      BY <2>1, <3>1, ForgetHere DEF Prune
    <3>3. printed'[k] \subseteq printed[k]
      BY <2>1 DEF Forget
    <3>4. Counted(k)' \subseteq Counted(k)
      BY <2>1, <3>3 DEF Counted
    <3>. QED BY <2>1, <3>1, <3>2, <3>3, <3>4 DEF Counts
  <2>. QED BY <2>1, <2>2 DEF OneEach
<1>5. CASE Terminate \/ HttpDrained \/ UNCHANGED allVars
  <2>1. UNCHANGED vars /\ UNCHANGED <<life, born, panicked>> /\ (Running' => Running)
    BY <1>5 DEF Terminate, HttpDrained, allVars, lifeVars, Running, Ended
  <2>. QED BY <1>u, <2>1 DEF vars
<1>6. CASE Drained \/ DrainTimesOut \/ Kill \/ Crash
  <2>1. Running
    BY <1>6, Endings
  <2>2. PICK how \in Ended : End(how)
    BY <1>6, Endings
  <2>3. ~Running'
    BY <2>2 DEF End, Running, Ended
  <2>4. \A k \in Keys : Counts(k)'
    BY <2>1, <2>2, EndCounts
  <2>. QED BY <2>3, <2>4 DEF OneEach
<1>7. CASE Restart
  <2>1. life' = life + 1 /\ UNCHANGED <<req, jobs, late, printed, born, panicked>>
    BY <1>7 DEF Restart
  <2>2. \A r \in Requests : born[r] # life + 1
    BY <1>s, LifeNumbers DEF LifeShape
  <2>3. ASSUME NEW k \in Keys PROVE Counts(k)' /\ VouchedHere(k)'
    <3>1. Counts(k)'
      BY <2>1 DEF OneEach, Counts, Counted
    <3>2. VouchedHere(k)'
      BY <1>s, <2>1, <2>2 DEF VouchedHere
    <3>. QED BY <3>1, <3>2
  <2>. QED BY <1>s, <2>1, <2>2, <2>3 DEF OneEach
<1>8. CASE Pass
  <2>1. /\ UNCHANGED <<req, jobs, late, printed, phase, life, born, panicked>> /\ Running
        /\ \A r \in Requests : task'[r].phase = task[r].phase
        /\ entries' = [k \in Keys |-> Older(entries[k])]
    BY <1>s, <1>8, PassFacts DEF Tick
  <2>2. ASSUME NEW k \in Keys PROVE Counts(k)' /\ VouchedHere(k)'
    <3>1. Counts(k) /\ VouchedHere(k) /\ printed[k] \subseteq Requests /\ entries[k] \in Entry
      BY <1>s, <2>1 DEF OneEach, Shape, TypeOK, StoreTypeOK
    <3>2. entries'[k].state = entries[k].state /\ entries'[k].token = entries[k].token
      BY <2>1, <3>1, OlderType
    <3>3. Counts(k)'
      BY <2>1, <3>1 DEF Counts, Counted
    <3>4. VouchedHere(k)'
      BY <2>1, <3>1, <3>2 DEF VouchedHere, Vouching, OwnedBy
    <3>. QED BY <3>3, <3>4
  <2>3. \A r \in late' : born'[r] # life'
    BY <2>1 DEF OneEach
  <2>. QED BY <2>2, <2>3 DEF OneEach
<1>. QED BY <1>1, <1>2, <1>3, <1>4, <1>5, <1>6, <1>7, <1>8 DEF LifeNext

\* Within one life a key prints once per retention period, whatever client or
\* process gives up (src/idempotency.rs, the shutdown of src/main.rs): the next
\* life, which has forgotten the keys, is the only way to another job.
THEOREM OneJobPerLifeCorrect ==
    RetentionCoversWindow /\ Reconciles => (LifeSpec => []OneJobPerLife)
<1>. SUFFICES ASSUME RetentionCoversWindow, Reconciles PROVE LifeSpec => []OneJobPerLife
  OBVIOUS
<1>1. LifeInit => Held /\ Asked /\ OneEach
  <2>1. LifeInit => Held
    BY InitHeld DEF LifeInit
  <2>2. LifeInit => Asked /\ OneEach
    BY DEF LifeInit, Init, Asked, OneEach, Counts, Counted, VouchedHere
  <2>. QED BY <2>1, <2>2
<1>2. Shape /\ LifeShape /\ Held /\ Asked /\ OneEach /\ [LifeNext]_allVars
      => Held' /\ Asked' /\ OneEach'
  BY LifeHeldStep, AskedStep, OneEachStep
<1>3. Held /\ OneEach => OneJobPerLife
  BY DEF OneEach, Counts, Counted, OneJobPerLife
<1>. QED BY <1>1, <1>2, <1>3, LifeShapeCorrect, PTL DEF LifeSpec

-----------------------------------------------------------------------------
(* Every life is a submission path of its own.                             *)

Unasked == [key |-> NoKey, payload |-> None]

\* A request that has not come yet has left no trace, in CUPS or in the process.
Untouched(r) ==
    http[r] = "idle" =>
        /\ req[r] = Unasked /\ joined[r] = None /\ reply[r] = NoReply /\ task[r] = NoTask
        /\ r \notin jobs \cup late
        /\ \A k \in Keys : r \notin printed[k]

\* A step that one request or its task takes.
Steps(r) == Serves(r) \/ Panic(r) \/ LateAccept(r) \/ \E d \in Demands : Arrive(r, d)

\* Such a step leaves the other requests alone, in the process and in CUPS.
LEMMA StepsAlone ==
    ASSUME Shape, NEW r \in Requests, Steps(r)
    PROVE  /\ \A s \in Requests \ {r} : /\ req'[s] = req[s] /\ http'[s] = http[s]
                                        /\ joined'[s] = joined[s] /\ reply'[s] = reply[s]
                                        /\ task'[s] = task[s]
           /\ jobs' \subseteq jobs \cup {r} /\ late' \subseteq late \cup {r}
           /\ \A k \in Keys : printed'[k] \subseteq printed[k] \cup {r}
<1>s. /\ task \in [Requests -> Task] /\ http \in [Requests -> {"idle", "closed"} \cup Waiting]
      /\ joined \in [Requests -> Requests \cup {None}]
      /\ reply \in [Requests -> [kind : ReplyKinds, job : Requests \cup {None}]]
      /\ req \in [Requests -> [key : Keys \cup {NoKey}, payload : Payloads \cup {None}]]
      /\ printed \in [Keys -> SUBSET Requests]
  BY DEF Shape, TypeOK, HandlerTypeOK, CupsTypeOK
<1>1. ASSUME NEW d \in Demands, Arrive(r, d) PROVE UNCHANGED <<joined, reply, jobs, late, printed>>
      /\ \A s \in Requests \ {r} : req'[s] = req[s] /\ http'[s] = http[s] /\ task'[s] = task[s]
  BY <1>s, <1>1 DEF Arrive
<1>2. CASE Decide(r)
  <2>1. /\ UNCHANGED <<req, jobs, late>> /\ Forget
        /\ \A s \in Requests \ {r} : /\ http'[s] = http[s]
                                     /\ joined'[s] = joined[s] /\ reply'[s] = reply[s]
                                     /\ task'[s] = task[s]
    BY <1>s, <1>2 DEF Decide, DecideFresh, DecideJoin, DecideReplay, DecideConflict, Answer
  <2>. QED BY <2>1 DEF Forget
<1>3. CASE Wake(r) \/ TaskEnded(r) \/ WaitTimeout(r) \/ Leave(r)
  <2>1. /\ UNCHANGED <<req, jobs, late, task, printed>>
        /\ \A s \in Requests \ {r} : /\ http'[s] = http[s]
                                     /\ joined'[s] = joined[s] /\ reply'[s] = reply[s]
    BY <1>s, <1>3 DEF Wake, TaskEnded, WaitTimeout, Leave, Answer
  <2>. QED BY <2>1
<1>4. CASE Printing(r) \/ LateAccept(r)
  <2>1. UNCHANGED handlerVars
    BY <1>4, PrintingPhases DEF LateAccept
  <2>2. \A s \in Requests \ {r} : task'[s] = task[s]
    BY <1>4, PrintingPhases DEF LateAccept
  <2>3. late' \subseteq late \cup {r}
    BY <1>4 DEF Printing, PrintJob, FindNextCall, StartPrintJob, RefuseLocally, FindUnanswered,
                CupsRefuses, PrintJobUnanswered, PrintJobAnswered, PrintJobGarbled,
                ReconcileFinds, ReconcileMisses, ReconcileFails, Panic, CupsAccepts, LateAccept
  <2>4. UNCHANGED <<jobs, printed>> \/ AddJob(r)
    BY <1>4 DEF Printing, PrintJob, FindNextCall, StartPrintJob, RefuseLocally, FindUnanswered,
                CupsRefuses, PrintJobUnanswered, PrintJobAnswered, PrintJobGarbled,
                ReconcileFinds, ReconcileMisses, ReconcileFails, Panic, CupsAccepts, LateAccept
  <2>5. /\ jobs' \subseteq jobs \cup {r}
        /\ \A k \in Keys : printed'[k] \subseteq printed[k] \cup {r}
    BY <1>s, <2>4 DEF AddJob
  <2>. QED BY <2>1, <2>2, <2>3, <2>5
<1>5. CASE Settle(r)
  BY <1>s, <1>5 DEF Settle, CompleteKey, AbortKey, Notify, DropGuard, Goto
<1>. QED BY <1>1, <1>2, <1>3, <1>4, <1>5 DEF Steps, Serves, Handler, TaskStep, Printing

\* ... and is taken by a request that has come.
LEMMA StepsCome ==
    ASSUME Shape, NEW r \in Requests, Untouched(r), Steps(r)
    PROVE  http'[r] # "idle" /\ (Serves(r) \/ Panic(r) \/ LateAccept(r) => http[r] # "idle")
<1>s. ControlOK /\ http \in [Requests -> {"idle", "closed"} \cup Waiting]
  BY DEF Shape, TypeOK, HandlerTypeOK
<1>1. ASSUME NEW d \in Demands, Arrive(r, d) PROVE http'[r] # "idle"
  BY <1>s, <1>1 DEF Arrive
<1>2. CASE LateAccept(r)
  BY <1>2 DEF LateAccept, Untouched
<1>3. CASE Serves(r) \/ Panic(r)
  <2>1. http[r] # "idle"
    <3>1. CASE Printing(r)
      BY <1>s, <3>1, PrintingPhases DEF ControlOK, InCall
    <3>2. CASE Settle(r)
      BY <1>s, <3>2 DEF ControlOK, Settle, CompleteKey, AbortKey, Notify, DropGuard
    <3>3. CASE Handler(r) \/ WaitTimeout(r) \/ Leave(r)
      BY <3>3 DEF Handler, Decide, DecideFresh, DecideJoin, DecideReplay, DecideConflict, Wake,
                  TaskEnded, WaitTimeout, Leave, Waiting
    <3>. QED BY <1>3, <3>1, <3>2, <3>3 DEF Serves, TaskStep, Printing
  <2>. QED BY <1>3, <2>1, ServesFrame
<1>. QED BY <1>1, <1>2, <1>3 DEF Steps

\* What each step of a life is, seen from the requests.
LEMMA LifeSteps ==
    ASSUME [LifeNext]_allVars
    PROVE  \/ \E r \in Requests : /\ Steps(r)
                                  /\ UNCHANGED <<phase, life>>
                                  /\ \/ \E d \in Demands : Accept(r, d)
                                     \/ /\ born' = born
                                        /\ \/ Running /\ (Serves(r) \/ Panic(r))
                                           \/ LateAccept(r)
           \/ Cleanup \/ Pass
           \/ UNCHANGED <<vars, born, life>> /\ (Terminate \/ HttpDrained \/ UNCHANGED allVars)
           \/ Running /\ \E how \in Ended : End(how)
           \/ Restart
<1>1. ASSUME NEW r \in Requests, NEW d \in Demands, Accept(r, d)
      PROVE  Steps(r) /\ UNCHANGED <<phase, life>>
  BY <1>1 DEF Accept, Steps
<1>2. ASSUME NEW r \in Requests,
             Work(r) \/ Surroundings(r) \/ TaskPanics(r) \/ CupsReads(r)
      PROVE  /\ (Running /\ (Serves(r) \/ Panic(r))) \/ LateAccept(r)
             /\ Steps(r)
             /\ UNCHANGED <<phase, life, born>>
  BY <1>2 DEF Work, Surroundings, TaskPanics, CupsReads, Serves, Steps, lifeVars
<1>3. CASE Drained \/ DrainTimesOut \/ Kill \/ Crash
  BY <1>3, Endings
<1>4. CASE Terminate \/ HttpDrained \/ UNCHANGED allVars
  BY <1>4 DEF Terminate, HttpDrained, allVars, lifeVars
<1>. QED BY <1>1, <1>2, <1>3, <1>4 DEF LifeNext

LEMMA UntouchedStep ==
    ASSUME Shape, LifeShape, \A r \in Requests : Untouched(r), [LifeNext]_allVars
    PROVE  \A r \in Requests : Untouched(r)'
<1>1. ASSUME NEW r \in Requests, Steps(r), NEW s \in Requests PROVE Untouched(s)'
  <2>1. CASE s = r
    BY <1>1, <2>1, StepsCome DEF Untouched
  <2>2. CASE s # r
    <3>1. /\ req'[s] = req[s] /\ http'[s] = http[s]
          /\ joined'[s] = joined[s] /\ reply'[s] = reply[s] /\ task'[s] = task[s]
          /\ jobs' \subseteq jobs \cup {r} /\ late' \subseteq late \cup {r}
          /\ \A k \in Keys : printed'[k] \subseteq printed[k] \cup {r}
      BY <1>1, <2>2, StepsAlone
    <3>2. Untouched(s)
      OBVIOUS
    <3>. QED BY <2>2, <3>1, <3>2 DEF Untouched
  <2>. QED BY <2>1, <2>2
\* Time, the cleanup loop and the end of the process come near none of them.
<1>2. ASSUME UNCHANGED <<req, jobs>>, \A k \in Keys : printed'[k] \subseteq printed[k],
             NEW s \in Requests,
             http'[s] = "idle" => /\ http[s] = "idle" /\ joined'[s] \in {joined[s], None}
                                  /\ reply'[s] = reply[s] /\ task'[s] = task[s]
                                  /\ s \in late' => s \in late
      PROVE  Untouched(s)'
  <2>1. Untouched(s)
    OBVIOUS
  <2>. QED BY <1>2, <2>1 DEF Untouched
<1>3. CASE Cleanup
  <2>1. UNCHANGED <<req, http, joined, reply, task, jobs, late>> /\ Forget
    BY <1>3 DEF Cleanup, CleanupPrune
  <2>2. \A k \in Keys : printed'[k] \subseteq printed[k]
    BY <2>1 DEF Forget
  <2>. QED BY <1>2, <2>1, <2>2
<1>4. CASE Pass
  <2>1. UNCHANGED <<req, http, joined, reply, jobs, late, printed>>
    BY <1>4, PassFacts
  <2>2. ASSUME NEW s \in Requests, http[s] = "idle" PROVE task'[s] = task[s]
    <3>1. task'[s] = IF task[s].phase \in InCall THEN [task[s] EXCEPT !.elapsed = @ + 1] ELSE task[s]
      BY <1>4 DEF Pass, Tick
    <3>2. task[s].phase = "none"
      BY <2>2 DEF Shape, ControlOK
    <3>. QED BY <3>1, <3>2 DEF InCall
  <2>. QED BY <1>2, <2>1, <2>2
<1>5. CASE UNCHANGED vars
  BY <1>2, <1>5 DEF vars
<1>6. ASSUME NEW how \in Ended, End(how), NEW s \in Requests PROVE Untouched(s)'
  <2>1. /\ UNCHANGED <<req, jobs, printed>>
        /\ http'[s] = "idle" => http[s] = "idle"
        /\ joined'[s] = None
        /\ http[s] = "idle" => reply'[s] = reply[s]
    BY <1>6 DEF End, Waiting
  <2>2. http[s] = "idle" => ~Flying(s) /\ s \notin {r \in Requests : Lost(r)}
    BY DEF Shape, ControlOK, Flying, Lost
  <2>3. \E S \in SUBSET {r \in Requests : Lost(r)} : late' = late \cup S
    BY <1>6, EndFacts
  <2>4. http[s] = "idle" => task'[s] = task[s] /\ (s \in late' => s \in late)
    BY <1>6, <2>2, <2>3, EndFacts
  <2>. QED BY <1>2, <2>1, <2>4
<1>7. CASE Restart
  BY <1>2, <1>7 DEF Restart
<1>. QED BY <1>1, <1>3, <1>4, <1>5, <1>6, <1>7, LifeSteps

\* The store of a life is the store.
LEMMA SameStore ==
    ASSUME NEW k, NEW p, NEW t
    PROVE  /\ Path!Prune <=> Prune
           /\ Path!Pruned = Pruned /\ (Path!Expired(k) <=> Expired(k))
           /\ Path!BeginFresh(k, p, t) <=> BeginFresh(k, p, t)
           /\ Path!BeginJoin(k, p) <=> BeginJoin(k, p)
           /\ Path!BeginReplay(k, p) <=> BeginReplay(k, p)
           /\ Path!BeginConflict(k, p) <=> BeginConflict(k, p)
<1>1. Path!Pruned = Pruned /\ (Path!Expired(k) <=> Expired(k))
  BY DEF Pruned, Expired, Absent, Path!Pruned, Path!Expired, Path!Absent
<1>2. Path!PrunedSignals = PrunedSignals
  BY DEF PrunedSignals, Expired, Dropped, Path!PrunedSignals, Path!Expired, Path!Dropped
<1>3. Path!Evictions(Pruned) = Evictions(Pruned)
  <2>1. ASSUME NEW S PROVE Path!Cardinality(S) = Cardinality(S)
    BY DEF Cardinality, Path!Cardinality
  <2>2. /\ Path!CompletedKeys(Pruned) = CompletedKeys(Pruned)
        /\ Path!Surplus(Pruned) = Surplus(Pruned)
    BY <2>1 DEF CompletedKeys, Surplus, Path!CompletedKeys, Path!Surplus
  <2>. QED BY <2>1, <2>2 DEF Evictions, Path!Evictions
<1>4. Path!Prune <=> Prune
  BY <1>1, <1>2 DEF Prune, Path!Prune
<1>5. Path!BeginFresh(k, p, t) <=> BeginFresh(k, p, t)
  BY <1>1, <1>2, <1>3 DEF BeginFresh, InProgress, Absent, Pending,
                          Path!BeginFresh, Path!InProgress, Path!Absent, Path!Pending
<1>. QED
  BY <1>1, <1>4, <1>5 DEF BeginJoin, BeginReplay, BeginConflict,
                          Path!BeginJoin, Path!BeginReplay, Path!BeginConflict

USE DEF Path!Key, Path!Keyed, Path!Payload, Path!handlerVars, Path!cupsVars, Path!storeVars

\* A life looks at its own requests as they are, and sees them do what they do.
LEMMA MyStep ==
    ASSUME Shape, NEW r \in Ours, UNCHANGED Ours, Steps(r)
    PROVE  /\ r \in Requests /\ Ours \subseteq Requests
           /\ OnlyOf(Ours, req, [key |-> NoKey, payload |-> None])[r] = req[r]
           /\ OnlyOf(Ours, http, "idle")[r] = http[r]
           /\ OnlyOf(Ours, joined, None)[r] = joined[r]
           /\ OnlyOf(Ours, reply, NoReply)[r] = reply[r]
           /\ OnlyOf(Ours, task, NoTask)[r] = task[r]
           /\ OnlyOf(Ours, req, [key |-> NoKey, payload |-> None])'
              = [OnlyOf(Ours, req, [key |-> NoKey, payload |-> None]) EXCEPT ![r] = req'[r]]
           /\ OnlyOf(Ours, http, "idle")' = [OnlyOf(Ours, http, "idle") EXCEPT ![r] = http'[r]]
           /\ OnlyOf(Ours, joined, None)' = [OnlyOf(Ours, joined, None) EXCEPT ![r] = joined'[r]]
           /\ OnlyOf(Ours, reply, NoReply)' = [OnlyOf(Ours, reply, NoReply) EXCEPT ![r] = reply'[r]]
           /\ OnlyOf(Ours, task, NoTask)' = [OnlyOf(Ours, task, NoTask) EXCEPT ![r] = task'[r]]
           /\ NoTask' = NoTask /\ NoReply' = NoReply
<1>1. r \in Requests /\ Ours \in SUBSET Requests
  BY DEF Ours
<1>2. \A s \in Requests \ {r} : /\ req'[s] = req[s] /\ http'[s] = http[s]
                                /\ joined'[s] = joined[s] /\ reply'[s] = reply[s]
                                /\ task'[s] = task[s]
  BY <1>1, StepsAlone
<1>3. NoTask' = NoTask /\ NoReply' = NoReply
  BY DEF NoTask, NoReply, At
<1>4. /\ OnlyOf(Ours, req, [key |-> NoKey, payload |-> None])[r] = req[r]
      /\ OnlyOf(Ours, http, "idle")[r] = http[r]
      /\ OnlyOf(Ours, joined, None)[r] = joined[r]
      /\ OnlyOf(Ours, reply, NoReply)[r] = reply[r]
      /\ OnlyOf(Ours, task, NoTask)[r] = task[r]
  BY <1>1 DEF OnlyOf
<1>5. OnlyOf(Ours, req, [key |-> NoKey, payload |-> None])'
      = [OnlyOf(Ours, req, [key |-> NoKey, payload |-> None]) EXCEPT ![r] = req'[r]]
  BY <1>1, <1>2 DEF OnlyOf
<1>6. OnlyOf(Ours, http, "idle")' = [OnlyOf(Ours, http, "idle") EXCEPT ![r] = http'[r]]
  BY <1>1, <1>2 DEF OnlyOf
<1>7. OnlyOf(Ours, joined, None)' = [OnlyOf(Ours, joined, None) EXCEPT ![r] = joined'[r]]
  BY <1>1, <1>2 DEF OnlyOf
<1>8. OnlyOf(Ours, reply, NoReply)' = [OnlyOf(Ours, reply, NoReply) EXCEPT ![r] = reply'[r]]
  BY <1>1, <1>2, <1>3 DEF OnlyOf
<1>9. OnlyOf(Ours, task, NoTask)' = [OnlyOf(Ours, task, NoTask) EXCEPT ![r] = task'[r]]
  BY <1>1, <1>2, <1>3 DEF OnlyOf
<1>. QED BY <1>1, <1>3, <1>4, <1>5, <1>6, <1>7, <1>8, <1>9

LEMMA MyForget ==
    ASSUME UNCHANGED Ours, Forget
    PROVE  Path!Forget
BY DEF Forget, Path!Forget, Expired, Path!Expired

LEMMA MyAnswer ==
    ASSUME Shape, NEW r \in Ours, UNCHANGED Ours, Steps(r), NEW a, Answer(r, a)
    PROVE  Path!Answer(r, a)
<1>s. /\ http \in [Requests -> {"idle", "closed"} \cup Waiting]
      /\ joined \in [Requests -> Requests \cup {None}]
      /\ reply \in [Requests -> [kind : ReplyKinds, job : Requests \cup {None}]]
  BY DEF Shape, TypeOK, HandlerTypeOK
<1>1. http'[r] = "closed" /\ joined'[r] = None /\ reply'[r] = a
  BY <1>s, MyStep DEF Answer
<1>. QED BY <1>1, MyStep DEF Path!Answer

LEMMA MyDecide ==
    ASSUME Shape, NEW r \in Ours, UNCHANGED Ours, Decide(r)
    PROVE  Path!Decide(r)
<1>1. Steps(r)
  BY DEF Steps, Serves, Handler
<1>s. /\ http \in [Requests -> {"idle", "closed"} \cup Waiting]
      /\ joined \in [Requests -> Requests \cup {None}]
      /\ reply \in [Requests -> [kind : ReplyKinds, job : Requests \cup {None}]]
      /\ task \in [Requests -> Task]
  BY DEF Shape, TypeOK, HandlerTypeOK
<1>2. CASE DecideFresh(r)
  <2>1. Path!DecideFresh(r)
    BY <1>s, <1>1, <1>2, MyStep, MyForget, SameStore
    DEF DecideFresh, Path!DecideFresh, NewTask, Path!NewTask, At, Path!At
  <2>. QED BY <2>1 DEF Path!Decide
<1>3. CASE DecideJoin(r)
  <2>1. Path!DecideJoin(r)
    <3>1. /\ http'[r] = "waiting" /\ joined'[r] = entries[Key(r)].token
          /\ http[r] = "begin" /\ Path!BeginJoin(Key(r), Payload(r)) /\ Path!Forget
      BY <1>s, <1>1, <1>3, MyStep, MyForget, SameStore DEF DecideJoin
    <3>2. /\ UNCHANGED <<req, reply, task, entered>>
          /\ UNCHANGED <<jobs \cap Ours, late \cap Ours>>
          /\ NoTask' = NoTask /\ NoReply' = NoReply
      BY <1>1, <1>3, MyStep DEF DecideJoin
    <3>3. /\ OnlyOf(Ours, http, "idle")' = [OnlyOf(Ours, http, "idle") EXCEPT ![r] = "waiting"]
          /\ OnlyOf(Ours, joined, None)'
             = [OnlyOf(Ours, joined, None) EXCEPT ![r] = entries[Path!Key(r)].token]
          /\ OnlyOf(Ours, http, "idle")[r] = "begin"
          /\ Path!BeginJoin(Path!Key(r), Path!Payload(r)) /\ Path!Forget
      BY <1>1, <3>1, MyStep
    <3>. QED BY <3>2, <3>3 DEF Path!DecideJoin
  <2>. QED BY <2>1 DEF Path!Decide
<1>4. CASE DecideReplay(r)
  <2>1. Path!DecideReplay(r)
    <3>1. /\ Path!Answer(r, [kind |-> "replayed", job |-> entries[Key(r)].token])
          /\ http[r] = "begin" /\ Path!BeginReplay(Key(r), Payload(r)) /\ Path!Forget
      BY <1>1, <1>4, MyAnswer, MyForget, SameStore DEF DecideReplay
    <3>. QED BY <1>1, <1>4, <3>1, MyStep DEF DecideReplay, Path!DecideReplay
  <2>. QED BY <2>1 DEF Path!Decide
<1>5. CASE DecideConflict(r)
  <2>1. Path!DecideConflict(r)
    <3>1. /\ Path!Answer(r, Path!Reply("conflict"))
          /\ http[r] = "begin" /\ Path!BeginConflict(Key(r), Payload(r)) /\ Path!Forget
      BY <1>1, <1>5, MyAnswer, MyForget, SameStore DEF DecideConflict, Reply, Path!Reply
    <3>. QED BY <1>1, <1>5, <3>1, MyStep DEF DecideConflict, Path!DecideConflict
  <2>. QED BY <2>1 DEF Path!Decide
<1>. QED BY <1>2, <1>3, <1>4, <1>5 DEF Decide

LEMMA MyWait ==
    ASSUME Shape, NEW r \in Ours, UNCHANGED Ours,
           Wake(r) \/ TaskEnded(r) \/ WaitTimeout(r) \/ Leave(r)
    PROVE  Path!Wake(r) \/ Path!TaskEnded(r) \/ Path!WaitTimeout(r) \/ Path!Leave(r)
<1>1. Steps(r)
  BY DEF Steps, Serves, Handler
<1>s. /\ http \in [Requests -> {"idle", "closed"} \cup Waiting]
      /\ joined \in [Requests -> Requests \cup {None}]
      /\ reply \in [Requests -> [kind : ReplyKinds, job : Requests \cup {None}]]
  BY DEF Shape, TypeOK, HandlerTypeOK
<1>2. CASE Wake(r)
  <2>1. /\ UNCHANGED <<storeVars, req, task, cupsVars>>
        /\ OnlyOf(Ours, req, [key |-> NoKey, payload |-> None])'
           = OnlyOf(Ours, req, [key |-> NoKey, payload |-> None])
        /\ OnlyOf(Ours, task, NoTask)' = OnlyOf(Ours, task, NoTask)
        /\ UNCHANGED Path!cupsVars
    BY <1>1, <1>2, MyStep DEF Wake
  <2>2. CASE signals[joined[r]].state = "completed"
    <3>1. Path!Answer(r, [kind |-> "replayed", job |-> signals[joined[r]].job])
      BY <1>1, <1>2, <2>2, MyAnswer DEF Wake
    <3>. QED BY <1>1, <1>2, <2>1, <2>2, <3>1, MyStep DEF Wake, Path!Wake
  <2>3. CASE signals[joined[r]].state = "aborted"
    BY <1>s, <1>1, <1>2, <2>1, <2>3, MyStep DEF Wake, Path!Wake
  <2>4. CASE signals[joined[r]].state = "dropped"
    <3>1. Path!Answer(r, Path!Reply("in_progress"))
      BY <1>1, <1>2, <2>4, MyAnswer DEF Wake, Reply, Path!Reply
    <3>. QED BY <1>1, <1>2, <2>1, <2>4, <3>1, MyStep DEF Wake, Path!Wake
  <2>. QED BY <1>2, <2>2, <2>3, <2>4 DEF Wake
<1>3. CASE TaskEnded(r)
  <2>1. Path!Answer(r, IF task[r].job = None THEN Path!Reply("error")
                       ELSE [kind |-> "accepted", job |-> task[r].job])
    BY <1>1, <1>3, MyAnswer DEF TaskEnded, Reply, Path!Reply
  <2>. QED BY <1>1, <1>3, <2>1, MyStep DEF TaskEnded, Path!TaskEnded
<1>4. CASE WaitTimeout(r)
  <2>1. Path!Answer(r, Path!Reply("in_progress"))
    BY <1>1, <1>4, MyAnswer DEF WaitTimeout, Reply, Path!Reply
  <2>. QED BY <1>1, <1>4, <2>1, MyStep DEF WaitTimeout, Path!WaitTimeout
<1>5. CASE Leave(r)
  <2>1. Path!Answer(r, Path!Reply("gone"))
    BY <1>1, <1>5, MyAnswer DEF Leave, Reply, Path!Reply
  <2>. QED BY <1>1, <1>5, <2>1, MyStep DEF Leave, Path!Leave, Waiting, Path!Waiting
<1>. QED BY <1>2, <1>3, <1>4, <1>5

\* What an IPP call, or a task that goes on, does to its own life.
LEMMA MyMoves ==
    ASSUME Shape, NEW r \in Ours, UNCHANGED Ours, Steps(r), NEW p, NEW j
    PROVE  /\ Call(r, p) => Path!Call(r, p)
           /\ Goto(r, p, j) => Path!Goto(r, p, j)
           /\ GiveUp(r) => Path!GiveUp(r)
           /\ Unanswered(r) => Path!Unanswered(r)
           /\ Succeed(r) => Path!Succeed(r)
           /\ AddJob(r) => Path!AddJob(r)
<1>s. task \in [Requests -> Task] /\ printed \in [Keys -> SUBSET Requests]
  BY DEF Shape, TypeOK, CupsTypeOK
<1>0. ASSUME NEW q, NEW n, NEW i PROVE At(q, n, i) = Path!At(q, n, i)
  BY DEF At, Path!At
<1>1. ASSUME NEW q, Call(r, q) PROVE Path!Call(r, q)
  <2>1. task'[r] = Path!At(q, task[r].calls + 1, None)
    BY <1>s, <1>0, <1>1, MyStep DEF Call
  <2>. QED BY <2>1, MyStep DEF Path!Call
<1>2. ASSUME NEW q, NEW i, Goto(r, q, i) PROVE Path!Goto(r, q, i)
  <2>1. task'[r] = Path!At(q, 0, i)
    BY <1>s, <1>0, <1>2, MyStep DEF Goto
  <2>. QED BY <2>1, MyStep DEF Path!Goto
<1>3. GiveUp(r) => Path!GiveUp(r)
  BY <1>2, MyStep DEF GiveUp, Path!GiveUp
<1>4. Unanswered(r) => Path!Unanswered(r)
  BY <1>1, <1>3, MyStep DEF Unanswered, Path!Unanswered
<1>5. Succeed(r) => Path!Succeed(r)
  BY <1>2, MyStep DEF Succeed, Path!Succeed
<1>6. AddJob(r) => Path!AddJob(r)
  <2>. SUFFICES ASSUME AddJob(r) PROVE Path!AddJob(r)
    OBVIOUS
  <2>1. (jobs \cap Ours)' = (jobs \cap Ours) \cup {r}
    BY DEF AddJob
  <2>2. CASE Keyed(r)
    <3>1. printed' = [printed EXCEPT ![Key(r)] = @ \cup {r}]
      BY <2>2 DEF AddJob
    <3>2. [k \in Keys |-> printed[k] \cap Ours]'
          = [[k \in Keys |-> printed[k] \cap Ours] EXCEPT ![Key(r)] = @ \cup {r}]
      BY <1>s, <2>2, <3>1
    <3>. QED BY <2>1, <2>2, <3>2, MyStep DEF Path!AddJob
  <2>3. CASE ~Keyed(r)
    BY <2>1, <2>3, MyStep DEF AddJob, Path!AddJob
  <2>. QED BY <2>2, <2>3
<1>. QED BY <1>1, <1>2, <1>3, <1>4, <1>5, <1>6

LEMMA MyPrinting ==
    ASSUME Shape, NEW r \in Ours, UNCHANGED Ours, Printing(r) \/ LateAccept(r)
    PROVE  Path!PrintJob(r) \/ Path!Panic(r) \/ Path!CupsAccepts(r) \/ Path!LateAccept(r)
<1>1. Steps(r)
  BY DEF Steps, Serves, TaskStep, Printing
<1>s. task \in [Requests -> Task]
  BY DEF Shape, TypeOK
<1>u. UNCHANGED <<req, http, joined, reply>>
  <2>1. r \in Requests
    BY DEF Ours
  <2>. QED BY <2>1, PrintingPhases DEF LateAccept
<1>h. UNCHANGED Path!handlerVars
  BY <1>1, <1>u, MyStep DEF Path!handlerVars
<1>2. CASE FindNextCall(r)
  BY <1>1, <1>h, <1>2, MyStep, MyMoves
  DEF FindNextCall, Path!FindNextCall, Path!PrintJob
<1>3. CASE StartPrintJob(r) \/ RefuseLocally(r) \/ FindUnanswered(r) \/ CupsRefuses(r)
  BY <1>1, <1>h, <1>3, MyStep, MyMoves
  DEF StartPrintJob, Path!StartPrintJob, RefuseLocally, Path!RefuseLocally, FindUnanswered,
      Path!FindUnanswered, CupsRefuses, Path!CupsRefuses, Path!PrintJob
<1>4. CASE PrintJobUnanswered(r)
  BY <1>1, <1>h, <1>4, MyStep, MyMoves
  DEF PrintJobUnanswered, Path!PrintJobUnanswered, Path!PrintJob
<1>5. CASE PrintJobAnswered(r) \/ PrintJobGarbled(r)
  BY <1>1, <1>h, <1>5, MyStep, MyMoves
  DEF PrintJobAnswered, Path!PrintJobAnswered, PrintJobGarbled, Path!PrintJobGarbled, Path!PrintJob
<1>6. CASE ReconcileFinds(r) \/ ReconcileMisses(r) \/ ReconcileFails(r)
  BY <1>1, <1>h, <1>6, MyStep, MyMoves
  DEF ReconcileFinds, Path!ReconcileFinds, ReconcileMisses, Path!ReconcileMisses,
      ReconcileFails, Path!ReconcileFails, Path!PrintJob
<1>7. CASE Panic(r)
  BY <1>1, <1>h, <1>7, MyStep, MyMoves DEF Panic, Path!Panic
<1>8. CASE CupsAccepts(r)
  <2>1. OnlyOf(Ours, task, NoTask)' = [OnlyOf(Ours, task, NoTask) EXCEPT ![r].phase = "sent"]
    BY <1>s, <1>1, <1>8, MyStep DEF CupsAccepts
  <2>2. Path!AddJob(r)
    BY <1>1, <1>8, MyMoves DEF CupsAccepts
  <2>. QED BY <1>1, <1>h, <1>8, <2>1, <2>2, MyStep DEF CupsAccepts, Path!CupsAccepts
<1>9. CASE LateAccept(r)
  BY <1>1, <1>h, <1>9, MyStep, MyMoves DEF LateAccept, Path!LateAccept
<1>. QED BY <1>2, <1>3, <1>4, <1>5, <1>6, <1>7, <1>8, <1>9 DEF Printing, PrintJob

\* Two fields of a record change at once.
LEMMA TwoFields ==
    ASSUME NEW f, NEW r \in DOMAIN f, NEW a, NEW b
    PROVE  [f EXCEPT ![r].phase = a, ![r].handle = b]
           = [f EXCEPT ![r] = [f[r] EXCEPT !.phase = a, !.handle = b]]
OBVIOUS

LEMMA MySettle ==
    ASSUME Shape, NEW r \in Ours, UNCHANGED Ours, Settle(r)
    PROVE  Path!Settle(r)
<1>1. Steps(r)
  BY DEF Steps, Serves, TaskStep
<1>s. task \in [Requests -> Task]
  BY DEF Shape, TypeOK
<1>u. /\ UNCHANGED handlerVars => UNCHANGED Path!handlerVars
      /\ UNCHANGED cupsVars => UNCHANGED Path!cupsVars
  BY <1>1, MyStep
<1>2. CASE CompleteKey(r)
  <2>1. OnlyOf(Ours, task, NoTask)'
        = [OnlyOf(Ours, task, NoTask) EXCEPT ![r].phase = "notify",
                                             ![r].handle = CompleteHandle(Key(r))]
    <3>1. r \in DOMAIN task
      BY <1>s, <1>1, MyStep
    <3>2. OnlyOf(Ours, task, NoTask)[r] = task[r] /\ r \in DOMAIN OnlyOf(Ours, task, NoTask)
      BY <1>1, MyStep DEF OnlyOf
    <3>3. task'[r] = [OnlyOf(Ours, task, NoTask)[r] EXCEPT !.phase = "notify", !.handle = CompleteHandle(Key(r))]
      BY <1>s, <1>2, <3>1, <3>2 DEF CompleteKey
    <3>4. [OnlyOf(Ours, task, NoTask) EXCEPT ![r].phase = "notify", ![r].handle = CompleteHandle(Key(r))]
          = [OnlyOf(Ours, task, NoTask) EXCEPT
                ![r] = [OnlyOf(Ours, task, NoTask)[r] EXCEPT !.phase = "notify", !.handle = CompleteHandle(Key(r))]]
      BY <3>2, TwoFields
    <3>. QED BY <1>1, <3>3, <3>4, MyStep
  <2>. QED BY <1>1, <1>2, <1>u, <2>1, MyStep
    DEF CompleteKey, Path!CompleteKey, Path!Settle, Complete, Path!Complete, CompleteHandle,
        Path!CompleteHandle, Completed, Path!Completed
<1>3. CASE AbortKey(r)
  <2>1. OnlyOf(Ours, task, NoTask)'
        = [OnlyOf(Ours, task, NoTask) EXCEPT ![r].phase = "notify",
                                             ![r].handle = AbortHandle(Key(r), r)]
    <3>1. r \in DOMAIN task
      BY <1>s, <1>1, MyStep
    <3>2. OnlyOf(Ours, task, NoTask)[r] = task[r] /\ r \in DOMAIN OnlyOf(Ours, task, NoTask)
      BY <1>1, MyStep DEF OnlyOf
    <3>3. task'[r] = [OnlyOf(Ours, task, NoTask)[r] EXCEPT !.phase = "notify", !.handle = AbortHandle(Key(r), r)]
      BY <1>s, <1>3, <3>1, <3>2 DEF AbortKey
    <3>4. [OnlyOf(Ours, task, NoTask) EXCEPT ![r].phase = "notify", ![r].handle = AbortHandle(Key(r), r)]
          = [OnlyOf(Ours, task, NoTask) EXCEPT
                ![r] = [OnlyOf(Ours, task, NoTask)[r] EXCEPT !.phase = "notify", !.handle = AbortHandle(Key(r), r)]]
      BY <3>2, TwoFields
    <3>. QED BY <1>1, <3>3, <3>4, MyStep
  <2>. QED BY <1>1, <1>3, <1>u, <2>1, MyStep
    DEF AbortKey, Path!AbortKey, Path!Settle, Abort, Path!Abort, AbortHandle, Path!AbortHandle,
        OwnedBy, Path!OwnedBy, Absent, Path!Absent
<1>4. CASE Notify(r)
  <2>1. OnlyOf(Ours, task, NoTask)'
        = [OnlyOf(Ours, task, NoTask) EXCEPT ![r].phase = "drop", ![r].handle = None]
    <3>1. r \in DOMAIN task
      BY <1>s, <1>1, MyStep
    <3>2. OnlyOf(Ours, task, NoTask)[r] = task[r] /\ r \in DOMAIN OnlyOf(Ours, task, NoTask)
      BY <1>1, MyStep DEF OnlyOf
    <3>3. task'[r] = [OnlyOf(Ours, task, NoTask)[r] EXCEPT !.phase = "drop", !.handle = None]
      BY <1>s, <1>4, <3>1, <3>2 DEF Notify
    <3>4. [OnlyOf(Ours, task, NoTask) EXCEPT ![r].phase = "drop", ![r].handle = None]
          = [OnlyOf(Ours, task, NoTask) EXCEPT
                ![r] = [OnlyOf(Ours, task, NoTask)[r] EXCEPT !.phase = "drop", !.handle = None]]
      BY <3>2, TwoFields
    <3>. QED BY <1>1, <3>3, <3>4, MyStep
  <2>. QED BY <1>1, <1>4, <1>u, <2>1, MyStep
    DEF Notify, Path!Notify, Path!Settle, Send, Path!Send, Aborted, Path!Aborted, Settled,
        Path!Settled
<1>5. CASE DropGuard(r)
  BY <1>s, <1>1, <1>5, MyStep, MyMoves
  DEF DropGuard, Path!DropGuard, Path!Settle, Abort, Path!Abort, AbortHandle, Path!AbortHandle,
      OwnedBy, Path!OwnedBy, Absent, Path!Absent, Send, Path!Send, Aborted, Path!Aborted
<1>. QED BY <1>2, <1>3, <1>4, <1>5 DEF Settle

\* The cleanup loop and the clock of a life.
LEMMA MyCleanup ==
    ASSUME UNCHANGED Ours, CleanupPrune
    PROVE  Path!CleanupPrune
<1>1. Path!Prune /\ Path!Forget /\ \E k \in Keys : Path!Expired(k)
  BY SameStore, MyForget DEF CleanupPrune
<1>2. UNCHANGED Path!handlerVars
  BY DEF CleanupPrune, NoReply
<1>3. OnlyOf(Ours, task, NoTask)' = OnlyOf(Ours, task, NoTask)
  BY DEF CleanupPrune, NoTask, At
<1>. QED BY <1>1, <1>2, <1>3 DEF CleanupPrune, Path!CleanupPrune

LEMMA MyTick ==
    ASSUME Shape, UNCHANGED Ours, Tick
    PROVE  Path!Tick
<1>1. /\ \A r \in Ours : OnlyOf(Ours, task, NoTask)[r] = task[r] /\ r \in Requests
      /\ \A r \in Requests \ Ours : OnlyOf(Ours, task, NoTask)[r] = NoTask
  BY DEF OnlyOf, Ours
<1>2. NoTask.phase = "none"
  BY DEF NoTask, At
<1>3. \A r \in Requests : /\ OnlyOf(Ours, task, NoTask)[r].phase \notin Path!Settling \cup Path!Closing
                          /\ Path!CallMayLast(r)
  BY <1>1, <1>2 DEF Tick, CallMayLast, Path!CallMayLast, Settling, Closing, InCall,
                    Path!Settling, Path!Closing, Path!InCall
<1>4. entries' = [k \in Keys |-> Path!Older(entries[k])]
  BY DEF Tick, Older, Path!Older
<1>5. OnlyOf(Ours, task, NoTask)'
      = [r \in Requests |-> IF OnlyOf(Ours, task, NoTask)[r].phase \in Path!InCall
                            THEN [OnlyOf(Ours, task, NoTask)[r] EXCEPT !.elapsed = @ + 1]
                            ELSE OnlyOf(Ours, task, NoTask)[r]]
  BY <1>1, <1>2 DEF Tick, OnlyOf, InCall, Path!InCall
<1>6. UNCHANGED Path!handlerVars /\ UNCHANGED Path!cupsVars
  BY DEF Tick, NoReply
<1>. QED BY <1>3, <1>4, <1>5, <1>6 DEF Tick, Path!Tick

\* A request that comes is the life's own from then on.
LEMMA MyArrive ==
    ASSUME Shape, LifeShape, NEW r \in Requests, Untouched(r), NEW d \in Demands, Accept(r, d)
    PROVE  Path!Arrive(r, d)
<1>s. /\ task \in [Requests -> Task] /\ http \in [Requests -> {"idle", "closed"} \cup Waiting]
      /\ joined \in [Requests -> Requests \cup {None}]
      /\ reply \in [Requests -> [kind : ReplyKinds, job : Requests \cup {None}]]
      /\ req \in [Requests -> [key : Keys \cup {NoKey}, payload : Payloads \cup {None}]]
      /\ life \in Nat \ {0} /\ born \in [Requests -> 0..Lives]
  BY LifeNumbers DEF Shape, TypeOK, HandlerTypeOK, LifeShape, LifeTypeOK
<1>1. /\ Arrive(r, d) /\ born' = [born EXCEPT ![r] = life] /\ life' = life
      /\ http[r] = "idle"
  BY DEF Accept, Arrive
<1>2. born[r] # life
  BY <1>s, <1>1 DEF LifeShape
<1>3. Ours' = Ours \cup {r} /\ r \notin Ours /\ Ours \subseteq Requests
  BY <1>s, <1>1, <1>2 DEF Ours
<1>4. /\ req[r] = [key |-> NoKey, payload |-> None] /\ joined[r] = None /\ reply[r] = NoReply
      /\ task[r] = NoTask /\ r \notin jobs \cup late
      /\ \A k \in Keys : r \notin printed[k]
  BY <1>1 DEF Untouched, Unasked
<1>5. OnlyOf(Ours, http, "idle")[r] = "idle"
  BY <1>3 DEF OnlyOf
<1>6. /\ OnlyOf(Ours, joined, None)' = OnlyOf(Ours, joined, None)
      /\ OnlyOf(Ours, reply, NoReply)' = OnlyOf(Ours, reply, NoReply)
  BY <1>1, <1>3, <1>4 DEF Arrive, OnlyOf, NoReply
<1>7. /\ (jobs \cap Ours)' = jobs \cap Ours /\ (late \cap Ours)' = late \cap Ours
      /\ entered' = entered
      /\ [k \in Keys |-> printed[k] \cap Ours]' = [k \in Keys |-> printed[k] \cap Ours]
  BY <1>1, <1>3, <1>4 DEF Arrive
<1>8. OnlyOf(Ours, req, [key |-> NoKey, payload |-> None])'
      = [OnlyOf(Ours, req, [key |-> NoKey, payload |-> None]) EXCEPT ![r] = d]
  BY <1>s, <1>1, <1>3, <1>4 DEF Arrive, OnlyOf
<1>9. CASE d.key = NoKey
  <2>1. http' = [http EXCEPT ![r] = "awaiting"] /\ task' = [task EXCEPT ![r] = NewTask]
        /\ UNCHANGED storeVars
    BY <1>1, <1>9 DEF Arrive
  <2>2. OnlyOf(Ours, http, "idle")' = [OnlyOf(Ours, http, "idle") EXCEPT ![r] = "awaiting"]
    BY <1>s, <1>1, <1>3, <1>4, <2>1 DEF OnlyOf
  <2>3. OnlyOf(Ours, task, NoTask)' = [OnlyOf(Ours, task, NoTask) EXCEPT ![r] = Path!NewTask]
    BY <1>s, <1>3, <1>4, <2>1 DEF OnlyOf, NewTask, Path!NewTask, At, Path!At, NoTask
  <2>. QED BY <1>5, <1>6, <1>7, <1>8, <1>9, <2>1, <2>2, <2>3 DEF Path!Arrive
<1>10. CASE d.key # NoKey
  <2>1. http' = [http EXCEPT ![r] = "begin"] /\ UNCHANGED <<task, entries, signals>>
    BY <1>1, <1>10 DEF Arrive
  <2>2. OnlyOf(Ours, http, "idle")' = [OnlyOf(Ours, http, "idle") EXCEPT ![r] = "begin"]
    BY <1>s, <1>1, <1>3, <1>4, <2>1 DEF OnlyOf
  <2>3. OnlyOf(Ours, task, NoTask)' = OnlyOf(Ours, task, NoTask)
    BY <1>3, <1>4, <2>1 DEF OnlyOf, NoTask, At
  <2>. QED BY <1>5, <1>6, <1>7, <1>8, <1>10, <2>1, <2>2, <2>3 DEF Path!Arrive
<1>. QED BY <1>9, <1>10

\* CUPS may take a document of an earlier life: this one does not notice.
LEMMA TheirLateAccept ==
    ASSUME Shape, NEW r \in Requests \ Ours, UNCHANGED Ours, LateAccept(r)
    PROVE  UNCHANGED Path!vars
<1>1. UNCHANGED <<entries, signals, req, http, joined, reply, task, entered>>
      /\ late' = late \ {r} /\ AddJob(r)
  BY DEF LateAccept
<1>2. jobs' \cap Ours' = jobs \cap Ours /\ late' \cap Ours' = late \cap Ours
  BY <1>1 DEF AddJob
<1>3. [k \in Keys |-> printed'[k] \cap Ours'] = [k \in Keys |-> printed[k] \cap Ours]
  <2>1. printed \in [Keys -> SUBSET Requests]
    BY DEF Shape, TypeOK, CupsTypeOK
  <2>2. \A k \in Keys : printed'[k] \cap Ours' = printed[k] \cap Ours
    BY <1>1, <2>1 DEF AddJob
  <2>. QED BY <2>2
<1>. QED BY <1>1, <1>2, <1>3 DEF Path!vars, NoReply, NoTask, At

\* Who acts in a life belongs to it.
LEMMA ActsNow ==
    ASSUME Shape, LifeShape, NEW r \in Requests, Serves(r) \/ Panic(r)
    PROVE  r \in Ours
<1>s. task \in [Requests -> Task]
  BY DEF Shape, TypeOK
<1>1. CASE Handler(r) \/ WaitTimeout(r) \/ Leave(r)
  <2>1. http[r] \in Waiting
    BY <1>1 DEF Handler, Decide, DecideFresh, DecideJoin, DecideReplay, DecideConflict, Wake,
                TaskEnded, WaitTimeout, Leave, Waiting
  <2>. QED BY <2>1 DEF LifeShape, Ours
<1>2. CASE TaskStep(r) \/ CupsAccepts(r) \/ Panic(r)
  <2>1. Flying(r)
    <3>1. CASE Printing(r)
      BY <3>1, PrintingPhases DEF Flying, InCall
    <3>2. CASE Settle(r)
      BY <3>2 DEF Settle, CompleteKey, AbortKey, Notify, DropGuard, Flying
    <3>. QED BY <1>2, <3>1, <3>2 DEF TaskStep, Printing
  <2>. QED BY <2>1 DEF LifeShape, Ours
<1>. QED BY <1>1, <1>2 DEF Serves

\* A life to which nothing belongs yet is at the start of its path.
Newborn == Ours = {} /\ StoreInit /\ entered = {}

LEMMA FreshLife == Newborn => Path!Init
<1>. SUFFICES ASSUME Newborn PROVE Path!Init
  OBVIOUS
<1>0. Ours = {} /\ StoreInit /\ entered = {}
  BY DEF Newborn
<1>1. Path!StoreInit
  BY <1>0 DEF StoreInit, Path!StoreInit, Absent, Path!Absent, NoSignal, Path!NoSignal
<1>2. /\ OnlyOf(Ours, req, [key |-> NoKey, payload |-> None])
         = [r \in Requests |-> [key |-> NoKey, payload |-> None]]
      /\ OnlyOf(Ours, http, "idle") = [r \in Requests |-> "idle"]
      /\ OnlyOf(Ours, joined, None) = [r \in Requests |-> None]
      /\ OnlyOf(Ours, reply, NoReply) = [r \in Requests |-> Path!NoReply]
      /\ OnlyOf(Ours, task, NoTask) = [r \in Requests |-> Path!NoTask]
  BY <1>0 DEF OnlyOf, NoReply, Path!NoReply, NoTask, Path!NoTask, At, Path!At
<1>3. /\ jobs \cap Ours = {} /\ late \cap Ours = {}
      /\ [k \in Keys |-> printed[k] \cap Ours] = [k \in Keys |-> {}]
  BY <1>0
<1>. QED BY <1>0, <1>1, <1>2, <1>3 DEF Path!Init

LEMMA AnewStep ==
    ASSUME Shape, LifeShape, \A r \in Requests : Untouched(r), [LifeNext]_allVars
    PROVE  /\ Running /\ Running' => Path!Next \/ UNCHANGED Path!vars
           /\ ~Running /\ Running' => Newborn'
<1>o. Ours \subseteq Requests /\ (UNCHANGED <<born, life>> => UNCHANGED Ours)
  BY DEF Ours
<1>1. ASSUME NEW r \in Requests, Steps(r), UNCHANGED <<phase, life>>,
             \/ \E d \in Demands : Accept(r, d)
             \/ /\ born' = born
                /\ \/ Running /\ (Serves(r) \/ Panic(r))
                   \/ LateAccept(r)
      PROVE  (Path!Next \/ UNCHANGED Path!vars) /\ (Running' => Running)
  <2>1. Running' => Running
    BY <1>1 DEF Running, Ended
  <2>. SUFFICES Path!Next \/ UNCHANGED Path!vars
    BY <2>1
  <2>2. ASSUME NEW d \in Demands, Accept(r, d) PROVE Path!Next
    <3>1. Path!Arrive(r, d)
      BY <2>2, MyArrive
    <3>. QED BY <3>1 DEF Path!Next, Path!Environment
  <2>3. CASE born' = born /\ (Serves(r) \/ Panic(r))
    <3>1. r \in Ours /\ UNCHANGED Ours
      BY <1>1, <1>o, <2>3, ActsNow
    <3>2. CASE Decide(r)
      <4>1. Path!Decide(r)
        BY <3>1, <3>2, MyDecide
      <4>. QED BY <4>1 DEF Path!Next, Path!Handler
    <3>3. CASE Wake(r) \/ TaskEnded(r) \/ WaitTimeout(r) \/ Leave(r)
      <4>1. Path!Wake(r) \/ Path!TaskEnded(r) \/ Path!WaitTimeout(r) \/ Path!Leave(r)
        BY <3>1, <3>3, MyWait
      <4>. QED BY <4>1 DEF Path!Next, Path!Handler, Path!Environment
    <3>4. CASE Printing(r)
      <4>1. Path!PrintJob(r) \/ Path!Panic(r) \/ Path!CupsAccepts(r) \/ Path!LateAccept(r)
        BY <3>1, <3>4, MyPrinting
      <4>. QED BY <4>1 DEF Path!Next, Path!TaskStep, Path!Environment
    <3>5. CASE Settle(r)
      <4>1. Path!Settle(r)
        BY <3>1, <3>5, MySettle
      <4>. QED BY <4>1 DEF Path!Next, Path!TaskStep
    <3>. QED BY <2>3, <3>2, <3>3, <3>4, <3>5 DEF Serves, Handler, TaskStep, Printing
  <2>4. CASE born' = born /\ LateAccept(r)
    <3>1. UNCHANGED Ours
      BY <1>1, <1>o, <2>4
    <3>2. CASE r \in Ours
      <4>1. Path!PrintJob(r) \/ Path!Panic(r) \/ Path!CupsAccepts(r) \/ Path!LateAccept(r)
        BY <2>4, <3>1, <3>2, MyPrinting
      <4>. QED BY <4>1 DEF Path!Next, Path!TaskStep, Path!Environment
    <3>3. CASE r \notin Ours
      BY <2>4, <3>1, <3>3, TheirLateAccept
    <3>. QED BY <3>2, <3>3
  <2>. QED BY <1>1, <2>2, <2>3, <2>4
<1>2. CASE Cleanup
  <2>1. CleanupPrune /\ UNCHANGED Ours /\ Running
    BY <1>2, <1>o DEF Cleanup, lifeVars
  <2>. QED BY <2>1, MyCleanup DEF Path!Next
<1>3. CASE Pass
  <2>1. Tick /\ UNCHANGED Ours /\ Running
    BY <1>3, <1>o, PassFacts
  <2>. QED BY <2>1, MyTick DEF Path!Next
<1>4. CASE UNCHANGED <<vars, born, life>> /\ (Terminate \/ HttpDrained \/ UNCHANGED allVars)
  <2>1. UNCHANGED Ours /\ UNCHANGED vars
    BY <1>4, <1>o
  <2>2. UNCHANGED Path!vars
    BY <2>1 DEF vars, Path!vars, NoReply, NoTask, At
  <2>3. Running' => Running
    BY <1>4 DEF Terminate, HttpDrained, allVars, lifeVars, Running, Ended
  <2>. QED BY <2>2, <2>3
<1>5. ASSUME Running, NEW how \in Ended, End(how) PROVE Running /\ ~Running'
  BY <1>5 DEF End, Running
<1>6. CASE Restart
  <2>1. ~Running /\ life' = life + 1 /\ born' = born
    BY <1>6 DEF Restart, Running
  <2>2. \A r \in Requests : born[r] # life + 1
    BY LifeNumbers DEF LifeShape, LifeTypeOK
  <2>3. (Ours = {})'
    BY <2>1, <2>2 DEF Ours
  <2>4. StoreInit' /\ (entered = {})'
    BY <1>6 DEF Restart, StoreInit, Absent, NoSignal
  <2>. QED BY <2>1, <2>3, <2>4 DEF Newborn
<1>. QED BY <1>1, <1>2, <1>3, <1>4, <1>5, <1>6, LifeSteps

\* Every life of the process is a PrintSubmission of its own, from its start to the
\* end of the process, whatever earlier lives left in CUPS (run of src/main.rs, which
\* makes the state anew): what is proved of one holds of each.
THEOREM EachLifeAnewCorrect == LifeSpec => EachLifeAnew
<1>1. LifeInit => Path!Init /\ \A r \in Requests : Untouched(r)
  <2>1. LifeInit => Path!Init
    <3>1. LifeInit => Newborn
      BY DEF LifeInit, Init, Ours, Newborn
    <3>. QED BY <3>1, FreshLife
  <2>2. LifeInit => \A r \in Requests : Untouched(r)
    BY DEF LifeInit, Init, Untouched, Unasked
  <2>. QED BY <2>1, <2>2
<1>2. Shape /\ LifeShape /\ (\A r \in Requests : Untouched(r)) /\ [LifeNext]_allVars
      => (\A r \in Requests : Untouched(r))'
  BY UntouchedStep
<1>3. Shape /\ LifeShape /\ (\A r \in Requests : Untouched(r)) /\ [LifeNext]_allVars
      => [/\ Running /\ Running' => Path!Next \/ UNCHANGED Path!vars
          /\ ~Running /\ Running' => Newborn']_allVars
  BY AnewStep
<1>4. Newborn => Path!Init
  BY FreshLife
<1>. QED BY <1>1, <1>2, <1>3, <1>4, LifeShapeCorrect, PTL DEF LifeSpec, EachLifeAnew

-----------------------------------------------------------------------------
(* What PrintSubmission promises holds of every life.                      *)

P == INSTANCE PrintSubmissionRefinement WITH
         req <- OnlyOf(Ours, req, [key |-> NoKey, payload |-> None]),
         http <- OnlyOf(Ours, http, "idle"),
         joined <- OnlyOf(Ours, joined, None),
         reply <- OnlyOf(Ours, reply, NoReply),
         task <- OnlyOf(Ours, task, NoTask),
         jobs <- jobs \cap Ours,
         late <- late \cap Ours,
         printed <- [k \in Keys |-> printed[k] \cap Ours]

\* P is Path with what is proved of it: its operators are the same, opened all the way.
LEMMA SamePath ==
    /\ Path!Init <=> P!Init
    /\ (Path!Next \/ UNCHANGED Path!vars) <=> [P!Next]_(P!vars)
    /\ Path!ReplyFidelity <=> P!ReplyFidelity
    /\ RetentionCoversWindow <=> P!RetentionCoversWindow
<1>1. (Path!Init <=> P!Init) /\ (Path!Next <=> P!Next)
  BY Zenon DEF Path!storeVars, P!storeVars, Path!Absent, P!Absent, Path!InProgress,
       P!InProgress, Path!Completed, P!Completed, Path!NoSignal, P!NoSignal,
       Path!Pending, P!Pending, Path!Dropped, P!Dropped, Path!Aborted, P!Aborted,
       Path!Settled, P!Settled, Path!StoreInit, P!StoreInit, Path!Expired, P!Expired,
       Path!Pruned, P!Pruned, Path!PrunedSignals, P!PrunedSignals, Path!Prune, P!Prune,
       Path!CompletedKeys, P!CompletedKeys, Path!Surplus, P!Surplus, Path!Evictions,
       P!Evictions, Path!BeginFresh, P!BeginFresh, Path!BeginJoin, P!BeginJoin,
       Path!BeginReplay, P!BeginReplay, Path!BeginConflict, P!BeginConflict,
       Path!CompleteHandle, P!CompleteHandle, Path!Complete, P!Complete, Path!OwnedBy,
       P!OwnedBy, Path!AbortHandle, P!AbortHandle, Path!Abort, P!Abort, Path!Send,
       P!Send, Path!Older, P!Older, Path!handlerVars, P!handlerVars, Path!cupsVars,
       P!cupsVars, Path!InCall, P!InCall, Path!Settling, P!Settling, Path!Closing,
       P!Closing, Path!At, P!At, Path!NoTask, P!NoTask, Path!NewTask, P!NewTask,
       Path!Waiting, P!Waiting, Path!NoReply, P!NoReply, Path!Reply, P!Reply, Path!Init,
       P!Init, Path!Key, P!Key, Path!Keyed, P!Keyed, Path!Payload, P!Payload,
       Path!Answer, P!Answer, Path!Forget, P!Forget, Path!Arrive, P!Arrive,
       Path!DecideFresh, P!DecideFresh, Path!DecideJoin, P!DecideJoin,
       Path!DecideReplay, P!DecideReplay, Path!DecideConflict, P!DecideConflict,
       Path!Wake, P!Wake, Path!WaitTimeout, P!WaitTimeout, Path!TaskEnded, P!TaskEnded,
       Path!Leave, P!Leave, Path!Goto, P!Goto, Path!Call, P!Call, Path!GiveUp, P!GiveUp,
       Path!Unanswered, P!Unanswered, Path!Succeed, P!Succeed, Path!FindNextCall,
       P!FindNextCall, Path!StartPrintJob, P!StartPrintJob, Path!RefuseLocally,
       P!RefuseLocally, Path!FindUnanswered, P!FindUnanswered, Path!AddJob, P!AddJob,
       Path!CupsAccepts, P!CupsAccepts, Path!CupsRefuses, P!CupsRefuses,
       Path!PrintJobUnanswered, P!PrintJobUnanswered, Path!LateAccept, P!LateAccept,
       Path!PrintJobAnswered, P!PrintJobAnswered, Path!PrintJobGarbled,
       P!PrintJobGarbled, Path!ReconcileFinds, P!ReconcileFinds, Path!ReconcileMisses,
       P!ReconcileMisses, Path!ReconcileFails, P!ReconcileFails, Path!CompleteKey,
       P!CompleteKey, Path!AbortKey, P!AbortKey, Path!Notify, P!Notify, Path!DropGuard,
       P!DropGuard, Path!Panic, P!Panic, Path!CleanupPrune, P!CleanupPrune,
       Path!CallMayLast, P!CallMayLast, Path!Tick, P!Tick, Path!Decide, P!Decide,
       Path!Handler, P!Handler, Path!PrintJob, P!PrintJob, Path!Settle, P!Settle,
       Path!TaskStep, P!TaskStep, Path!Environment, P!Environment, Path!Next, P!Next,
       Path!Cardinality, P!Cardinality
<1>2. UNCHANGED Path!vars <=> UNCHANGED P!vars
  BY DEF Path!vars, P!vars
<1>3. Path!ReplyFidelity <=> P!ReplyFidelity
  BY DEF Path!ReplyFidelity, P!ReplyFidelity, Path!Keyed, Path!Key, P!Keyed, P!Key
<1>4. RetentionCoversWindow <=> P!RetentionCoversWindow
  BY DEF RetentionCoversWindow, Window, MaxCalls, P!RetentionCoversWindow, P!Window, P!MaxCalls
<1>. QED BY <1>1, <1>2, <1>3, <1>4

LEMMA PathSound ==
    /\ Path!Init => P!Sound /\ P!Truth
    /\ /\ RetentionCoversWindow /\ P!Sound /\ P!Truth
       /\ Path!Next \/ UNCHANGED Path!vars
       => P!Sound' /\ P!Truth'
    /\ P!Truth => Path!ReplyFidelity
<1>s. /\ P!StoreAssumption /\ P!SubmissionAssumption
  BY StoreAssumption, SubmissionAssumption
  DEF P!StoreAssumption, P!SubmissionAssumption, FaultKinds, P!FaultKinds
<1>1. Path!Init => P!Sound /\ P!Truth
  BY <1>s, SamePath, P!InitSound, P!InitTruth
<1>2. /\ RetentionCoversWindow /\ P!Sound /\ P!Truth
      /\ Path!Next \/ UNCHANGED Path!vars
      => P!Sound' /\ P!Truth'
  BY <1>s, SamePath, P!NextSound, P!NextTruth
<1>3. P!Truth => P!ReplyFidelity
  BY DEF P!Truth, P!HandlerTrue, P!ReplyFidelity, P!Successful, P!Confirmed
<1>. QED BY <1>1, <1>2, <1>3, SamePath

\* A success that stands: what RepliesStand says of one request.
Told(r) == reply[r].kind \in {"accepted", "replayed"}
Stands(r) ==
    Told(r) =>
        LET j == reply[r].job IN
        j \in jobs /\ req[j] = req[r] /\ born[j] = born[r]

\* What was there when a step began is as it was, jobs accepted included; who is not
\* of the life that goes on is told nothing new.
Keeps ==
    /\ jobs \subseteq jobs'
    /\ \A s \in Requests : http[s] # "idle" => req'[s] = req[s] /\ born'[s] = born[s]
    /\ \A s \in Requests :
          Told(s)' /\ (~Running' \/ s \notin Ours') => reply'[s] = reply[s] /\ http[s] # "idle"

LEMMA StepsKeep ==
    ASSUME Shape, LifeShape, \A r \in Requests : Untouched(r), [LifeNext]_allVars
    PROVE  Keeps
<1>s. /\ reply \in [Requests -> [kind : ReplyKinds, job : Requests \cup {None}]]
      /\ born \in [Requests -> 0..Lives]
      /\ req \in [Requests -> [key : Keys \cup {NoKey}, payload : Payloads \cup {None}]]
  BY DEF Shape, TypeOK, HandlerTypeOK, LifeShape, LifeTypeOK
<1>t. \A s \in Requests : Told(s) => http[s] # "idle"
  BY DEF Untouched, Told, NoReply
\* A step that changes neither a demand nor a reply.
<1>k. ASSUME UNCHANGED <<req, reply, born>>, jobs \subseteq jobs'
      PROVE  Keeps
  BY <1>k, <1>t DEF Told, Keeps
<1>1. ASSUME NEW r \in Requests, NEW d \in Demands, Accept(r, d)
      PROVE  Keeps
  <2>1. /\ http[r] = "idle" /\ jobs' = jobs /\ reply' = reply /\ Running
        /\ \A s \in Requests \ {r} : req'[s] = req[s] /\ born'[s] = born[s]
    BY <1>s, <1>1 DEF Accept, Arrive, Running, Ended
  <2>. QED BY <1>t, <2>1 DEF Told, Keeps
<1>2. ASSUME NEW r \in Requests, Steps(r), UNCHANGED <<phase, life, born>>,
             Running, Serves(r) \/ Panic(r)
      PROVE  Keeps
  <2>1. /\ req' = req /\ r \in Ours' /\ Running'
        /\ \A s \in Requests \ {r} : reply'[s] = reply[s]
    BY <1>2, ServesFrame, StepsAlone, ActsNow DEF Ours, Running
  <2>2. jobs \subseteq jobs'
    <3>1. CASE Handler(r) \/ WaitTimeout(r) \/ Leave(r)
      BY <3>1 DEF Handler, Decide, DecideFresh, DecideJoin, DecideReplay, DecideConflict, Wake,
                  TaskEnded, WaitTimeout, Leave
    <3>2. CASE Printing(r)
      BY <3>2 DEF Printing, PrintJob, FindNextCall, StartPrintJob, RefuseLocally, FindUnanswered,
                  CupsRefuses, PrintJobUnanswered, PrintJobAnswered, PrintJobGarbled,
                  ReconcileFinds, ReconcileMisses, ReconcileFails, Panic, CupsAccepts, AddJob
    <3>3. CASE Settle(r)
      BY <3>3 DEF Settle, CompleteKey, AbortKey, Notify, DropGuard
    <3>. QED BY <1>2, <3>1, <3>2, <3>3 DEF Serves, TaskStep, Printing
  <2>. QED BY <1>2, <1>t, <2>1, <2>2 DEF Told, Keeps
<1>3. ASSUME NEW r \in Requests, LateAccept(r), UNCHANGED <<phase, born>>
      PROVE  Keeps
  BY <1>k, <1>3 DEF LateAccept, AddJob
<1>4. CASE Cleanup \/ Pass \/ UNCHANGED <<vars, born>>
  <2>1. UNCHANGED <<req, reply, born, jobs>>
    BY <1>4, PassFacts DEF Cleanup, CleanupPrune, vars, lifeVars
  <2>. QED BY <1>k, <2>1
<1>5. ASSUME Running, NEW how \in Ended, End(how)
      PROVE  Keeps
  <2>1. UNCHANGED <<req, born, jobs>> /\ Running
    BY <1>5 DEF End
  <2>2. ASSUME NEW s \in Requests, Told(s)' PROVE reply'[s] = reply[s] /\ Told(s)
    BY <1>5, <2>2 DEF End, Told, Reply
  <2>. QED BY <1>t, <2>1, <2>2 DEF Keeps
<1>6. CASE Restart
  BY <1>k, <1>6 DEF Restart
<1>. QED BY <1>k, <1>1, <1>2, <1>3, <1>4, <1>5, <1>6, LifeSteps

LEMMA StandsStep ==
    ASSUME Shape, Shape', LifeShape, \A r \in Requests : Untouched(r),
           \A r \in Requests : Stands(r),
           Running' => Path!ReplyFidelity', [LifeNext]_allVars
    PROVE  \A r \in Requests : Stands(r)'
<1>s. /\ jobs \subseteq Requests
      /\ reply' \in [Requests -> [kind : ReplyKinds, job : Requests \cup {None}]]
  BY DEF Shape, TypeOK, HandlerTypeOK, CupsTypeOK
<1>. SUFFICES ASSUME NEW r \in Requests, Told(r)' PROVE Stands(r)'
  BY DEF Stands
<1>1. CASE Running' /\ r \in Ours'
  <2>1. /\ OnlyOf(Ours, reply, NoReply)'[r] = reply'[r]
        /\ OnlyOf(Ours, req, [key |-> NoKey, payload |-> None])'[r] = req'[r]
        /\ \A j \in Ours' : /\ OnlyOf(Ours, req, [key |-> NoKey, payload |-> None])'[j] = req'[j]
                            /\ born'[j] = life'
    BY <1>1 DEF OnlyOf, Ours
  <2>2. LET j == reply'[r].job IN
        /\ j \in jobs' \cap Ours'
        /\ OnlyOf(Ours, req, [key |-> NoKey, payload |-> None])'[j]
           = OnlyOf(Ours, req, [key |-> NoKey, payload |-> None])'[r]
    BY <1>1, <2>1 DEF Path!ReplyFidelity, Told
  <2>. QED BY <1>1, <2>1, <2>2 DEF Stands
<1>2. CASE ~Running' \/ r \notin Ours'
  <2>1. reply'[r] = reply[r] /\ http[r] # "idle"
    BY <1>2, StepsKeep DEF Keeps
  <2>2. Told(r) /\ Stands(r)
    BY <2>1 DEF Told
  <2>3. PICK j : j = reply[r].job
    OBVIOUS
  <2>4. /\ j \in jobs /\ j \in Requests /\ req[j] = req[r] /\ born[j] = born[r]
    BY <1>s, <2>2, <2>3 DEF Stands
  <2>5. http[j] # "idle"
    BY <2>4 DEF Untouched
  <2>6. /\ j \in jobs' /\ req'[j] = req[j] /\ born'[j] = born[j]
        /\ req'[r] = req[r] /\ born'[r] = born[r]
    BY <2>1, <2>4, <2>5, StepsKeep DEF Keeps
  <2>. QED BY <2>1, <2>3, <2>4, <2>6 DEF Stands
<1>. QED BY <1>1, <1>2

\* A success is true for good, over any number of ends and restarts (submit of
\* src/api/print.rs, the shutdown of src/main.rs): CUPS accepted its job, for the same
\* demand and in the same life.
THEOREM RepliesStandCorrect == RetentionCoversWindow => (LifeSpec => []RepliesStand)
<1>. SUFFICES ASSUME RetentionCoversWindow PROVE LifeSpec => []RepliesStand
  OBVIOUS
<1> DEFINE Fresh == \A r \in Requests : Untouched(r)
<1> DEFINE Stand == \A r \in Requests : Stands(r)
<1>1. LifeInit => Fresh /\ Stand /\ Newborn
  <2>1. LifeInit => Newborn
    BY DEF LifeInit, Init, Ours, Newborn
  <2>2. LifeInit => Fresh
    BY DEF LifeInit, Init, Untouched, Unasked
  <2>3. LifeInit => Stand
    BY DEF LifeInit, Init, Stands, Told, NoReply
  <2>. QED BY <2>1, <2>2, <2>3
<1>2. Newborn => P!Sound /\ P!Truth
  BY FreshLife, PathSound
<1>3. Shape /\ LifeShape /\ Fresh /\ [LifeNext]_allVars => Fresh'
  BY UntouchedStep
<1>4. Shape /\ LifeShape /\ Fresh /\ [LifeNext]_allVars /\ Running /\ Running'
      /\ P!Sound /\ P!Truth => P!Sound' /\ P!Truth'
  BY AnewStep, PathSound
<1>5. Shape /\ LifeShape /\ Fresh /\ [LifeNext]_allVars /\ ~Running /\ Running' => Newborn'
  BY AnewStep
<1>6. P!Truth => Path!ReplyFidelity
  BY PathSound
<1>7. Shape /\ Shape' /\ LifeShape /\ Fresh /\ Stand /\ (Running' => Path!ReplyFidelity')
      /\ [LifeNext]_allVars => Stand'
  BY StandsStep
<1>8. Stand => RepliesStand
  BY DEF Stands, Told, RepliesStand
<1>. QED
  <2>. HIDE DEF Fresh, Stand
  <2>. QED BY <1>1, <1>2, <1>3, <1>4, <1>5, <1>6, <1>7, <1>8, LifeShapeCorrect, PTL
    DEF LifeSpec

-----------------------------------------------------------------------------
(* The configuration the process starts with.                              *)

\* Every default is itself a value the variable could have been given.
LEMMA DefaultsAreNumbers == \A s \in Settings : Defaults[s] \in 1..MaxU64
BY ConfigurationAssumption DEF Settings, Defaults

LEMMA NumberOrRefused ==
    ASSUME NEW raw, NEW default \in 1..MaxU64, Number(raw, default) # Refused
    PROVE  Number(raw, default) \in 1..MaxU64
BY DEF Number

\* The three limits of validate_consistency, for every environment the process
\* accepts: positive values, a retention of three IPP timeouts although the
\* product may saturate, files that outlive their conversion, and room for the
\* largest upload.
THEOREM AcceptedIsConsistent ==
    ASSUME NEW env, FromEnv(env) # Refused
    PROVE  LET c == FromEnv(env) IN
           /\ c \in [Settings -> 1..MaxU64]
           /\ 3 * c.ipp_timeout <= c.idempotency_ttl
           /\ c.conversion_timeout < c.temp_ttl
           /\ c.max_upload_bytes <= c.max_temp_bytes
<1> DEFINE c == Read(env)
<1>1. /\ FromEnv(env) = c
      /\ \A s \in Settings : c[s] # Refused
      /\ Consistent(c)
  BY DEF FromEnv
<1>2. c \in [Settings -> 1..MaxU64]
  <2>1. c = [s \in Settings |-> c[s]]
    BY DEF Read
  <2>2. ASSUME NEW s \in Settings
        PROVE  c[s] \in 1..MaxU64
    <3>1. c[s] = Number(env[s], Defaults[s])
      BY DEF Read
    <3>2. QED
      BY <1>1, <3>1, DefaultsAreNumbers, NumberOrRefused
  <2>3. QED
    BY <2>1, <2>2
<1>3. /\ {"ipp_timeout", "idempotency_ttl", "conversion_timeout", "temp_ttl",
          "max_upload_bytes", "max_temp_bytes"} \subseteq Settings
      /\ MaxU64 \in Int
  BY ConfigurationAssumption DEF Settings, Defaults
<1>4. 3 * c.ipp_timeout <= c.idempotency_ttl
  <2>1. c.ipp_timeout \in 1..MaxU64 /\ c.idempotency_ttl \in 1..MaxU64
    BY <1>2, <1>3
  <2>2. c.idempotency_ttl >= Thrice(c.ipp_timeout)
    BY <1>1 DEF Consistent
  <2>3. QED
    BY <2>1, <2>2, <1>3 DEF Thrice
<1>5. c.conversion_timeout < c.temp_ttl /\ c.max_upload_bytes <= c.max_temp_bytes
  <2>1. /\ c.conversion_timeout \in 1..MaxU64 /\ c.temp_ttl \in 1..MaxU64
        /\ c.max_upload_bytes \in 1..MaxU64 /\ c.max_temp_bytes \in 1..MaxU64
    BY <1>2, <1>3
  <2>2. QED
    BY <1>1, <2>1, <1>3 DEF Consistent
<1>6. QED
  BY <1>1, <1>2, <1>4, <1>5
=============================================================================
