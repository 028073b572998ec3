------------------------ MODULE PrintSubmissionProofs ------------------------
(***************************************************************************)
(* Theorems about PrintSubmission, for every set of requests, keys and     *)
(* payloads, every capacity and every setting of the timeouts: types, then *)
(* SingleFlight and AtMostOneJob where the retention period covers the     *)
(* time a submission may take.                                             *)
(***************************************************************************)
EXTENDS PrintSubmission, TLAPS

\* The operators most steps need opened.
USE DEF Key, Keyed, Payload, handlerVars, cupsVars, storeVars

LEMMA InitTypeOK == Init => TypeOK
  BY StoreAssumption, SubmissionAssumption
  DEF Init, TypeOK, StoreInit, StoreTypeOK, Absent, NoSignal, Entry, Signal,
      NoReply, NoTask, At, ReplyKinds, Phases, MaxCalls, HandlerTypeOK, Task, CupsTypeOK

(* The store keeps its type through each critical section.                 *)
StoreOK == StoreTypeOK /\ EntryNamed

LEMMA PruneType ==
    ASSUME StoreOK
    PROVE  /\ Pruned \in [Keys -> Entry]
           /\ PrunedSignals \in [Tokens -> Signal]
           /\ \A k \in Keys : Pruned[k].state # "absent" =>
                   Pruned[k] = entries[k] /\ Pruned[k].token \in Tokens
  BY StoreAssumption
  DEF StoreOK, StoreTypeOK, EntryNamed, Pruned, PrunedSignals, Absent, Dropped,
      Entry, Signal

LEMMA BeginFreshType ==
    ASSUME StoreOK, NEW k \in Keys, NEW p \in Payloads \cup {None},
           NEW t \in Tokens, BeginFresh(k, p, t)
    PROVE  StoreOK'
<1>1. PICK gone \in Evictions(Pruned) :
         entries' = [l \in Keys |-> IF l = k THEN InProgress(p, t)
                                    ELSE IF l \in gone THEN Absent ELSE Pruned[l]]
  BY DEF BeginFresh
<1>2. /\ InProgress(p, t) \in Entry /\ InProgress(p, t).token \in Tokens
      /\ Absent \in Entry /\ Absent.state = "absent"
      /\ Pending \in Signal
  BY StoreAssumption DEF InProgress, Absent, Pending, Entry, Signal
<1>3. entries' \in [Keys -> Entry]
  BY <1>1, <1>2, PruneType
<1>4. signals' \in [Tokens -> Signal]
  BY <1>2, PruneType DEF BeginFresh
<1>5. EntryNamed'
  BY <1>1, <1>2, PruneType DEF EntryNamed
<1>6. QED
  BY <1>3, <1>4, <1>5 DEF StoreOK, StoreTypeOK

LEMMA PruneKeepsType ==
    ASSUME StoreOK, Prune
    PROVE  StoreOK'
  BY PruneType DEF Prune, StoreOK, StoreTypeOK, EntryNamed

LEMMA CompleteAbortType ==
    ASSUME StoreOK, NEW k \in Keys, NEW p \in Payloads \cup {None}, NEW t \in Tokens
    PROVE  /\ Complete(k, p, t) => entries' \in [Keys -> Entry] /\ EntryNamed'
           /\ Abort(k, t) => entries' \in [Keys -> Entry] /\ EntryNamed'
           /\ CompleteHandle(k) \in Tokens \cup {None}
           /\ AbortHandle(k, t) \in Tokens \cup {None}
  BY StoreAssumption
  DEF StoreOK, StoreTypeOK, EntryNamed, Complete, Abort, CompleteHandle,
      AbortHandle, OwnedBy, Completed, Absent, Entry

LEMMA SendType ==
    ASSUME StoreOK, NEW h \in Tokens \cup {None}, NEW o \in Signal, Send(h, o)
    PROVE  signals' \in [Tokens -> Signal]
  BY DEF StoreOK, StoreTypeOK, Send

-----------------------------------------------------------------------------
(* Types and control: the first half of the inductive invariant.           *)

LEMMA InitShape == Init => EntryNamed /\ ControlOK
  BY SubmissionAssumption
  DEF Init, StoreInit, EntryNamed, Absent, ControlOK, NoTask, At, InCall, Settling, Closing

Shape == TypeOK /\ EntryNamed /\ ControlOK

LEMMA AtType ==
    ASSUME NEW phase \in Phases, NEW calls \in 0..MaxCalls, NEW job \in Requests \cup {None}
    PROVE  At(phase, calls, job) \in Task
  BY SubmissionAssumption DEF At, Task

LEMMA NewTaskType == /\ NewTask \in Task
                     /\ NewTask.phase = "find"
                     /\ NewTask.calls = 1
                     /\ NewTask.elapsed = 0
<1>1. 1 \in 0..MaxCalls /\ "find" \in Phases
  BY SubmissionAssumption DEF MaxCalls, Phases, InCall
<1>2. NewTask \in Task
  BY <1>1, AtType DEF NewTask
<1>3. QED
  BY <1>2 DEF NewTask, At

LEMMA HandlerShape ==
    ASSUME Shape, NEW r \in Requests,
           Handler(r) \/ WaitTimeout(r) \/ Leave(r) \/ \E d \in Demands : Arrive(r, d)
    PROVE  Shape'
<1> USE SubmissionAssumption DEF Waiting
<1>s. StoreOK /\ HandlerTypeOK /\ task \in [Requests -> Task] /\ CupsTypeOK /\ ControlOK
  BY DEF Shape, TypeOK, StoreOK
<1>q. SUFFICES StoreOK' /\ HandlerTypeOK' /\ (task \in [Requests -> Task])'
                 /\ CupsTypeOK' /\ ControlOK'
  BY DEF Shape, TypeOK, StoreOK
<1>f. ASSUME Forget PROVE printed' \in [Keys -> SUBSET Requests]
  BY <1>f, <1>s DEF Forget, CupsTypeOK
<1>r. ASSUME NEW a \in [kind : ReplyKinds, job : Requests \cup {None}],
             Answer(r, a), req' = req
      PROVE  HandlerTypeOK'
  BY <1>s, <1>r DEF Answer, HandlerTypeOK
<1>c. ASSUME NEW a, Answer(r, a), UNCHANGED <<req, task>>
      PROVE  ControlOK'
  BY <1>s, <1>c DEF Answer, ControlOK, HandlerTypeOK, InCall, Settling, Closing
<1>k. ASSUME NEW kind \in ReplyKinds
      PROVE  Reply(kind) \in [kind : ReplyKinds, job : Requests \cup {None}]
  BY DEF Reply
<1> DEFINE Goal == StoreOK' /\ HandlerTypeOK' /\ (task \in [Requests -> Task])'
                    /\ CupsTypeOK' /\ ControlOK'
<1>1. ASSUME NEW d \in Demands, Arrive(r, d) PROVE Goal
  <2>1. StoreOK' /\ CupsTypeOK'
    BY <1>s, <1>1 DEF Arrive, StoreOK, StoreTypeOK, EntryNamed, CupsTypeOK
  <2>2. HandlerTypeOK'
    BY <1>s, <1>1 DEF Arrive, HandlerTypeOK
  <2>3. (task \in [Requests -> Task])'
    BY <1>s, <1>1, NewTaskType DEF Arrive
  <2>4. ControlOK'
    BY <1>s, <1>1, NewTaskType
    DEF Arrive, ControlOK, HandlerTypeOK, InCall, Settling, Closing
  <2>5. QED
    BY <2>1, <2>2, <2>3, <2>4
<1>2. CASE DecideFresh(r)
  <2>0. Key(r) \in Keys /\ Payload(r) \in Payloads \cup {None}
    BY <1>s, <1>2 DEF DecideFresh, ControlOK, HandlerTypeOK
  <2>1. StoreOK'
    BY <1>s, <1>2, <2>0, BeginFreshType DEF DecideFresh
  <2>2. HandlerTypeOK' /\ CupsTypeOK'
    BY <1>s, <1>f, <1>2 DEF DecideFresh, HandlerTypeOK, CupsTypeOK
  <2>3. (task \in [Requests -> Task])'
    BY <1>s, <1>2, NewTaskType DEF DecideFresh
  <2>4. ControlOK'
    BY <1>s, <1>2, NewTaskType
    DEF DecideFresh, ControlOK, HandlerTypeOK, InCall, Settling, Closing
  <2>5. QED
    BY <2>1, <2>2, <2>3, <2>4
<1>3. CASE DecideJoin(r)
  <2>0. Key(r) \in Keys
    BY <1>s, <1>3 DEF DecideJoin, ControlOK
  <2>1. StoreOK'
    BY <1>s, <1>3, PruneKeepsType DEF DecideJoin, BeginJoin
  <2>2. entries[Key(r)].token \in Requests
    BY <1>s, <1>3, <2>0, PruneType DEF DecideJoin, BeginJoin
  <2>3. HandlerTypeOK' /\ CupsTypeOK' /\ (task \in [Requests -> Task])'
    BY <1>s, <1>f, <1>3, <2>2 DEF DecideJoin, HandlerTypeOK, CupsTypeOK
  <2>4. ControlOK'
    BY <1>s, <1>3, <2>2
    DEF DecideJoin, ControlOK, HandlerTypeOK, InCall, Settling, Closing
  <2>5. QED
    BY <2>1, <2>3, <2>4
<1>4. CASE DecideReplay(r)
  <2>0. Key(r) \in Keys
    BY <1>s, <1>4 DEF DecideReplay, ControlOK
  <2>1. StoreOK'
    BY <1>s, <1>4, PruneKeepsType DEF DecideReplay, BeginReplay
  <2>2. entries[Key(r)].token \in Requests
    BY <1>s, <1>4, <2>0, PruneType DEF DecideReplay, BeginReplay
  <2>3. HandlerTypeOK' /\ ControlOK'
    BY <1>r, <1>c, <1>4, <2>2 DEF DecideReplay, ReplyKinds
  <2>4. CupsTypeOK' /\ (task \in [Requests -> Task])'
    BY <1>s, <1>f, <1>4 DEF DecideReplay, CupsTypeOK
  <2>5. QED
    BY <2>1, <2>3, <2>4
<1>5. CASE DecideConflict(r)
  <2>1. StoreOK'
    BY <1>s, <1>5, PruneKeepsType DEF DecideConflict, BeginConflict
  <2>2. HandlerTypeOK' /\ ControlOK'
    BY <1>r, <1>c, <1>k, <1>5 DEF DecideConflict, ReplyKinds
  <2>3. CupsTypeOK' /\ (task \in [Requests -> Task])'
    BY <1>s, <1>f, <1>5 DEF DecideConflict, CupsTypeOK
  <2>4. QED
    BY <2>1, <2>2, <2>3
<1>u. ASSUME UNCHANGED <<storeVars, cupsVars, task>>
      PROVE  StoreOK' /\ CupsTypeOK' /\ (task \in [Requests -> Task])'
  BY <1>s, <1>u DEF StoreOK, StoreTypeOK, EntryNamed, CupsTypeOK
<1>6. CASE Wake(r)
  <2>1. StoreOK' /\ CupsTypeOK' /\ (task \in [Requests -> Task])' /\ req' = req
    BY <1>u, <1>6 DEF Wake
  <2>2. signals[joined[r]] \in Signal
    BY <1>s, <1>6 DEF Wake, ControlOK, StoreOK, StoreTypeOK
  <2>3. CASE Answer(r, [kind |-> "replayed", job |-> signals[joined[r]].job])
    BY <1>r, <1>c, <1>6, <2>1, <2>2, <2>3 DEF Wake, ReplyKinds, Signal
  <2>4. CASE Answer(r, Reply("in_progress"))
    BY <1>r, <1>c, <1>k, <1>6, <2>1, <2>4 DEF Wake, ReplyKinds
  <2>5. CASE /\ http' = [http EXCEPT ![r] = "begin"]
             /\ joined' = [joined EXCEPT ![r] = None]
             /\ UNCHANGED reply
    BY <1>s, <1>6, <2>1, <2>5
    DEF Wake, HandlerTypeOK, ControlOK, InCall, Settling, Closing
  <2>6. QED
    BY <1>6, <2>3, <2>4, <2>5 DEF Wake
<1>7. CASE TaskEnded(r)
  <2>1. task[r].job \in Requests \cup {None}
    BY <1>s DEF Task
  <2>2. QED
    BY <1>r, <1>c, <1>k, <1>u, <1>7, <2>1 DEF TaskEnded, ReplyKinds
<1>8. CASE WaitTimeout(r) \/ Leave(r)
  BY <1>r, <1>c, <1>k, <1>u, <1>8 DEF WaitTimeout, Leave, ReplyKinds
<1>9. QED
  BY <1>1, <1>2, <1>3, <1>4, <1>5, <1>6, <1>7, <1>8 DEF Handler, Decide

LEMMA TaskShape ==
    ASSUME Shape, NEW r \in Requests,
           TaskStep(r) \/ CupsAccepts(r) \/ LateAccept(r) \/ Panic(r)
    PROVE  Shape'
<1> USE SubmissionAssumption
<1> DEFINE TaskOK == (task \in [Requests -> Task])' /\ ControlOK'
           Fixed == StoreOK' /\ HandlerTypeOK'
<1>s. StoreOK /\ HandlerTypeOK /\ task \in [Requests -> Task] /\ CupsTypeOK /\ ControlOK
  BY DEF Shape, TypeOK, StoreOK
<1>q. SUFFICES StoreOK' /\ HandlerTypeOK' /\ (task \in [Requests -> Task])'
                 /\ CupsTypeOK' /\ ControlOK'
  BY DEF Shape, TypeOK, StoreOK
<1>h. ASSUME UNCHANGED handlerVars PROVE HandlerTypeOK'
  BY <1>s, <1>h DEF HandlerTypeOK
<1>u. ASSUME UNCHANGED storeVars PROVE StoreOK'
  BY <1>s, <1>u DEF StoreOK, StoreTypeOK, EntryNamed
<1>p. ASSUME UNCHANGED cupsVars PROVE CupsTypeOK'
  BY <1>s, <1>p DEF CupsTypeOK
(* A move of r's own task, of which only the new phase matters.            *)
<1>m. ASSUME NEW t \in Task, task' = [task EXCEPT ![r] = t],
             UNCHANGED handlerVars, task[r].phase # "none",
             t.phase \in {"reconcile"} \cup Settling \cup Closing => Keyed(r),
             t.phase \in InCall => t.calls >= 1,
             t.phase = "find" => t.calls <= FindCalls,
             t.phase \in {"send", "sent"} => t.calls <= FindCalls + 1
      PROVE  TaskOK
  BY <1>s, <1>m DEF ControlOK
<1>g. ASSUME NEW phase \in Phases \ InCall, NEW job \in Requests \cup {None},
             Goto(r, phase, job), UNCHANGED handlerVars,
             task[r].phase # "none", phase # "done" => Keyed(r)
      PROVE  TaskOK
  <2> DEFINE t == At(phase, 0, job)
  <2>1. 0 \in 0..MaxCalls
    BY DEF MaxCalls
  <2>2. t \in Task
    BY <1>g, <2>1, AtType
  <2>3. t.phase = phase /\ task' = [task EXCEPT ![r] = t]
    BY <1>g DEF Goto, At
  <2>4. phase \notin InCall /\ phase \notin {"reconcile", "find", "send", "sent"}
    BY <1>g DEF InCall
  <2> HIDE DEF t
  <2>5. phase \in {"reconcile"} \cup Settling \cup Closing => Keyed(r)
    BY <1>g DEF Settling, Closing
  <2>6. QED
    BY <1>m, <1>g, <2>2, <2>3, <2>4, <2>5
<1>v. ASSUME GiveUp(r), UNCHANGED handlerVars, task[r].phase # "none"
      PROVE  TaskOK
  BY <1>g, <1>v DEF GiveUp, Phases, InCall, Settling
<1>l. ASSUME NEW phase \in InCall, Call(r, phase), UNCHANGED handlerVars,
             task[r].phase # "none", phase = "reconcile" => Keyed(r),
             task[r].calls < MaxCalls,
             phase = "find" => task[r].calls < FindCalls,
             phase \in {"send", "sent"} => task[r].calls <= FindCalls
      PROVE  TaskOK
  <2> DEFINE t == At(phase, task[r].calls + 1, None)
  <2>0. task[r].calls \in Nat /\ MaxCalls \in Nat
    BY <1>s DEF Task, MaxCalls
  <2>1. task[r].calls + 1 \in 0..MaxCalls
    BY <1>l, <2>0
  <2>2. t \in Task
    BY <1>l, <2>1, AtType DEF Phases
  <2>3. t.phase = phase /\ t.calls = task[r].calls + 1
    BY DEF At
  <2>4. task' = [task EXCEPT ![r] = t]
    BY <1>s, <1>l DEF Call
  <2>5. phase \notin Settling \cup Closing
    BY <1>l DEF InCall, Settling, Closing
  <2> HIDE DEF t
  <2>6. /\ t.phase \in {"reconcile"} \cup Settling \cup Closing => Keyed(r)
        /\ t.phase \in InCall => t.calls >= 1
        /\ t.phase = "find" => t.calls <= FindCalls
        /\ t.phase \in {"send", "sent"} => t.calls <= FindCalls + 1
    BY <1>l, <2>0, <2>3, <2>5
  <2>7. QED
    BY <1>m, <1>l, <2>2, <2>4, <2>6
<1>n. ASSUME Unanswered(r), UNCHANGED handlerVars,
             task[r].phase \in {"find", "send", "sent"}
      PROVE  TaskOK
  <2>1. task[r].calls \in Nat /\ task[r].calls < MaxCalls
    BY <1>s, <1>n DEF Task, ControlOK, MaxCalls
  <2>2. CASE Keyed(r)
    BY <1>l, <1>n, <2>1, <2>2 DEF Unanswered, InCall
  <2>3. CASE ~Keyed(r)
    BY <1>v, <1>n, <2>3 DEF Unanswered
  <2>4. QED
    BY <2>2, <2>3
<1>o. ASSUME Succeed(r), UNCHANGED handlerVars, task[r].phase # "none"
      PROVE  TaskOK
  BY <1>g, <1>o DEF Succeed, Phases, InCall, Settling
<1>1. CASE FindNextCall(r)
  BY <1>s, <1>h, <1>u, <1>p, <1>l, <1>1 DEF FindNextCall, InCall, MaxCalls, Task
<1>2. CASE StartPrintJob(r)
  BY <1>s, <1>h, <1>u, <1>p, <1>l, <1>2
  DEF StartPrintJob, InCall, MaxCalls, Task, ControlOK
<1>3. CASE RefuseLocally(r) \/ CupsRefuses(r) \/ PrintJobGarbled(r)
             \/ ReconcileMisses(r) \/ ReconcileFails(r)
  BY <1>h, <1>u, <1>p, <1>v, <1>3
  DEF RefuseLocally, CupsRefuses, PrintJobGarbled, ReconcileMisses, ReconcileFails
<1>4. CASE FindUnanswered(r)
  BY <1>h, <1>u, <1>p, <1>n, <1>4 DEF FindUnanswered
<1>5. CASE PrintJobUnanswered(r)
  <2>1. CupsTypeOK'
    BY <1>s, <1>5 DEF PrintJobUnanswered, CupsTypeOK
  <2>2. QED
    BY <1>h, <1>u, <1>n, <1>5, <2>1 DEF PrintJobUnanswered
<1>6. CASE PrintJobAnswered(r) \/ ReconcileFinds(r)
  <2>1. CupsTypeOK'
    BY <1>s, <1>6 DEF PrintJobAnswered, ReconcileFinds, Succeed, CupsTypeOK
  <2>2. QED
    BY <1>h, <1>u, <1>o, <1>6, <2>1 DEF PrintJobAnswered, ReconcileFinds
<1>a. ASSUME AddJob(r), UNCHANGED entered, late' \subseteq late PROVE CupsTypeOK'
  BY <1>s, <1>a DEF AddJob, CupsTypeOK
<1>7. CASE CupsAccepts(r)
  <2> DEFINE t == [task[r] EXCEPT !.phase = "sent"]
  <2>1. t \in Task /\ t.phase = "sent" /\ t.calls = task[r].calls
    BY <1>s DEF Task, Phases, InCall
  <2>2. task' = [task EXCEPT ![r] = t] /\ task[r].phase = "send"
    BY <1>s, <1>7 DEF CupsAccepts, Task
  <2>3. task[r].calls >= 1 /\ task[r].calls <= FindCalls + 1
    BY <1>s, <2>2 DEF ControlOK, InCall
  <2> HIDE DEF t
  <2>4. TaskOK
    BY <1>m, <1>7, <2>1, <2>2, <2>3 DEF CupsAccepts, Settling, Closing
  <2>5. QED
    BY <1>a, <1>h, <1>u, <1>7, <2>4 DEF CupsAccepts
<1>8. CASE LateAccept(r)
  <2>1. UNCHANGED <<task, handlerVars>> => TaskOK
    BY <1>s DEF ControlOK
  <2>2. QED
    BY <1>a, <1>h, <1>u, <1>8, <2>1 DEF LateAccept
<1>k. ASSUME NEW phase \in Closing, NEW h \in Requests \cup {None},
             task' = [task EXCEPT ![r].phase = phase, ![r].handle = h],
             task[r].phase \in Settling \cup Closing, UNCHANGED handlerVars
      PROVE  TaskOK
  <2> DEFINE t == [task[r] EXCEPT !.phase = phase, !.handle = h]
  <2>1. t \in Task /\ t.phase = phase
    BY <1>s DEF Task, Phases
  <2>2. task' = [task EXCEPT ![r] = t]
    BY <1>s, <1>k DEF Task
  <2>3. Keyed(r) /\ task[r].phase # "none"
    BY <1>s, <1>k DEF ControlOK, Settling, Closing
  <2> HIDE DEF t
  <2>4. QED
    BY <1>m, <1>k, <2>1, <2>2, <2>3 DEF InCall, Closing
<1>t. ASSUME task[r].phase \in Settling \cup Closing
      PROVE  Key(r) \in Keys /\ Payload(r) \in Payloads \cup {None}
  BY <1>s, <1>t DEF ControlOK, HandlerTypeOK
<1>9. CASE CompleteKey(r)
  <2>1. /\ (entries \in [Keys -> Entry])' /\ EntryNamed'
        /\ CompleteHandle(Key(r)) \in Requests \cup {None}
    BY <1>s, <1>t, <1>9, CompleteAbortType DEF CompleteKey, Settling
  <2>2. StoreOK'
    BY <1>s, <1>9, <2>1 DEF CompleteKey, StoreOK, StoreTypeOK
  <2>3. QED
    BY <1>h, <1>p, <1>k, <1>9, <2>1, <2>2 DEF CompleteKey, Settling, Closing
<1>10. CASE AbortKey(r)
  <2>1. /\ (entries \in [Keys -> Entry])' /\ EntryNamed'
        /\ AbortHandle(Key(r), r) \in Requests \cup {None}
    BY <1>s, <1>t, <1>10, CompleteAbortType DEF AbortKey, Settling
  <2>2. StoreOK'
    BY <1>s, <1>10, <2>1 DEF AbortKey, StoreOK, StoreTypeOK
  <2>3. QED
    BY <1>h, <1>p, <1>k, <1>10, <2>1, <2>2 DEF AbortKey, Settling, Closing
<1>11. CASE Notify(r)
  <2>1. /\ task[r].handle \in Tokens \cup {None}
        /\ (IF task[r].job = None THEN Aborted ELSE Settled(task[r].job)) \in Signal
    BY <1>s DEF Task, Signal, Aborted, Settled
  <2>2. (signals \in [Tokens -> Signal])'
    BY <1>s, <1>11, <2>1, SendType DEF Notify
  <2>3. StoreOK'
    BY <1>s, <1>11, <2>2 DEF Notify, StoreOK, StoreTypeOK, EntryNamed
  <2>4. QED
    BY <1>h, <1>p, <1>k, <1>11, <2>3 DEF Notify, Closing
<1>12. CASE DropGuard(r)
  <2>1. /\ (entries \in [Keys -> Entry])' /\ EntryNamed'
        /\ AbortHandle(Key(r), r) \in Tokens \cup {None}
    BY <1>s, <1>t, <1>12, CompleteAbortType DEF DropGuard, Closing
  <2>2. Aborted \in Signal
    BY DEF Aborted, Signal
  <2>3. (signals \in [Tokens -> Signal])'
    BY <1>s, <1>12, <2>1, <2>2, SendType DEF DropGuard
  <2>4. StoreOK'
    BY <2>1, <2>3 DEF StoreOK, StoreTypeOK
  <2>5. QED
    BY <1>s, <1>h, <1>p, <1>g, <1>12, <2>4 DEF DropGuard, Phases, InCall, Task
<1>13. CASE Panic(r)
  <2>1. task[r].phase # "none"
    BY <1>13 DEF Panic
  <2>2. TaskOK
    BY <1>g, <1>13, <2>1 DEF Panic, Phases, InCall, Closing
  <2>3. QED
    BY <1>h, <1>u, <1>p, <1>13, <2>2 DEF Panic
<1>14. QED
  BY <1>1, <1>2, <1>3, <1>4, <1>5, <1>6, <1>7, <1>8, <1>9, <1>10, <1>11, <1>12, <1>13
  DEF TaskStep, PrintJob, Settle

LEMMA PruneShape ==
    ASSUME Shape, CleanupPrune
    PROVE  Shape'
<1>s. StoreOK /\ HandlerTypeOK /\ task \in [Requests -> Task] /\ CupsTypeOK /\ ControlOK
  BY DEF Shape, TypeOK, StoreOK
<1>1. StoreOK'
  BY <1>s, PruneKeepsType DEF CleanupPrune
<1>2. HandlerTypeOK' /\ (task \in [Requests -> Task])' /\ ControlOK'
  BY <1>s DEF CleanupPrune, HandlerTypeOK, ControlOK
<1>3. CupsTypeOK'
  BY <1>s DEF CleanupPrune, Forget, CupsTypeOK
<1>4. QED
  BY <1>1, <1>2, <1>3 DEF Shape, TypeOK, StoreOK

LEMMA OlderType ==
    ASSUME NEW e \in Entry
    PROVE  /\ Older(e) \in Entry
           /\ Older(e).state = e.state
           /\ Older(e).token = e.token
           /\ Older(e).age <= e.age + 1
  BY StoreAssumption DEF Older, Entry

LEMMA TickShape ==
    ASSUME Shape, Tick
    PROVE  Shape'
<1> USE SubmissionAssumption
<1>s. StoreOK /\ HandlerTypeOK /\ task \in [Requests -> Task] /\ CupsTypeOK /\ ControlOK
  BY DEF Shape, TypeOK, StoreOK
<1>1. StoreOK'
  BY <1>s, OlderType DEF Tick, StoreOK, StoreTypeOK, EntryNamed
<1>2. ASSUME NEW r \in Requests
      PROVE  /\ task'[r] \in Task
             /\ task'[r].phase = task[r].phase
             /\ task'[r].calls = task[r].calls
  <2>t. /\ task[r] \in Task
        /\ task'[r] = IF task[r].phase \in InCall
                      THEN [task[r] EXCEPT !.elapsed = @ + 1] ELSE task[r]
    BY <1>s, <1>2 DEF Tick
  <2>1. CASE task[r].phase \in InCall
    <3>1. task[r].elapsed + 1 \in 0..IppTimeout
      BY <1>2, <2>1, <2>t DEF Tick, CallMayLast, Task
    <3>2. QED
      BY <2>1, <2>t, <3>1 DEF Task
  <2>2. CASE task[r].phase \notin InCall
    BY <2>2, <2>t
  <2>3. QED
    BY <2>1, <2>2
<1>3. (task \in [Requests -> Task])'
  BY <1>2 DEF Tick
<1>4. HandlerTypeOK' /\ CupsTypeOK'
  BY <1>s DEF Tick, HandlerTypeOK, CupsTypeOK
<1>5. ControlOK'
  BY <1>s, <1>2 DEF Tick, ControlOK
<1>6. QED
  BY <1>1, <1>3, <1>4, <1>5 DEF Shape, TypeOK, StoreOK

LEMMA NextShape == Shape /\ [Next]_vars => Shape'
<1> SUFFICES ASSUME Shape, [Next]_vars PROVE Shape'
  OBVIOUS
<1>1. CASE UNCHANGED vars
  BY <1>1
  DEF vars, Shape, TypeOK, StoreTypeOK, HandlerTypeOK, CupsTypeOK, EntryNamed, ControlOK
<1>2. CASE Next
  BY <1>2, HandlerShape, TaskShape, PruneShape, TickShape DEF Next, Environment
<1>3. QED
  BY <1>1, <1>2

\* Every reachable state is well typed, and EntryNamed and ControlOK hold in
\* it: what a handler and its task do depends on each other as they say.
THEOREM ShapeCorrect == Spec => []Shape
<1>1. Init => Shape
  BY InitTypeOK, InitShape DEF Shape
<1>2. QED
  BY <1>1, NextShape, PTL DEF Spec

\* The variables of the submission path keep their types: no age passes the
\* retention period, no task makes more IPP calls than a submission needs.
THEOREM TypeCorrect == Spec => []TypeOK
<1>1. Shape => TypeOK
  BY DEF Shape
<1>2. QED
  BY <1>1, ShapeCorrect, PTL

-----------------------------------------------------------------------------
(* Ownership.  A task that has not settled its key owns the key's entry     *)
(* (LiveOwns).  Nobody else can take the entry from it: abort compares     *)
(* tokens, enforce_capacity spares entries in progress, complete comes     *)
(* from the owner, and prune finds the entry too young (EntryYoung), since *)
(* the entry's age is bounded by the IPP calls its task has waited for.    *)

Guarded(r) ==
    Live(r) =>
        /\ OwnedBy(Key(r), r)
        /\ task[r].phase \in InCall =>
              entries[Key(r)].age <= Window(task[r].calls - 1) + task[r].elapsed
        /\ task[r].phase \in Settling =>
              entries[Key(r)].age <= Window(MaxCalls)

Held == Shape /\ LiveOwns /\ EntryYoung

LEMMA HeldMeaning == Held <=> Shape /\ \A r \in Requests : Guarded(r)
  BY DEF Held, LiveOwns, EntryYoung, Guarded, Live, Unsettled

-----------------------------------------------------------------------------
(* Arithmetic of the time a submission may take.                           *)

LEMMA WindowStep ==
    ASSUME NEW n \in Nat
    PROVE  Window(n) \in Nat /\ Window(n + 1) = Window(n) + IppTimeout
  BY SubmissionAssumption DEF Window

LEMMA WindowGrows ==
    ASSUME NEW m \in Nat, NEW n \in Nat, m <= n
    PROVE  Window(m) <= Window(n)
<1>1. n - m \in Nat /\ IppTimeout \in Nat
  BY SubmissionAssumption
<1>2. (n - m) * IppTimeout >= 0
  BY <1>1
<1>3. QED
  BY <1>1, <1>2 DEF Window

\* The entry of a live task is in progress, its own, and far from expiry.
LEMMA LiveHeld ==
    ASSUME Held, NEW r \in Requests, Live(r)
    PROVE  /\ Key(r) \in Keys
           /\ OwnedBy(Key(r), r)
           /\ entries[Key(r)].age \in Nat
           /\ entries[Key(r)].age <= Window(MaxCalls)
<1>s. StoreTypeOK /\ task \in [Requests -> Task] /\ ControlOK
  BY DEF Held, Shape, TypeOK
<1>1. Key(r) \in Keys /\ OwnedBy(Key(r), r)
  BY DEF Held, LiveOwns, Live
<1>2. entries[Key(r)].age \in Nat
  BY <1>s, <1>1, StoreAssumption DEF StoreTypeOK, Entry
<1>3. CASE task[r].phase \in Settling
  BY <1>1, <1>2, <1>3 DEF Held, EntryYoung
<1>4. CASE task[r].phase \in InCall
  <2>0. MaxCalls \in Nat /\ IppTimeout \in Nat
    BY SubmissionAssumption DEF MaxCalls
  <2>1. task[r].calls \in 1..MaxCalls /\ task[r].elapsed \in 0..IppTimeout
    BY <1>s, <1>4, <2>0 DEF ControlOK, Task
  <2>2. entries[Key(r)].age <= Window(task[r].calls - 1) + task[r].elapsed
    BY <1>1, <1>4 DEF Held, EntryYoung
  <2>3. task[r].calls - 1 \in Nat /\ task[r].calls \in Nat /\ (task[r].calls - 1) + 1 = task[r].calls
    BY <2>0, <2>1
  <2>4. Window(task[r].calls) = Window(task[r].calls - 1) + IppTimeout /\ Window(task[r].calls - 1) \in Nat
    BY <2>3, WindowStep
  <2>c. task[r].calls <= MaxCalls
    BY <2>0, <2>1
  <2>5. Window(task[r].calls) <= Window(MaxCalls)
    BY <2>0, <2>3, <2>c, WindowGrows
  <2>n. Window(MaxCalls) \in Nat
    BY <2>0, WindowStep
  <2>6. Window(task[r].calls - 1) + task[r].elapsed <= Window(task[r].calls)
    BY <2>0, <2>1, <2>4
  <2>7. entries[Key(r)].age <= Window(MaxCalls)
    BY <1>2, <2>0, <2>1, <2>2, <2>4, <2>5, <2>6, <2>n
  <2>8. QED
    BY <1>1, <1>2, <2>7
<1>5. QED
  BY <1>1, <1>2, <1>3, <1>4 DEF Live, Unsettled

LEMMA LiveUnexpired ==
    ASSUME Held, RetentionCoversWindow, NEW r \in Requests, Live(r)
    PROVE  /\ ~Expired(Key(r))
           /\ Pruned[Key(r)] = entries[Key(r)]
<1>1. Window(MaxCalls) \in Nat /\ Ttl \in Nat
  BY StoreAssumption, SubmissionAssumption, WindowStep DEF MaxCalls
<1>2. ~Expired(Key(r)) /\ Key(r) \in Keys
  BY <1>1, LiveHeld DEF Expired, RetentionCoversWindow
<1>3. QED
  BY <1>2 DEF Pruned

-----------------------------------------------------------------------------
(* What others do leaves the entry of a live task alone.                   *)

\* Two live tasks never share a key: each would own its entry.
LEMMA LiveAlone ==
    ASSUME Held, NEW r \in Requests, NEW s \in Requests,
           Live(r), Live(s), Key(r) = Key(s)
    PROVE  r = s
  BY LiveHeld DEF OwnedBy

LEMMA FreshSpares ==
    ASSUME Held, RetentionCoversWindow, NEW r \in Requests, NEW s \in Requests,
           Key(r) \in Keys, BeginFresh(Key(r), Payload(r), r), Live(s)
    PROVE  Key(s) # Key(r) /\ entries'[Key(s)] = entries[Key(s)]
<1>1. /\ Key(s) \in Keys /\ Pruned[Key(s)] = entries[Key(s)]
      /\ entries[Key(s)].state = "in_progress"
  BY LiveHeld, LiveUnexpired DEF OwnedBy
<1>2. Key(s) # Key(r)
  BY <1>1 DEF BeginFresh
<1>3. PICK gone \in Evictions(Pruned) :
         entries' = [l \in Keys |-> IF l = Key(r) THEN InProgress(Payload(r), r)
                                    ELSE IF l \in gone THEN Absent ELSE Pruned[l]]
  BY DEF BeginFresh
<1>4. Key(s) \notin gone
  BY <1>1, <1>3 DEF Evictions, CompletedKeys
<1>5. QED
  BY <1>1, <1>2, <1>3, <1>4

LEMMA PruneSpares ==
    ASSUME Held, RetentionCoversWindow, NEW s \in Requests, Prune, Live(s)
    PROVE  entries'[Key(s)] = entries[Key(s)]
  BY LiveUnexpired DEF Prune

\* Settling and closing tasks touch only an entry of their own.
LEMMA SettleSpares ==
    ASSUME Held, NEW r \in Requests, NEW s \in Requests, r # s, Live(s),
           CompleteKey(r) \/ AbortKey(r) \/ DropGuard(r)
    PROVE  entries'[Key(s)] = entries[Key(s)]
<1>s. StoreTypeOK /\ ControlOK
  BY DEF Held, Shape, TypeOK
<1>0. Key(s) \in Keys /\ OwnedBy(Key(s), s)
  BY LiveHeld
<1>1. CASE CompleteKey(r)
  <2>1. Live(r)
    BY <1>s, <1>1 DEF CompleteKey, ControlOK, Live, Unsettled, Settling
  <2>2. Key(r) # Key(s)
    BY <2>1, LiveAlone
  <2>3. QED
    BY <1>s, <1>0, <1>1, <2>2 DEF CompleteKey, Complete, StoreTypeOK
<1>2. CASE AbortKey(r) \/ DropGuard(r)
  <2>1. Abort(Key(r), r)
    BY <1>2 DEF AbortKey, DropGuard
  <2>2. CASE OwnedBy(Key(r), r)
    <3>1. Key(r) # Key(s)
      BY <1>0, <2>2 DEF OwnedBy
    <3>2. QED
      BY <1>s, <1>0, <2>1, <2>2, <3>1 DEF Abort, StoreTypeOK
  <2>3. CASE ~OwnedBy(Key(r), r)
    BY <2>1, <2>3 DEF Abort
  <2>4. QED
    BY <2>2, <2>3
<1>3. QED
  BY <1>1, <1>2
-----------------------------------------------------------------------------
(* How a step preserves Guarded.                                           *)

LEMMA GuardedFrame ==
    ASSUME NEW s \in Requests, Guarded(s),
           Live(s) => entries'[Key(s)] = entries[Key(s)],
           task'[s] = task[s], req'[s] = req[s]
    PROVE  Guarded(s)'
  BY DEF Guarded, Live, OwnedBy

\* A task that is still unsettled after a move of its own was so before, and
\* has at most begun another call.
LEMMA GuardedMove ==
    ASSUME Held, NEW r \in Requests, entries' = entries, req' = req,
           \/ task'[r].phase \notin Unsettled
           \/ /\ task[r].phase \in InCall
              /\ \/ task'[r].phase \in Settling
                 \/ /\ task'[r].phase \in InCall
                    /\ \/ /\ task'[r].calls = task[r].calls + 1
                          /\ task'[r].elapsed = 0
                       \/ /\ task'[r].calls = task[r].calls
                          /\ task'[r].elapsed = task[r].elapsed
    PROVE  Guarded(r)'
<1> SUFFICES ASSUME Live(r)' PROVE Guarded(r)'
  BY DEF Guarded
<1>s. task \in [Requests -> Task] /\ ControlOK
  BY DEF Held, Shape, TypeOK
<1>0. MaxCalls \in Nat /\ IppTimeout \in Nat
  BY SubmissionAssumption DEF MaxCalls
<1>1. Live(r) /\ task[r].phase \in InCall
  BY DEF Live, Unsettled
<1>2. /\ Key(r) \in Keys /\ OwnedBy(Key(r), r) /\ entries[Key(r)].age \in Nat
      /\ entries[Key(r)].age <= Window(MaxCalls)
  BY <1>1, LiveHeld
<1>3. OwnedBy(Key(r), r)'
  BY <1>2 DEF OwnedBy
<1>4. task[r].calls \in 1..MaxCalls /\ task[r].elapsed \in 0..IppTimeout
  BY <1>s, <1>0, <1>1 DEF ControlOK, Task
<1>5. entries[Key(r)].age <= Window(task[r].calls - 1) + task[r].elapsed
  BY <1>1 DEF Held, EntryYoung, Live
<1>6. CASE task'[r].phase \in Settling
  BY <1>2, <1>3, <1>6 DEF Guarded, Settling, InCall, MaxCalls, Window
<1>7. CASE task'[r].phase \in InCall /\ task'[r].calls = task[r].calls
                                    /\ task'[r].elapsed = task[r].elapsed
  BY <1>3, <1>5, <1>7 DEF Guarded, Settling, InCall, Window
<1>8. CASE task'[r].phase \in InCall /\ task'[r].calls = task[r].calls + 1
                                    /\ task'[r].elapsed = 0
  <2>1. task[r].calls - 1 \in Nat /\ (task[r].calls - 1) + 1 = task[r].calls
    BY <1>0, <1>4
  <2>2. /\ Window(task[r].calls) = Window(task[r].calls - 1) + IppTimeout
        /\ Window(task[r].calls - 1) \in Nat
    BY <2>1, WindowStep
  <2>3. entries[Key(r)].age <= Window(task[r].calls)
    BY <1>0, <1>2, <1>4, <1>5, <2>2
  <2>4. task'[r].calls - 1 = task[r].calls /\ Window(task[r].calls) \in Nat
    BY <1>0, <1>4, <1>8, <2>2
  <2>5. Window(task[r].calls - 1)' = Window(task[r].calls)
    BY <2>4 DEF Window
  <2>6. (entries[Key(r)].age <= Window(task[r].calls - 1) + task[r].elapsed)'
    BY <1>8, <2>3, <2>4, <2>5
  <2>7. QED
    BY <1>3, <1>8, <2>6 DEF Guarded, Settling, InCall
<1>9. QED
  BY <1>1, <1>6, <1>7, <1>8 DEF Live, Unsettled

\* What a step of PrintJob may do to its task and to everything else.
LEMMA PrintJobMove ==
    ASSUME Shape, NEW r \in Requests, PrintJob(r) \/ Panic(r) \/ CupsAccepts(r)
    PROVE  /\ UNCHANGED <<storeVars, handlerVars>>
           /\ \A s \in Requests \ {r} : task'[s] = task[s]
           /\ \/ task'[r].phase \notin Unsettled
              \/ /\ task[r].phase \in InCall
                 /\ \/ task'[r].phase \in Settling
                    \/ /\ task'[r].phase \in InCall
                       /\ \/ /\ task'[r].calls = task[r].calls + 1
                             /\ task'[r].elapsed = 0
                          \/ /\ task'[r].calls = task[r].calls
                             /\ task'[r].elapsed = task[r].elapsed
<1>s. task \in [Requests -> Task]
  BY DEF Shape, TypeOK
<1>g. ASSUME NEW phase, NEW job, Goto(r, phase, job)
      PROVE  /\ \A s \in Requests \ {r} : task'[s] = task[s]
             /\ task'[r].phase = phase
  BY <1>s, <1>g DEF Goto, At
<1>c. ASSUME NEW phase, Call(r, phase)
      PROVE  /\ \A s \in Requests \ {r} : task'[s] = task[s]
             /\ task'[r].phase = phase
             /\ task'[r].calls = task[r].calls + 1
             /\ task'[r].elapsed = 0
  BY <1>s, <1>c DEF Call, At
<1>1. CASE FindNextCall(r) \/ StartPrintJob(r)
  BY <1>c, <1>1 DEF FindNextCall, StartPrintJob, InCall
<1>2. CASE RefuseLocally(r) \/ CupsRefuses(r) \/ PrintJobGarbled(r)
             \/ ReconcileMisses(r) \/ ReconcileFails(r)
  BY <1>g, <1>2
  DEF RefuseLocally, CupsRefuses, PrintJobGarbled, ReconcileMisses, ReconcileFails,
      GiveUp, InCall, Settling, Unsettled
<1>3. CASE FindUnanswered(r) \/ PrintJobUnanswered(r)
  <2>1. CASE Keyed(r)
    BY <1>c, <1>3, <2>1 DEF FindUnanswered, PrintJobUnanswered, Unanswered, InCall
  <2>2. CASE ~Keyed(r)
    BY <1>g, <1>3, <2>2
    DEF FindUnanswered, PrintJobUnanswered, Unanswered, GiveUp, InCall, Settling, Unsettled
  <2>3. QED
    BY <2>1, <2>2
<1>4. CASE PrintJobAnswered(r) \/ ReconcileFinds(r)
  BY <1>g, <1>4
  DEF PrintJobAnswered, ReconcileFinds, Succeed, InCall, Settling, Unsettled
<1>5. CASE Panic(r)
  BY <1>g, <1>5 DEF Panic, InCall, Settling, Unsettled
<1>6. CASE CupsAccepts(r)
  BY <1>s, <1>6 DEF CupsAccepts, InCall, Task
<1>7. QED
  BY <1>1, <1>2, <1>3, <1>4, <1>5, <1>6 DEF PrintJob

\* A step of the task up to its settling, and what CUPS does to it.
Printing(r) == PrintJob(r) \/ Panic(r) \/ CupsAccepts(r)

LEMMA PrintingPhases ==
    ASSUME Shape, NEW r \in Requests, Printing(r)
    PROVE  /\ UNCHANGED <<storeVars, handlerVars>>
           /\ \A s \in Requests \ {r} : task'[s] = task[s]
           /\ task[r].phase \in InCall \cup {"complete"}
           /\ task'[r].phase \in InCall \cup Settling \cup {"drop", "done"}
           /\ Keyed(r) => task'[r].phase # "done"
<1>s. task \in [Requests -> Task]
  BY DEF Shape, TypeOK
<1>g. ASSUME NEW phase, NEW job, Goto(r, phase, job)
      PROVE  task'[r].phase = phase
  BY <1>s, <1>g DEF Goto, At
<1>c. ASSUME NEW phase, Call(r, phase)
      PROVE  task'[r].phase = phase
  BY <1>s, <1>c DEF Call, At
<1>1. CASE FindNextCall(r) \/ StartPrintJob(r)
  BY <1>c, <1>1, PrintJobMove DEF Printing, FindNextCall, StartPrintJob, InCall
<1>2. CASE RefuseLocally(r) \/ CupsRefuses(r) \/ PrintJobGarbled(r)
             \/ ReconcileMisses(r) \/ ReconcileFails(r)
  BY <1>g, <1>2, PrintJobMove
  DEF Printing, RefuseLocally, CupsRefuses, PrintJobGarbled, ReconcileMisses,
      ReconcileFails, GiveUp, InCall, Settling
<1>3. CASE FindUnanswered(r) \/ PrintJobUnanswered(r)
  BY <1>c, <1>g, <1>3, PrintJobMove
  DEF Printing, FindUnanswered, PrintJobUnanswered, Unanswered, GiveUp, InCall, Settling
<1>4. CASE PrintJobAnswered(r) \/ ReconcileFinds(r)
  BY <1>g, <1>4, PrintJobMove
  DEF Printing, PrintJobAnswered, ReconcileFinds, Succeed, InCall, Settling
<1>5. CASE Panic(r)
  BY <1>g, <1>5, PrintJobMove DEF Printing, Panic, InCall, Settling
<1>6. CASE CupsAccepts(r)
  BY <1>s, <1>6, PrintJobMove DEF Printing, CupsAccepts, InCall, Task
<1>7. QED
  BY <1>1, <1>2, <1>3, <1>4, <1>5, <1>6 DEF Printing, PrintJob

-----------------------------------------------------------------------------
LEMMA InitHeld == Init => Held
<1>1. Init => Shape
  BY InitTypeOK, InitShape DEF Shape
<1>2. Init => \A r \in Requests : ~Live(r)
  BY SubmissionAssumption DEF Init, Live
<1>3. QED
  BY <1>1, <1>2, HeldMeaning DEF Guarded

LEMMA TickGuarded ==
    ASSUME Held, Tick, NEW s \in Requests
    PROVE  Guarded(s)'
<1>t. Shape /\ entries \in [Keys -> Entry] /\ task \in [Requests -> Task]
  BY DEF Held, Shape, TypeOK, StoreTypeOK
<1> SUFFICES ASSUME Live(s)' PROVE Guarded(s)'
  BY DEF Guarded
<1>1. /\ req' = req /\ task'[s].phase = task[s].phase /\ task'[s].calls = task[s].calls
      /\ task[s].phase \in InCall => task'[s].elapsed = task[s].elapsed + 1
      /\ task[s].phase \notin Settling
  BY <1>t DEF Tick, Task
<1>2. Live(s) /\ task[s].phase \in InCall
  BY <1>1 DEF Live, Unsettled
<1>3. /\ Key(s) \in Keys /\ OwnedBy(Key(s), s)
      /\ entries[Key(s)].age <= Window(task[s].calls - 1) + task[s].elapsed
  BY <1>2, LiveHeld DEF Held, EntryYoung, Live
<1>4. entries[Key(s)] \in Entry /\ entries'[Key(s)] = Older(entries[Key(s)])
  BY <1>t, <1>3 DEF Tick
<1>5. OwnedBy(Key(s), s)'
  BY <1>1, <1>3, <1>4, OlderType DEF OwnedBy
<1>6. /\ entries'[Key(s)].age \in Nat /\ entries[Key(s)].age \in Nat
      /\ entries'[Key(s)].age <= entries[Key(s)].age + 1
      /\ task[s].elapsed \in Nat /\ task[s].calls \in 1..MaxCalls
      /\ MaxCalls \in Nat
  BY <1>t, <1>2, <1>4, OlderType, StoreAssumption, SubmissionAssumption
  DEF Entry, Task, Shape, ControlOK, MaxCalls
<1>7. task[s].calls - 1 \in Nat /\ Window(task[s].calls - 1) \in Nat
  BY <1>6, WindowStep
<1>8. entries'[Key(s)].age <= Window(task[s].calls - 1) + (task[s].elapsed + 1)
  BY <1>3, <1>6, <1>7
<1>9. QED
  BY <1>1, <1>2, <1>5, <1>8 DEF Guarded, Window

LEMMA NextHeld ==
    ASSUME Held, RetentionCoversWindow, [Next]_vars
    PROVE  Held'
<1>s. Shape /\ StoreTypeOK /\ task \in [Requests -> Task] /\ ControlOK
      /\ req \in [Requests -> [key : Keys \cup {NoKey}, payload : Payloads \cup {None}]]
  BY DEF Held, Shape, TypeOK, HandlerTypeOK
<1>1. Shape'
  BY <1>s, NextShape
<1>2. SUFFICES ASSUME NEW s \in Requests PROVE Guarded(s)'
  BY <1>1, HeldMeaning DEF Held, LiveOwns, EntryYoung, Guarded, Live, Unsettled
<1>g. Guarded(s)
  BY HeldMeaning
<1>f. ASSUME NEW r \in Requests, UNCHANGED <<req, task>>,
             Live(s) => entries'[Key(s)] = entries[Key(s)]
      PROVE  Guarded(s)'
  BY <1>g, <1>f, GuardedFrame
<1>3. CASE UNCHANGED vars
  BY <1>f, <1>3 DEF vars
<1>4. CASE Tick
  BY <1>4, TickGuarded
<1>5. CASE CleanupPrune
  BY <1>5, <1>f, PruneSpares DEF CleanupPrune
<1>6. ASSUME NEW r \in Requests, NEW d \in Demands, Arrive(r, d) PROVE Guarded(s)'
  <2>1. CASE s = r
    <3>1. task[r].phase = "none" /\ req'[r] = d
      BY <1>s, <1>6 DEF Arrive, ControlOK
    <3>2. CASE d.key = NoKey
      BY <2>1, <3>1, <3>2, SubmissionAssumption DEF Guarded, Live
    <3>3. CASE d.key # NoKey
      BY <1>6, <2>1, <3>1, <3>3
      DEF Arrive, Guarded, Live, Unsettled, InCall, Settling
    <3>4. QED
      BY <3>2, <3>3
  <2>2. CASE s # r
    BY <1>s, <1>g, <1>6, <2>2, GuardedFrame DEF Arrive
  <2>3. QED
    BY <2>1, <2>2
<1>7. ASSUME NEW r \in Requests, DecideFresh(r) PROVE Guarded(s)'
  <2>0. Key(r) \in Keys /\ req' = req /\ task' = [task EXCEPT ![r] = NewTask]
        /\ BeginFresh(Key(r), Payload(r), r)
    BY <1>s, <1>7 DEF DecideFresh, ControlOK
  <2>1. CASE s = r
    <3>1. entries'[Key(r)] = InProgress(Payload(r), r)
      BY <2>0 DEF BeginFresh
    <3>2. task'[r] = NewTask
      BY <1>s, <2>0
    <3>3. Window(0) = 0
      BY SubmissionAssumption DEF Window
    <3>4. QED
      BY <2>0, <2>1, <3>1, <3>2, <3>3, NewTaskType
      DEF Guarded, OwnedBy, InProgress, Window, InCall, Settling
  <2>2. CASE s # r
    <3>1. Live(s) => entries'[Key(s)] = entries[Key(s)]
      BY <2>0, FreshSpares
    <3>2. QED
      BY <1>s, <1>g, <2>0, <2>2, <3>1, GuardedFrame
  <2>3. QED
    BY <2>1, <2>2
<1>8. ASSUME NEW r \in Requests, DecideJoin(r) \/ DecideReplay(r) \/ DecideConflict(r)
      PROVE  Guarded(s)'
  <2>1. Prune /\ UNCHANGED <<req, task>>
    BY <1>8 DEF DecideJoin, DecideReplay, DecideConflict, BeginJoin, BeginReplay,
                BeginConflict
  <2>2. QED
    BY <1>f, <2>1, PruneSpares
<1>9. ASSUME NEW r \in Requests,
             Wake(r) \/ TaskEnded(r) \/ WaitTimeout(r) \/ Leave(r) \/ LateAccept(r)
      PROVE  Guarded(s)'
  BY <1>9, <1>f DEF Wake, TaskEnded, WaitTimeout, Leave, LateAccept
<1>10. ASSUME NEW r \in Requests, PrintJob(r) \/ Panic(r) \/ CupsAccepts(r)
       PROVE  Guarded(s)'
  <2>1. CASE s = r
    BY <1>s, <1>10, <2>1, PrintJobMove, GuardedMove
  <2>2. CASE s # r
    BY <1>s, <1>g, <1>10, <2>2, PrintJobMove, GuardedFrame
  <2>3. QED
    BY <2>1, <2>2
<1>11. ASSUME NEW r \in Requests, Settle(r) PROVE Guarded(s)'
  <2>0. task'[r].phase \notin Unsettled /\ req' = req
    BY <1>s, <1>11
    DEF Settle, CompleteKey, AbortKey, Notify, DropGuard, Goto, At, Unsettled,
        InCall, Settling, Task
  <2>1. CASE s = r
    BY <2>0, <2>1 DEF Guarded, Live
  <2>2. CASE s # r
    <3>1. task'[s] = task[s]
      BY <1>s, <1>11, <2>2
      DEF Settle, CompleteKey, AbortKey, Notify, DropGuard, Goto
    <3>2. Live(s) => entries'[Key(s)] = entries[Key(s)]
      BY <1>11, <2>2, SettleSpares DEF Settle, Notify
    <3>3. QED
      BY <1>g, <2>0, <3>1, <3>2, GuardedFrame
  <2>3. QED
    BY <2>1, <2>2
<1>12. QED
  BY <1>3, <1>4, <1>5, <1>6, <1>7, <1>8, <1>9, <1>10, <1>11
  DEF Next, Handler, Decide, TaskStep, Environment

\* If the retention period exceeds the longest a submission can take, every
\* unsettled task owns its key's entry at all times, whatever faults happen.
THEOREM HeldCorrect == RetentionCoversWindow => (Spec => []Held)
<1> SUFFICES ASSUME RetentionCoversWindow PROVE Spec => []Held
  OBVIOUS
<1>1. Held /\ [Next]_vars => Held'
  BY NextHeld
<1>2. QED
  BY <1>1, InitHeld, PTL DEF Spec

\* The inductive invariant the model checker saw hold is one for every instance.
THEOREM IndInvCorrect == RetentionCoversWindow => (Spec => []IndInv)
<1>1. Held => IndInv
  BY DEF Held, Shape, IndInv
<1>2. QED
  BY <1>1, HeldCorrect, PTL

\* SingleFlight: no key is ever worked on by two tasks at once, provided the
\* retention period exceeds the longest a submission can take.
THEOREM SingleFlightCorrect == RetentionCoversWindow => (Spec => []SingleFlight)
<1>1. Held => SingleFlight
  BY LiveAlone DEF SingleFlight
<1>2. QED
  BY <1>1, HeldCorrect, PTL

-----------------------------------------------------------------------------
(* At most one job, when CUPS answers the reconciliation.                  *)

\* Without faults CUPS never creates a job behind a client that gave up.
NoLate == late = {}

Vouched(k) ==
    \A r \in printed[k] :
        /\ Key(r) = k /\ r \in jobs /\ printed[k] = {r}
        /\ \/ entries[k].state = "completed" /\ entries[k].token = r
           \/ OwnedBy(k, r) /\ task[r].phase \in {"sent", "reconcile", "complete"}

LEMMA VouchedMeaning == PrintedVouched <=> \A k \in Keys : Vouched(k)
  BY DEF PrintedVouched, Vouched

LEMMA VouchedFrame ==
    ASSUME TypeOK, NEW k \in Keys, Vouched(k),
           printed'[k] = printed[k], jobs \subseteq jobs',
           \A r \in printed[k] :
              /\ req'[r] = req[r]
              /\ entries'[k] = entries[k]
              /\ \/ task'[r].phase = task[r].phase
                 \/ task'[r].phase \in {"sent", "reconcile", "complete"}
                 \/ entries[k].state = "completed"
    PROVE  Vouched(k)'
  BY DEF Vouched, OwnedBy

\* The store forgets a key only together with the job printed for it.
LEMMA ForgetVouched ==
    ASSUME Held, RetentionCoversWindow, PrintedVouched, NEW k \in Keys,
           Forget, UNCHANGED <<req, jobs>>,
           \A r \in printed[k] : task'[r] = task[r],
           \/ entries'[k] = Pruned[k]
           \/ Pruned[k].state = "completed" /\ entries'[k] = Absent
    PROVE  Vouched(k)'
<1>s. TypeOK
  BY DEF Held, Shape
<1>0. Vouched(k)
  BY VouchedMeaning
<1>1. CASE /\ entries[k].state = "completed"
           /\ Expired(k) \/ entries'[k].state = "absent"
  <2>1. printed'[k] = {}
    BY <1>1 DEF Forget
  <2>2. QED
    BY <2>1 DEF Vouched
<1>2. CASE ~ /\ entries[k].state = "completed"
             /\ Expired(k) \/ entries'[k].state = "absent"
  <2>1. printed'[k] = printed[k]
    BY <1>2 DEF Forget
  <2>2. ASSUME NEW r \in printed[k] PROVE entries'[k] = entries[k]
    <3>0. r \in Requests
      BY <1>s DEF TypeOK, CupsTypeOK
    <3>1. CASE entries[k].state = "completed"
      BY <1>2, <3>1 DEF Pruned, Absent
    <3>2. CASE OwnedBy(k, r) /\ task[r].phase \in {"sent", "reconcile", "complete"}
      <4>1. Key(r) = k /\ Live(r)
        BY <1>0, <2>2, <3>2 DEF Vouched, Live, Unsettled, InCall, Settling
      <4>2. Pruned[k] = entries[k]
        BY <3>0, <4>1, LiveUnexpired
      <4>3. QED
        BY <3>2, <4>2 DEF OwnedBy
    <3>3. QED
      BY <1>0, <2>2, <3>1, <3>2 DEF Vouched
  <2>3. QED
    BY <1>s, <1>0, <2>1, <2>2, VouchedFrame
<1>3. QED
  BY <1>1, <1>2

\* While a task is live, its key can have printed no job but the task's own.
LEMMA LiveSole ==
    ASSUME Held, PrintedVouched, NEW r \in Requests, Live(r), NEW s \in printed[Key(r)]
    PROVE  s = r /\ task[r].phase \in {"sent", "reconcile", "complete"}
<1>1. Key(r) \in Keys /\ OwnedBy(Key(r), r)
  BY LiveHeld
<1>2. QED
  BY <1>1 DEF PrintedVouched, OwnedBy

LEMMA FreshVouched ==
    ASSUME Held, RetentionCoversWindow, PrintedVouched, NEW r \in Requests,
           DecideFresh(r), NEW k \in Keys
    PROVE  Vouched(k)'
<1>s. TypeOK /\ ControlOK /\ task \in [Requests -> Task]
  BY DEF Held, Shape, TypeOK
<1>0. /\ Forget /\ UNCHANGED <<req, jobs>> /\ task' = [task EXCEPT ![r] = NewTask]
      /\ BeginFresh(Key(r), Payload(r), r) /\ Key(r) \in Keys
      /\ task[r].phase = "none"
  BY <1>s DEF DecideFresh, ControlOK
<1>1. PICK gone \in Evictions(Pruned) :
         entries' = [l \in Keys |-> IF l = Key(r) THEN InProgress(Payload(r), r)
                                    ELSE IF l \in gone THEN Absent ELSE Pruned[l]]
  BY <1>0 DEF BeginFresh
<1>2. CASE k = Key(r)
  <2>1. printed'[k] = {}
    <3> SUFFICES ASSUME NEW s \in printed[k], printed'[k] = printed[k] PROVE FALSE
      BY <1>0 DEF Forget
    <3>0. s \in Requests
      BY <1>s DEF TypeOK, CupsTypeOK
    <3>1. CASE entries[k].state = "completed"
      <4>1. Expired(k)
        BY <1>0, <1>2, <3>1 DEF BeginFresh, Pruned
      <4>2. printed'[k] = {}
        BY <1>0, <3>1, <4>1 DEF Forget
      <4>3. QED
        BY <4>2
    <3>2. CASE OwnedBy(k, s) /\ task[s].phase \in {"sent", "reconcile", "complete"}
      <4>1. Key(s) = k /\ Live(s)
        BY <3>2 DEF PrintedVouched, Live, Unsettled, InCall, Settling
      <4>2. QED
        BY <1>0, <1>2, <3>0, <4>1, FreshSpares
    <3>3. QED
      BY <3>1, <3>2 DEF PrintedVouched
  <2>2. QED
    BY <2>1 DEF Vouched
<1>3. CASE k # Key(r)
  <2>1. \/ entries'[k] = Pruned[k]
        \/ Pruned[k].state = "completed" /\ entries'[k] = Absent
    BY <1>1, <1>3 DEF Evictions, CompletedKeys
  <2>2. ASSUME NEW s \in printed[k] PROVE task'[s] = task[s]
    <3>1. Key(s) = k /\ s \in Requests
      BY <1>s DEF PrintedVouched, TypeOK, CupsTypeOK
    <3>2. QED
      BY <1>s, <1>0, <1>3, <3>1
  <2>3. QED
    BY <1>0, <2>1, <2>2, ForgetVouched
<1>4. QED
  BY <1>2, <1>3

LEMMA TaskVouched ==
    ASSUME Held, PrintedVouched, NoLate, Faults = {}, NEW r \in Requests,
           TaskStep(r) \/ CupsAccepts(r), NEW k \in Keys
    PROVE  Vouched(k)'
<1>s. /\ TypeOK /\ ControlOK /\ task \in [Requests -> Task] /\ StoreTypeOK
      /\ CupsTypeOK
  BY DEF Held, Shape, TypeOK
<1>0. Vouched(k) /\ printed[k] \subseteq Requests
  BY <1>s, VouchedMeaning DEF CupsTypeOK
<1>a. ASSUME NEW s \in printed[k] PROVE Key(s) = k
  BY <1>0 DEF Vouched
\* A step that prints nothing and leaves the store alone.
<1>q. ASSUME UNCHANGED <<req, printed, entries, jobs>>,
             \A s \in Requests \ {r} : task'[s] = task[s],
             r \in printed[k] => \/ task'[r].phase \in {"sent", "reconcile", "complete"}
                                \/ ~ Live(r)
      PROVE  Vouched(k)'
  <2>1. ASSUME NEW s \in printed[k]
        PROVE  \/ task'[s].phase = task[s].phase
               \/ task'[s].phase \in {"sent", "reconcile", "complete"}
               \/ entries[k].state = "completed"
    <3>1. CASE s = r /\ ~ Live(r)
      BY <1>0, <1>a, <2>1, <3>1 DEF Vouched, Live, Unsettled, InCall, Settling
    <3>2. QED
      BY <1>0, <1>q, <2>1, <3>1
  <2>2. QED
    BY <1>s, <1>0, <1>q, <2>1, VouchedFrame
<1>1. CASE PrintJob(r)
  <2>1. /\ UNCHANGED <<req, printed, entries, jobs>>
        /\ \A s \in Requests \ {r} : task'[s] = task[s]
    <3>1. UNCHANGED <<printed, jobs>>
      BY <1>1
      DEF PrintJob, FindNextCall, StartPrintJob, RefuseLocally, FindUnanswered,
          CupsRefuses, PrintJobUnanswered, PrintJobAnswered, PrintJobGarbled,
          ReconcileFinds, ReconcileMisses, ReconcileFails, Succeed
    <3>2. QED
      BY <1>1, <3>1, PrintJobMove DEF Held
  <2>2. ASSUME r \in printed[k], Live(r)
        PROVE  task'[r].phase \in {"sent", "reconcile", "complete"}
    <3>1. /\ r \in jobs /\ Keyed(r)
          /\ task[r].phase \in {"sent", "reconcile", "complete"}
      BY <1>0, <1>a, <2>2, LiveSole DEF Vouched
    <3>2. PrintJobUnanswered(r) \/ PrintJobAnswered(r) \/ ReconcileFinds(r)
      BY <1>1, <3>1
      DEF PrintJob, FindNextCall, StartPrintJob, RefuseLocally, FindUnanswered,
          CupsRefuses, PrintJobGarbled, ReconcileMisses, ReconcileFails
    <3>3. QED
      BY <1>s, <3>1, <3>2
      DEF PrintJobUnanswered, PrintJobAnswered, ReconcileFinds, Unanswered, Call,
          Succeed, Goto, At
  <2>3. QED
    BY <1>q, <2>1, <2>2
<1>2. CASE CupsAccepts(r)
  <2>0. /\ task[r].phase = "send" /\ AddJob(r) /\ UNCHANGED <<entries, req>>
        /\ task' = [task EXCEPT ![r].phase = "sent"]
    BY <1>2 DEF CupsAccepts
  <2>1. task'[r].phase = "sent" /\ \A s \in Requests \ {r} : task'[s] = task[s]
    BY <1>s, <2>0 DEF Task
  <2>2. CASE Key(r) = k
    <3>1. Live(r)
      BY <2>0, <2>2 DEF Live, Unsettled, InCall
    <3>2. printed[k] = {}
      BY <2>0, <2>2, <3>1, LiveSole
    <3>3. printed'[k] = {r} /\ r \in jobs'
      BY <1>s, <2>0, <2>2, <3>2 DEF AddJob, CupsTypeOK
    <3>4. OwnedBy(k, r)'
      BY <2>0, <2>2, <3>1, LiveHeld DEF OwnedBy
    <3>5. QED
      BY <2>0, <2>1, <2>2, <3>3, <3>4 DEF Vouched
  <2>3. CASE Key(r) # k
    <3>1. printed'[k] = printed[k] /\ jobs \subseteq jobs'
      BY <1>s, <2>0, <2>3 DEF AddJob, CupsTypeOK
    <3>2. \A s \in printed[k] : task'[s] = task[s]
      BY <1>0, <1>a, <2>1, <2>3
    <3>3. QED
      BY <1>s, <1>0, <2>0, <3>1, <3>2, VouchedFrame
  <2>4. QED
    BY <2>2, <2>3
<1>3. CASE CompleteKey(r)
  <2>0. /\ task[r].phase = "complete" /\ Complete(Key(r), Payload(r), r)
        /\ UNCHANGED <<req, printed, jobs>>
    BY <1>3 DEF CompleteKey
  <2>1. Keyed(r) /\ Live(r)
    BY <1>s, <2>0 DEF ControlOK, Live, Unsettled, Settling
  <2>2. CASE Key(r) = k
    <3>1. \A s \in printed[k] : s = r
      BY <2>1, <2>2, LiveSole
    <3>2. entries'[k].state = "completed" /\ entries'[k].token = r
      BY <1>s, <2>0, <2>1, <2>2 DEF Complete, Completed, StoreTypeOK
    <3>3. QED
      BY <1>0, <2>0, <3>1, <3>2 DEF Vouched
  <2>3. CASE Key(r) # k
    <3>1. entries'[k] = entries[k]
      BY <1>s, <2>0, <2>3 DEF Complete, StoreTypeOK
    <3>2. \A s \in printed[k] : task'[s] = task[s]
      BY <1>s, <1>0, <1>a, <1>3, <2>3 DEF CompleteKey
    <3>3. QED
      BY <1>s, <1>0, <2>0, <3>1, <3>2, VouchedFrame
  <2>4. QED
    BY <2>2, <2>3
<1>4. CASE AbortKey(r) \/ DropGuard(r)
  <2>0. /\ Abort(Key(r), r) /\ UNCHANGED <<req, printed, jobs>>
        /\ task[r].phase \in {"abort", "drop"}
        /\ \A s \in Requests \ {r} : task'[s] = task[s]
    BY <1>s, <1>4 DEF AbortKey, DropGuard, Goto
  <2>1. ASSUME NEW s \in printed[k] PROVE entries'[k] = entries[k]
    <3>1. ~ OwnedBy(k, r)
      <4> SUFFICES ASSUME OwnedBy(k, r) PROVE FALSE
        OBVIOUS
      <4>1. s = r
        BY <1>0, <2>1 DEF Vouched, OwnedBy
      <4>2. QED
        BY <1>0, <2>0, <2>1, <4>1 DEF Vouched, OwnedBy
    <3>2. QED
      BY <1>s, <2>0, <3>1 DEF Abort, StoreTypeOK
  <2>2. ASSUME NEW s \in printed[k]
        PROVE  task'[s] = task[s] \/ entries[k].state = "completed"
    <3>1. CASE s = r
      BY <1>0, <2>0, <2>2, <3>1 DEF Vouched
    <3>2. QED
      BY <1>0, <2>0, <2>2, <3>1
  <2>3. QED
    BY <1>s, <1>0, <2>0, <2>1, <2>2, VouchedFrame
<1>5. CASE Notify(r)
  <2>1. /\ UNCHANGED <<req, printed, entries, jobs>> /\ ~ Live(r)
        /\ \A s \in Requests \ {r} : task'[s] = task[s]
    BY <1>s, <1>5 DEF Notify, Live, Unsettled, InCall, Settling
  <2>2. QED
    BY <1>q, <2>1
<1>6. QED
  BY <1>1, <1>2, <1>3, <1>4, <1>5 DEF TaskStep, Settle

LEMMA TickVouched ==
    ASSUME Held, PrintedVouched, Tick, NEW k \in Keys
    PROVE  Vouched(k)'
<1>s. entries \in [Keys -> Entry] /\ task \in [Requests -> Task] /\ CupsTypeOK
  BY DEF Held, Shape, TypeOK, StoreTypeOK
<1>1. entries'[k] = Older(entries[k]) /\ entries[k] \in Entry
  BY <1>s DEF Tick
<1>2. entries'[k].state = entries[k].state /\ entries'[k].token = entries[k].token
  BY <1>1, OlderType
<1>3. \A r \in printed[k] : task'[r].phase = task[r].phase
  BY <1>s DEF Tick, Task, CupsTypeOK
<1>4. UNCHANGED <<req, jobs, printed>>
  BY DEF Tick
<1>5. QED
  BY <1>2, <1>3, <1>4 DEF PrintedVouched, Vouched, OwnedBy

LEMMA NextVouched ==
    ASSUME Held, RetentionCoversWindow, PrintedVouched, NoLate, Faults = {}, [Next]_vars
    PROVE  PrintedVouched' /\ NoLate'
<1>s. TypeOK /\ ControlOK /\ CupsTypeOK
  BY DEF Held, Shape, TypeOK
<1>l. NoLate'
  <2>1. ASSUME NEW r \in Requests, Handler(r) PROVE late' = late
    BY <2>1 DEF Handler, Decide, DecideFresh, DecideJoin, DecideReplay,
                DecideConflict, Wake, TaskEnded, cupsVars
  <2>2. ASSUME NEW r \in Requests, PrintJob(r) PROVE late' = late
    BY <2>2 DEF PrintJob, FindNextCall, StartPrintJob, RefuseLocally,
                FindUnanswered, CupsRefuses, PrintJobUnanswered, PrintJobAnswered,
                PrintJobGarbled, ReconcileFinds, ReconcileMisses, ReconcileFails,
                cupsVars
  <2>3. ASSUME NEW r \in Requests, Settle(r) PROVE late' = late
    BY <2>3 DEF Settle, CompleteKey, AbortKey, Notify, DropGuard, cupsVars
  <2>4. ASSUME NEW r \in Requests, Environment(r) PROVE late' = {}
    BY <2>4 DEF NoLate, Environment, Arrive, WaitTimeout, Leave, CupsAccepts,
                LateAccept, Panic, cupsVars
  <2>5. CleanupPrune \/ Tick => late' = late
    BY DEF CleanupPrune, Tick, cupsVars
  <2>6. QED
    BY <2>1, <2>2, <2>3, <2>4, <2>5 DEF NoLate, Next, TaskStep, vars
<1>1. SUFFICES ASSUME NEW k \in Keys PROVE Vouched(k)'
  BY <1>l DEF PrintedVouched, Vouched
<1>0. Vouched(k) /\ printed[k] \subseteq Requests
  BY <1>s, VouchedMeaning DEF CupsTypeOK
<1>u. ASSUME UNCHANGED <<entries, req, task, jobs, printed>> PROVE Vouched(k)'
  BY <1>s, <1>0, <1>u, VouchedFrame
<1>p. ASSUME Prune, Forget, UNCHANGED <<req, jobs, task>> PROVE Vouched(k)'
  BY <1>p, ForgetVouched DEF Prune
<1>2. CASE UNCHANGED vars
  BY <1>2, <1>u DEF vars
<1>3. CASE Tick
  BY <1>3, TickVouched
<1>4. CASE CleanupPrune
  BY <1>4, <1>p DEF CleanupPrune
<1>5. ASSUME NEW r \in Requests, NEW d \in Demands, Arrive(r, d) PROVE Vouched(k)'
  <2>1. r \notin printed[k]
    BY <1>s, <1>0, <1>5 DEF Vouched, Arrive, ControlOK
  <2>2. \A s \in printed[k] : req'[s] = req[s] /\ task'[s] = task[s]
    BY <1>0, <1>s, <1>5, <2>1 DEF Arrive, TypeOK, HandlerTypeOK
  <2>3. QED
    BY <1>s, <1>0, <1>5, <2>2, VouchedFrame DEF Arrive
<1>6. ASSUME NEW r \in Requests, DecideFresh(r) PROVE Vouched(k)'
  BY <1>6, FreshVouched
<1>7. ASSUME NEW r \in Requests, DecideJoin(r) \/ DecideReplay(r) \/ DecideConflict(r)
      PROVE  Vouched(k)'
  BY <1>7, <1>p
  DEF DecideJoin, DecideReplay, DecideConflict, BeginJoin, BeginReplay, BeginConflict
<1>8. ASSUME NEW r \in Requests, Wake(r) \/ TaskEnded(r) \/ WaitTimeout(r) \/ Leave(r)
      PROVE  Vouched(k)'
  BY <1>8, <1>u DEF Wake, TaskEnded, WaitTimeout, Leave
<1>9. ASSUME NEW r \in Requests, TaskStep(r) \/ CupsAccepts(r) PROVE Vouched(k)'
  BY <1>9, TaskVouched
<1>10. ASSUME NEW r \in Requests, LateAccept(r) \/ Panic(r) PROVE Vouched(k)'
  BY <1>10 DEF LateAccept, Panic, NoLate
<1>11. QED
  BY <1>2, <1>3, <1>4, <1>5, <1>6, <1>7, <1>8, <1>9, <1>10
  DEF Next, Handler, Decide, Environment

\* AtMostOneJob, the promise of src/idempotency.rs: if every Print-Job without
\* an answer is looked up (no fault), and the retention period exceeds the
\* longest a submission can take, a key produces one CUPS job until forgotten.
THEOREM AtMostOneJobCorrect ==
    RetentionCoversWindow /\ Faults = {} => (Spec => []AtMostOneJob)
<1> SUFFICES ASSUME RetentionCoversWindow, Faults = {} PROVE Spec => []AtMostOneJob
  OBVIOUS
<1> DEFINE Inv == Held /\ PrintedVouched /\ NoLate
<1>1. Init => Inv
  <2>1. Init => PrintedVouched /\ NoLate
    BY DEF Init, PrintedVouched, NoLate
  <2>2. QED
    BY <2>1, InitHeld
<1>2. Inv /\ [Next]_vars => Inv'
  BY NextHeld, NextVouched
<1>3. Inv => AtMostOneJob
  <2> SUFFICES ASSUME PrintedVouched, NEW k \in Keys, NEW r \in printed[k],
                      NEW s \in printed[k]
               PROVE  r = s
    BY DEF AtMostOneJob
  <2>1. printed[k] = {r}
    BY DEF PrintedVouched
  <2>2. QED
    BY <2>1
<1> HIDE DEF Inv
<1>4. QED
  BY <1>1, <1>2, <1>3, PTL DEF Spec
=============================================================================
