---------------------- MODULE PrintSubmissionRefinement ----------------------
(***************************************************************************)
(* What a client of PrintSubmission is told and what wakes it, and that    *)
(* the submission path implements PrintOnce.                               *)
(***************************************************************************)
EXTENDS PrintSubmissionProofs

\* The operators most steps need opened.
USE DEF Key, Keyed, Payload, handlerVars, cupsVars, storeVars

-----------------------------------------------------------------------------
(* Nobody waits for nothing: no assumption on the configuration.           *)

\* A request waits only for an attempt that has begun.
JoinedStarted ==
    \A r \in Requests : http[r] = "waiting" => task[joined[r]].phase # "none"

Owned(k) == entries[k].state = "in_progress" =>
                /\ Key(entries[k].token) = k
                /\ task[entries[k].token].phase \in Unsettled \cup {"drop"}

Awaited(r) == /\ http[r] = "waiting"
              /\ signals[joined[r]].state = "pending"
Wakeable(r) == Awaited(r) =>
    \/ OwnedBy(Key(r), joined[r])
    \/ \E s \in Requests : task[s].phase = "notify" /\ task[s].handle = joined[r]

Wakeful == Shape /\ JoinedStarted /\ InProgressOwned /\ NoLostWakeup

LEMMA WakefulMeaning ==
    Wakeful <=> /\ Shape
                /\ JoinedStarted
                /\ \A k \in Keys : Owned(k)
                /\ \A r \in Requests : Wakeable(r)
  BY DEF Wakeful, InProgressOwned, NoLostWakeup, Owned, Wakeable, Awaited

LEMMA InitWakeful == Init => Wakeful
<1>1. Init => Shape
  BY InitTypeOK, InitShape DEF Shape
<1>2. Init => JoinedStarted /\ InProgressOwned /\ NoLostWakeup
  BY DEF Init, StoreInit, Absent, JoinedStarted, InProgressOwned, NoLostWakeup
<1>3. QED
  BY <1>1, <1>2 DEF Wakeful

\* What prune takes from the map is told to whoever waits for it.
LEMMA PruneTells ==
    ASSUME StoreOK, NEW k \in Keys, NEW t \in Tokens,
           OwnedBy(k, t), PrunedSignals[t].state = "pending"
    PROVE  /\ Pruned[k] = entries[k]
           /\ signals[t].state = "pending"
  BY DEF OwnedBy, PrunedSignals, Pruned, Dropped, StoreOK, StoreTypeOK

LEMMA PendingBefore ==
    ASSUME StoreOK, NEW t \in Tokens, PrunedSignals[t].state = "pending"
    PROVE  signals[t].state = "pending"
  BY DEF PrunedSignals, Dropped

\* Neither a pruning nor the start of another attempt harms who waits.
LEMMA PruneWakeful ==
    ASSUME Wakeful, Prune, UNCHANGED <<req, task>>, NEW s \in Requests,
           http'[s] = "waiting" => http[s] = "waiting" /\ joined'[s] = joined[s]
    PROVE  Wakeable(s)'
<1> SUFFICES ASSUME Awaited(s)'
             PROVE  \/ OwnedBy(Key(s), joined[s])'
                    \/ \E u \in Requests : (task[u].phase = "notify" /\ task[u].handle = joined[s])'
  BY DEF Wakeable
<1>s. StoreOK /\ ControlOK
  BY DEF Wakeful, Shape, TypeOK, StoreOK
<1>1. http[s] = "waiting" /\ joined'[s] = joined[s] /\ Key(s) \in Keys /\ joined[s] \in Tokens
  BY <1>s, SubmissionAssumption DEF Awaited, ControlOK
<1>2. PrunedSignals[joined[s]].state = "pending"
  BY <1>1 DEF Awaited, Prune
<1>3. Awaited(s)
  BY <1>s, <1>1, <1>2, PendingBefore DEF Awaited
<1>4. CASE OwnedBy(Key(s), joined[s])
  BY <1>s, <1>1, <1>2, <1>4, PruneTells DEF Prune, OwnedBy
<1>5. QED
  BY <1>1, <1>3, <1>4, WakefulMeaning DEF Wakeable

LEMMA FreshWakeful ==
    ASSUME Wakeful, NEW r \in Requests, DecideFresh(r)
    PROVE  /\ JoinedStarted'
           /\ \A k \in Keys : Owned(k)'
           /\ \A s \in Requests : Wakeable(s)'
<1>s. StoreOK /\ ControlOK /\ task \in [Requests -> Task] /\ HandlerTypeOK
  BY DEF Wakeful, Shape, TypeOK, StoreOK
<1>0. /\ Key(r) \in Keys /\ task[r].phase = "none" /\ req' = req /\ joined' = joined
      /\ http' = [http EXCEPT ![r] = "awaiting"]
      /\ task' = [task EXCEPT ![r] = NewTask]
      /\ signals' = [PrunedSignals EXCEPT ![r] = Pending]
  BY <1>s DEF DecideFresh, BeginFresh, ControlOK
<1>1. PICK gone \in Evictions(Pruned) :
         entries' = [l \in Keys |-> IF l = Key(r) THEN InProgress(Payload(r), r)
                                    ELSE IF l \in gone THEN Absent ELSE Pruned[l]]
  BY DEF DecideFresh, BeginFresh
<1>2. JoinedStarted'
  BY <1>s, <1>0, NewTaskType DEF Wakeful, JoinedStarted, HandlerTypeOK
<1>3. ASSUME NEW k \in Keys PROVE Owned(k)'
  <2>1. CASE k = Key(r)
    <3>1. entries'[k] = InProgress(Payload(r), r) /\ task'[r].phase = "find"
      BY <1>s, <1>0, <1>1, <2>1, NewTaskType
    <3>2. QED
      BY <1>0, <2>1, <3>1 DEF Owned, InProgress, Unsettled, InCall
  <2>2. CASE k # Key(r)
    <3>1. entries'[k].state = "in_progress" => entries'[k] = entries[k]
      BY <1>1, <2>2 DEF Pruned, Absent
    <3>2. entries[k].state = "in_progress" => entries[k].token # r /\ Owned(k)
      BY <1>0, WakefulMeaning DEF Owned, Unsettled, InCall, Settling
    <3>3. entries[k].state = "in_progress" => entries[k].token \in Requests
      BY <1>s, SubmissionAssumption DEF StoreOK, EntryNamed
    <3>4. QED
      BY <1>s, <1>0, <3>1, <3>2, <3>3 DEF Owned
  <2>3. QED
    BY <2>1, <2>2
<1>4. ASSUME NEW s \in Requests, Awaited(s)'
      PROVE  \/ OwnedBy(Key(s), joined[s])'
             \/ \E u \in Requests : (task[u].phase = "notify" /\ task[u].handle = joined[s])'
  <2>1. http[s] = "waiting" /\ Key(s) \in Keys /\ joined[s] \in Tokens /\ joined[s] # r
    BY <1>s, <1>0, <1>4, SubmissionAssumption
    DEF Awaited, ControlOK, Wakeful, JoinedStarted, HandlerTypeOK
  <2>p. PrunedSignals \in [Tokens -> Signal]
    BY <1>s, PruneType
  <2>2. PrunedSignals[joined[s]].state = "pending"
    BY <1>0, <1>4, <2>1, <2>p DEF Awaited
  <2>3. Awaited(s)
    BY <1>s, <2>1, <2>2, PendingBefore DEF Awaited
  <2>4. CASE OwnedBy(Key(s), joined[s])
    <3>1. Pruned[Key(s)] = entries[Key(s)] /\ Pruned[Key(s)].state = "in_progress"
      BY <1>s, <2>1, <2>2, <2>4, PruneTells DEF OwnedBy
    <3>2. Key(s) # Key(r) /\ Key(s) \notin gone
      BY <1>1, <3>1 DEF DecideFresh, BeginFresh, Evictions, CompletedKeys
    <3>3. QED
      BY <1>0, <1>1, <2>1, <2>4, <3>1, <3>2 DEF OwnedBy
  <2>5. ASSUME NEW u \in Requests, task[u].phase = "notify", task[u].handle = joined[s]
        PROVE  (task[u].phase = "notify" /\ task[u].handle = joined[s])'
    BY <1>s, <1>0, <2>5
  <2>6. QED
    BY <2>3, <2>4, <2>5, WakefulMeaning DEF Wakeable
<1>5. QED
  BY <1>2, <1>3, <1>4 DEF Wakeable

\* A handler's step other than the start of an attempt.
LEMMA HandlerWakeful ==
    ASSUME Wakeful, NEW r \in Requests,
           \/ DecideJoin(r) \/ DecideReplay(r) \/ DecideConflict(r)
           \/ Wake(r) \/ TaskEnded(r) \/ WaitTimeout(r) \/ Leave(r)
           \/ \E d \in Demands : Arrive(r, d)
    PROVE  /\ JoinedStarted'
           /\ \A k \in Keys : Owned(k)'
           /\ \A s \in Requests : Wakeable(s)'
<1>s. StoreOK /\ ControlOK /\ task \in [Requests -> Task] /\ HandlerTypeOK
  BY DEF Wakeful, Shape, TypeOK, StoreOK
<1>o. ASSUME NEW k \in Keys, UNCHANGED <<req, task>>,
             entries'[k] = entries[k] \/ entries'[k].state # "in_progress"
      PROVE  Owned(k)'
  BY <1>o, WakefulMeaning DEF Owned
\* A handler that waits no longer, or never did.
<1>w. ASSUME UNCHANGED <<storeVars, req, task>>,
             \A s \in Requests : http'[s] = "waiting" =>
                 http[s] = "waiting" /\ joined'[s] = joined[s]
      PROVE  /\ JoinedStarted'
             /\ \A k \in Keys : Owned(k)'
             /\ \A s \in Requests : Wakeable(s)'
  <2>1. JoinedStarted' /\ \A k \in Keys : Owned(k)'
    BY <1>o, <1>w DEF Wakeful, JoinedStarted
  <2>2. \A s \in Requests : Wakeable(s)'
    BY <1>w, WakefulMeaning DEF Wakeable, Awaited, OwnedBy
  <2>3. QED
    BY <2>1, <2>2
<1>p. ASSUME Prune, UNCHANGED <<req, task>> PROVE \A k \in Keys : Owned(k)'
  BY <1>o, <1>p DEF Prune, Pruned, Absent
<1>a. ASSUME NEW a, Answer(r, a)
      PROVE  \A s \in Requests : http'[s] = "waiting" =>
                 http[s] = "waiting" /\ joined'[s] = joined[s]
  BY <1>s, <1>a DEF Answer, HandlerTypeOK
<1>1. CASE DecideJoin(r)
  <2>0. /\ Prune /\ UNCHANGED <<req, task>> /\ Key(r) \in Keys
        /\ http' = [http EXCEPT ![r] = "waiting"]
        /\ joined' = [joined EXCEPT ![r] = entries[Key(r)].token]
        /\ Pruned[Key(r)].state = "in_progress"
    BY <1>s, <1>1 DEF DecideJoin, BeginJoin, ControlOK
  <2>1. Pruned[Key(r)] = entries[Key(r)] /\ entries[Key(r)].token \in Tokens
    BY <1>s, <2>0, PruneType
  <2>2. JoinedStarted'
    <3>1. task[entries[Key(r)].token].phase # "none"
      BY <2>0, <2>1, WakefulMeaning DEF Owned, Unsettled, InCall, Settling
    <3>2. QED
      BY <1>s, <2>0, <3>1 DEF Wakeful, JoinedStarted, HandlerTypeOK
  <2>3. ASSUME NEW s \in Requests PROVE Wakeable(s)'
    <3>1. CASE s = r
      BY <1>s, <2>0, <2>1, <3>1 DEF Wakeable, OwnedBy, Prune, HandlerTypeOK
    <3>2. CASE s # r
      BY <1>s, <2>0, <3>2, PruneWakeful DEF HandlerTypeOK
    <3>3. QED
      BY <3>1, <3>2
  <2>4. QED
    BY <1>p, <2>0, <2>2, <2>3
<1>2. CASE DecideReplay(r) \/ DecideConflict(r)
  <2>1. /\ Prune /\ UNCHANGED <<req, task>>
        /\ \A s \in Requests : http'[s] = "waiting" =>
               http[s] = "waiting" /\ joined'[s] = joined[s]
    BY <1>a, <1>2 DEF DecideReplay, DecideConflict, BeginReplay, BeginConflict
  <2>2. JoinedStarted'
    BY <2>1 DEF Wakeful, JoinedStarted
  <2>3. QED
    BY <1>p, <2>1, <2>2, PruneWakeful
<1>3. CASE Wake(r) \/ TaskEnded(r) \/ WaitTimeout(r) \/ Leave(r)
  <2>1. CASE \E a : Answer(r, a)
    BY <1>a, <1>w, <1>3, <2>1 DEF Wake, TaskEnded, WaitTimeout, Leave
  <2>2. CASE /\ http' = [http EXCEPT ![r] = "begin"]
             /\ joined' = [joined EXCEPT ![r] = None]
    BY <1>s, <1>w, <1>3, <2>2 DEF Wake, TaskEnded, WaitTimeout, Leave, HandlerTypeOK
  <2>3. QED
    BY <1>3, <2>1, <2>2 DEF Wake, TaskEnded, WaitTimeout, Leave
<1>4. ASSUME NEW d \in Demands, Arrive(r, d)
      PROVE  /\ JoinedStarted'
             /\ \A k \in Keys : Owned(k)'
             /\ \A s \in Requests : Wakeable(s)'
  <2>0. /\ http[r] = "idle" /\ task[r].phase = "none"
        /\ UNCHANGED <<storeVars, joined>>
        /\ \A s \in Requests \ {r} : /\ req'[s] = req[s] /\ task'[s] = task[s]
                                     /\ http'[s] = http[s]
        /\ task'[r] = task[r] \/ task'[r] = NewTask
        /\ http'[r] # "waiting"
    BY <1>s, <1>4 DEF Arrive, ControlOK, HandlerTypeOK
  <2>1. JoinedStarted'
    BY <1>s, <2>0, NewTaskType DEF Wakeful, JoinedStarted, ControlOK
  <2>2. ASSUME NEW k \in Keys PROVE Owned(k)'
    <3>1. entries[k].state = "in_progress" =>
            entries[k].token \in Requests \ {r} /\ Owned(k)
      BY <1>s, <2>0, WakefulMeaning, SubmissionAssumption
      DEF Owned, Unsettled, InCall, Settling, StoreOK, EntryNamed
    <3>2. QED
      BY <2>0, <3>1 DEF Owned
  <2>3. ASSUME NEW s \in Requests, Awaited(s)'
        PROVE  \/ OwnedBy(Key(s), joined[s])'
               \/ \E u \in Requests : (task[u].phase = "notify" /\ task[u].handle = joined[s])'
    <3>1. s # r /\ Awaited(s) /\ Key(s)' = Key(s)
      BY <2>0, <2>3 DEF Awaited
    <3>2. \A u \in Requests : task[u].phase = "notify" => task'[u] = task[u]
      BY <2>0
    <3>3. QED
      BY <2>0, <3>1, <3>2, WakefulMeaning DEF Wakeable, OwnedBy
  <2>4. QED
    BY <2>1, <2>2, <2>3 DEF Wakeable
<1>5. QED
  BY <1>1, <1>2, <1>3, <1>4

LEMMA PrintingWakeful ==
    ASSUME Wakeful, NEW r \in Requests, Printing(r)
    PROVE  /\ JoinedStarted'
           /\ \A k \in Keys : Owned(k)'
           /\ \A s \in Requests : Wakeable(s)'
<1>s. StoreOK /\ ControlOK /\ Shape
  BY DEF Wakeful, Shape, TypeOK, StoreOK
<1>0. /\ UNCHANGED <<storeVars, handlerVars>>
      /\ \A s \in Requests \ {r} : task'[s] = task[s]
      /\ task[r].phase # "notify"
      /\ task'[r].phase # "none"
      /\ Keyed(r) => task'[r].phase \in Unsettled \cup {"drop"}
  BY <1>s, PrintingPhases DEF InCall, Settling, Unsettled
<1>1. JoinedStarted'
  BY <1>0, <1>s DEF Wakeful, JoinedStarted, ControlOK
<1>2. ASSUME NEW k \in Keys PROVE Owned(k)'
  <2>1. entries[k].state = "in_progress" =>
          entries[k].token \in Requests /\ Key(entries[k].token) = k
    BY <1>s, WakefulMeaning, SubmissionAssumption DEF Owned, StoreOK, EntryNamed
  <2>2. QED
    BY <1>0, <2>1, WakefulMeaning DEF Owned
<1>3. \A s \in Requests : Wakeable(s)'
  BY <1>0, WakefulMeaning DEF Wakeable, Awaited, OwnedBy
<1>4. QED
  BY <1>1, <1>2, <1>3

\* A settling task changes at most the entry of its own key, and takes it.
LEMMA SettleEntries ==
    ASSUME Shape, NEW r \in Requests, Settle(r), NEW k \in Keys
    PROVE  \/ entries'[k] = entries[k]
           \/ k = Key(r) /\ entries'[k].state # "in_progress"
  BY DEF Shape, TypeOK, ControlOK, Settle, CompleteKey, AbortKey, Notify, DropGuard,
         Complete, Completed, Abort, Absent, StoreTypeOK, Settling, Closing

LEMMA SettleWakeful ==
    ASSUME Wakeful, NEW r \in Requests, Settle(r)
    PROVE  /\ JoinedStarted'
           /\ \A k \in Keys : Owned(k)'
           /\ \A s \in Requests : Wakeable(s)'
<1>s. StoreOK /\ StoreTypeOK /\ ControlOK /\ task \in [Requests -> Task]
  BY DEF Wakeful, Shape, TypeOK, StoreOK
<1>0. /\ UNCHANGED handlerVars
      /\ \A s \in Requests \ {r} : task'[s] = task[s]
      /\ task'[r].phase \in {"notify", "drop", "done"}
      /\ task'[r].phase = "notify" <=> task[r].phase \in Settling
      /\ Keyed(r) /\ Key(r) \in Keys
  BY <1>s DEF Settle, CompleteKey, AbortKey, Notify, DropGuard, Goto, At, ControlOK,
              Settling, Closing, Task
<1>1. JoinedStarted'
  BY <1>0, <1>s DEF Wakeful, JoinedStarted, ControlOK
<1>e. \A k \in Keys : \/ entries'[k] = entries[k]
                      \/ k = Key(r) /\ entries'[k].state # "in_progress"
  BY SettleEntries DEF Wakeful
<1>t. ASSUME NEW k \in Keys, entries[k].state = "in_progress"
      PROVE  entries[k].token \in Requests /\ Owned(k)
  BY <1>s, <1>t, WakefulMeaning, SubmissionAssumption DEF StoreOK, EntryNamed
<1>2. ASSUME NEW k \in Keys, entries'[k].state = "in_progress" PROVE Owned(k)'
  <2>1. entries'[k] = entries[k]
    BY <1>2, <1>e
  <2>2. CASE entries[k].token = r
    <3>1. k = Key(r) /\ OwnedBy(k, r)
      BY <1>2, <1>t, <2>1, <2>2 DEF Owned, OwnedBy
    <3>2. CASE CompleteKey(r)
      BY <1>s, <1>2, <3>1, <3>2 DEF CompleteKey, Complete, Completed, StoreTypeOK
    <3>3. CASE AbortKey(r) \/ DropGuard(r)
      BY <1>s, <1>2, <3>1, <3>3 DEF AbortKey, DropGuard, Abort, Absent, StoreTypeOK
    <3>4. CASE Notify(r)
      BY <1>2, <1>t, <2>1, <2>2, <3>4 DEF Notify, Owned, Unsettled, InCall, Settling
    <3>5. QED
      BY <3>2, <3>3, <3>4 DEF Settle
  <2>3. CASE entries[k].token # r
    BY <1>0, <1>2, <1>t, <2>1, <2>3 DEF Owned
  <2>4. QED
    BY <2>2, <2>3
<1>3. ASSUME NEW s \in Requests, Awaited(s)'
      PROVE  \/ OwnedBy(Key(s), joined[s])'
             \/ \E u \in Requests : (task[u].phase = "notify" /\ task[u].handle = joined[s])'
  <2>0. /\ http[s] = "waiting" /\ UNCHANGED <<joined, req>> /\ Key(s) \in Keys
        /\ joined[s] \in Tokens /\ joined[s] # None
    BY <1>0, <1>3, <1>s, SubmissionAssumption, StoreAssumption DEF Awaited, ControlOK
  <2>1. CASE CompleteKey(r) \/ AbortKey(r)
    <3>1. signals' = signals /\ Awaited(s) /\ task[r].phase # "notify"
      BY <1>3, <2>0, <2>1 DEF CompleteKey, AbortKey, Awaited
    <3>2. CASE OwnedBy(Key(s), joined[s]) /\ Key(s) = Key(r)
      <4>1. \/ task'[r].phase = "notify" /\ task'[r].handle = joined[s]
            \/ entries' = entries
        BY <1>s, <2>1, <3>2
        DEF CompleteKey, AbortKey, OwnedBy, Abort, CompleteHandle, AbortHandle, Task
      <4>2. QED
        BY <2>0, <3>2, <4>1 DEF OwnedBy
    <3>3. CASE OwnedBy(Key(s), joined[s]) /\ Key(s) # Key(r)
      BY <1>e, <2>0, <3>3 DEF OwnedBy
    <3>4. QED
      BY <1>0, <2>0, <3>1, <3>2, <3>3, WakefulMeaning DEF Wakeable
  <2>2. CASE Notify(r)
    <3>1. /\ entries' = entries
          /\ task[r].handle # joined[s]
          /\ signals[joined[s]].state = "pending"
      BY <1>s, <1>3, <2>0, <2>2
      DEF Notify, Send, Awaited, Aborted, Settled, StoreTypeOK
    <3>2. Awaited(s)
      BY <2>0, <3>1 DEF Awaited
    <3>3. QED
      BY <1>0, <2>0, <3>1, <3>2, WakefulMeaning DEF Wakeable, OwnedBy
  <2>3. CASE DropGuard(r)
    <3>1. AbortHandle(Key(r), r) # joined[s] /\ signals[joined[s]].state = "pending"
      BY <1>s, <1>3, <2>0, <2>3 DEF DropGuard, Send, Awaited, Aborted, StoreTypeOK
    <3>2. Awaited(s) /\ task[r].phase # "notify"
      BY <2>0, <2>3, <3>1 DEF Awaited, DropGuard
    <3>3. OwnedBy(Key(s), joined[s]) => entries'[Key(s)] = entries[Key(s)]
      BY <1>s, <2>0, <2>3, <3>1 DEF DropGuard, Abort, AbortHandle, OwnedBy, StoreTypeOK
    <3>4. QED
      BY <1>0, <2>0, <3>2, <3>3, WakefulMeaning DEF Wakeable, OwnedBy
  <2>4. QED
    BY <2>1, <2>2, <2>3 DEF Settle
<1>4. QED
  BY <1>1, <1>2, <1>3 DEF Owned, Wakeable

LEMMA TickWakeful ==
    ASSUME Wakeful, Tick
    PROVE  /\ JoinedStarted'
           /\ \A k \in Keys : Owned(k)'
           /\ \A s \in Requests : Wakeable(s)'
<1>s. StoreOK /\ StoreTypeOK /\ ControlOK /\ task \in [Requests -> Task]
  BY DEF Wakeful, Shape, TypeOK, StoreOK
<1>1. ASSUME NEW r \in Requests
      PROVE  task'[r].phase = task[r].phase /\ task'[r].handle = task[r].handle
  BY <1>s, <1>1 DEF Tick, Task
<1>2. ASSUME NEW k \in Keys
      PROVE  entries'[k].state = entries[k].state /\ entries'[k].token = entries[k].token
  BY <1>s, <1>2, OlderType DEF Tick, StoreTypeOK
<1>3. UNCHANGED <<signals, handlerVars>>
  BY DEF Tick
<1>4. JoinedStarted'
  BY <1>s, <1>1, <1>3 DEF Wakeful, JoinedStarted, ControlOK
<1>5. ASSUME NEW k \in Keys PROVE Owned(k)'
  <2>1. entries[k].state = "in_progress" => entries[k].token \in Requests /\ Owned(k)
    BY <1>s, WakefulMeaning, SubmissionAssumption DEF StoreOK, EntryNamed
  <2>2. QED
    BY <1>1, <1>2, <1>3, <2>1 DEF Owned
<1>6. ASSUME NEW s \in Requests PROVE Wakeable(s)'
  BY <1>s, <1>1, <1>2, <1>3, WakefulMeaning DEF Wakeable, Awaited, OwnedBy, ControlOK
<1>7. QED
  BY <1>4, <1>5, <1>6

LEMMA NextWakeful == Wakeful /\ [Next]_vars => Wakeful'
<1> SUFFICES ASSUME Wakeful, [Next]_vars PROVE Wakeful'
  OBVIOUS
<1>1. Shape'
  BY NextShape DEF Wakeful
<1>2. SUFFICES /\ JoinedStarted'
               /\ \A k \in Keys : Owned(k)'
               /\ \A s \in Requests : Wakeable(s)'
  BY <1>1 DEF Wakeful, InProgressOwned, NoLostWakeup, Owned, Wakeable, Awaited
<1>3. CASE UNCHANGED vars
  BY <1>3, WakefulMeaning DEF vars, JoinedStarted, Owned, Wakeable, Awaited, OwnedBy
<1>4. CASE CleanupPrune
  <2>1. Prune /\ UNCHANGED <<req, task, http, joined>>
    BY <1>4 DEF CleanupPrune
  <2>2. JoinedStarted' /\ \A k \in Keys : Owned(k)'
    BY <2>1, WakefulMeaning DEF JoinedStarted, Owned, Prune, Pruned, Absent
  <2>3. QED
    BY <2>1, <2>2, PruneWakeful
<1>5. ASSUME NEW r \in Requests, LateAccept(r)
      PROVE  /\ JoinedStarted'
             /\ \A k \in Keys : Owned(k)'
             /\ \A s \in Requests : Wakeable(s)'
  BY <1>5, WakefulMeaning
  DEF LateAccept, JoinedStarted, Owned, Wakeable, Awaited, OwnedBy
<1>6. ASSUME NEW r \in Requests, Handler(r) \/ TaskStep(r) \/ Environment(r)
      PROVE  /\ JoinedStarted'
             /\ \A k \in Keys : Owned(k)'
             /\ \A s \in Requests : Wakeable(s)'
  BY <1>5, <1>6, SettleWakeful, PrintingWakeful, HandlerWakeful, FreshWakeful
  DEF Handler, Decide, TaskStep, Environment, Printing
<1>7. QED
  BY <1>3, <1>4, <1>6, TickWakeful DEF Next

\* InProgressOwned: an entry in progress always has a task that will settle it,
\* in every configuration and under every fault: the detached task of
\* run_submission, or its PendingKey guard.
THEOREM InProgressOwnedCorrect == Spec => []InProgressOwned
<1>1. Wakeful => InProgressOwned
  BY DEF Wakeful
<1>2. QED
  BY <1>1, InitWakeful, NextWakeful, PTL DEF Spec

\* NoLostWakeup: whoever waits on a silent channel waits for an entry that is
\* still in the store or for a sender a task holds.
THEOREM NoLostWakeupCorrect == Spec => []NoLostWakeup
<1>1. Wakeful => NoLostWakeup
  BY DEF Wakeful
<1>2. QED
  BY <1>1, InitWakeful, NextWakeful, PTL DEF Spec

-----------------------------------------------------------------------------
(* What a task knows of its job, and that only it takes its entry.         *)

Confirmed == jobs \cap entered

\* A task's job is its own and confirmed; before Print-Job there is none, and
\* one that was late is not made yet.  The sender a task holds is its own, and
\* the entry a panicked task leaves is young.
JobTrue(r) ==
    /\ task[r].job # None => task[r].job = r /\ r \in Confirmed
    /\ task[r].phase \in {"none", "find", "send"} => r \notin jobs /\ r \notin late
    /\ task[r].phase = "sent" => r \in jobs
    /\ r \in late => r \notin jobs
    /\ task[r].phase = "notify" => task[r].handle \in {None, r}
    /\ Keyed(r) /\ task[r].phase = "drop" /\ OwnedBy(Key(r), r) =>
          entries[Key(r)].age <= Window(MaxCalls)

Sound == Held /\ Wakeful /\ \A r \in Requests : JobTrue(r)

LEMMA InitSound == Init => Sound
<1>1. Init => \A r \in Requests : JobTrue(r)
  BY DEF Init, NoTask, At, JobTrue
<1>2. QED
  BY <1>1, InitHeld, InitWakeful DEF Sound

\* Whoever owns an entry of key k works for k and is not past its guard.
LEMMA OwnerWorks ==
    ASSUME Wakeful, NEW k \in Keys, NEW t \in Requests, OwnedBy(k, t)
    PROVE  Key(t) = k /\ task[t].phase \in Unsettled \cup {"drop"}
  BY WakefulMeaning DEF Owned, OwnedBy

\* Nothing of r's task and its job changes, and r's entry at most goes.
LEMMA JobTrueFrame ==
    ASSUME NEW s \in Requests, JobTrue(s), task'[s] = task[s], req'[s] = req[s],
           s \in jobs' <=> s \in jobs, s \in late' <=> s \in late,
           entered \subseteq entered',
           \/ entries'[Key(s)] = entries[Key(s)]
           \/ ~OwnedBy(Key(s), s)'
           \/ ~Keyed(s)
           \/ task[s].phase # "drop"
    PROVE  JobTrue(s)'
  BY DEF JobTrue, Confirmed, OwnedBy

LEMMA PrintingJobTrue ==
    ASSUME Sound, NEW r \in Requests, Printing(r)
    PROVE  /\ JobTrue(r)'
           /\ jobs \subseteq jobs' /\ entered \subseteq entered'
           /\ \A s \in Requests \ {r} : /\ s \in jobs' <=> s \in jobs
                                        /\ s \in late' <=> s \in late
           /\ UNCHANGED jobs \/ CupsAccepts(r)
<1>s. Shape /\ task \in [Requests -> Task] /\ JobTrue(r) /\ StoreTypeOK
  BY DEF Sound, Held, Shape, TypeOK
<1>g. ASSUME NEW phase, NEW job, Goto(r, phase, job)
      PROVE  task'[r].phase = phase /\ task'[r].job = job
  BY <1>s, <1>g DEF Goto, At
<1>c. ASSUME NEW phase, Call(r, phase)
      PROVE  task'[r].phase = phase /\ task'[r].job = None
  BY <1>s, <1>c DEF Call, At
<1>u. UNCHANGED <<storeVars, handlerVars>>
  BY <1>s, PrintingPhases
<1>1. CASE FindNextCall(r) \/ StartPrintJob(r)
  BY <1>s, <1>c, <1>u, <1>1 DEF FindNextCall, StartPrintJob, JobTrue
<1>2. CASE RefuseLocally(r) \/ CupsRefuses(r) \/ PrintJobGarbled(r)
             \/ ReconcileMisses(r) \/ ReconcileFails(r)
  BY <1>s, <1>g, <1>u, <1>2
  DEF RefuseLocally, CupsRefuses, PrintJobGarbled, ReconcileMisses,
      ReconcileFails, GiveUp, JobTrue
<1>3. CASE FindUnanswered(r)
  BY <1>s, <1>g, <1>c, <1>u, <1>3 DEF FindUnanswered, Unanswered, GiveUp, JobTrue
<1>4. CASE PrintJobUnanswered(r)
  BY <1>s, <1>g, <1>c, <1>u, <1>4 DEF PrintJobUnanswered, Unanswered, GiveUp, JobTrue
<1>5. CASE PrintJobAnswered(r) \/ ReconcileFinds(r)
  <2>1. r \in jobs /\ UNCHANGED <<jobs, late>> /\ entered' = entered \cup {r}
    BY <1>s, <1>5 DEF PrintJobAnswered, ReconcileFinds, Succeed, JobTrue
  <2>2. task'[r].job = r /\ task'[r].phase \in {"complete", "done"}
    BY <1>g, <1>5 DEF PrintJobAnswered, ReconcileFinds, Succeed
  <2>3. QED
    BY <1>s, <1>u, <2>1, <2>2 DEF JobTrue, Confirmed
<1>6. CASE Panic(r)
  <2>0. /\ task'[r].phase \in {"drop", "done"} /\ task'[r].job = None
        /\ UNCHANGED <<jobs, late, entered>>
        /\ task[r].phase \in Unsettled
    BY <1>g, <1>6 DEF Panic, Unsettled, InCall, Settling
  <2>1. Keyed(r) => entries[Key(r)].age <= Window(MaxCalls)
    BY <2>0, LiveHeld DEF Live, Sound
  <2>2. Window(MaxCalls)' = Window(MaxCalls)
    BY DEF Window
  <2>3. QED
    BY <1>s, <1>u, <2>0, <2>1, <2>2 DEF JobTrue
<1>7. CASE CupsAccepts(r)
  <2>1. /\ task'[r].phase = "sent" /\ task'[r].job = task[r].job
        /\ task[r].phase = "send"
        /\ jobs' = jobs \cup {r} /\ UNCHANGED <<late, entered>>
    BY <1>s, <1>7 DEF CupsAccepts, AddJob, Task
  <2>2. QED
    BY <1>s, <1>u, <1>7, <2>1 DEF JobTrue, Confirmed
<1>8. QED
  BY <1>1, <1>2, <1>3, <1>4, <1>5, <1>6, <1>7 DEF Printing, PrintJob

LEMMA SettleJobTrue ==
    ASSUME Sound, NEW r \in Requests, Settle(r)
    PROVE  JobTrue(r)' /\ UNCHANGED <<handlerVars, cupsVars>>
<1>s. /\ Shape /\ task \in [Requests -> Task] /\ JobTrue(r) /\ StoreTypeOK
      /\ ControlOK
  BY DEF Sound, Held, Shape, TypeOK
<1>1. CASE CompleteKey(r)
  <2>1. task'[r].phase = "notify" /\ task'[r].handle = CompleteHandle(Key(r))
        /\ task'[r].job = task[r].job
    BY <1>s, <1>1 DEF CompleteKey, Task
  <2>2. CompleteHandle(Key(r)) = r
    <3>1. Live(r)
      BY <1>s, <1>1 DEF CompleteKey, ControlOK, Live, Unsettled, Settling
    <3>2. QED
      BY <3>1, LiveHeld DEF Sound, CompleteHandle, OwnedBy
  <2>3. QED
    BY <1>s, <1>1, <2>1, <2>2 DEF CompleteKey, JobTrue, Confirmed
<1>2. CASE AbortKey(r)
  <2>1. task'[r].phase = "notify" /\ task'[r].handle = AbortHandle(Key(r), r)
        /\ task'[r].job = task[r].job
    BY <1>s, <1>2 DEF AbortKey, Task
  <2>2. QED
    BY <1>s, <1>2, <2>1 DEF AbortKey, AbortHandle, JobTrue, Confirmed
<1>3. CASE Notify(r)
  <2>1. /\ task'[r].phase = "drop" /\ task'[r].job = task[r].job
        /\ entries' = entries /\ task[r].phase = "notify"
    BY <1>s, <1>3 DEF Notify, Task
  <2>2. ~ (Keyed(r) /\ OwnedBy(Key(r), r))
    BY <2>1, OwnerWorks DEF Sound, Unsettled, InCall, Settling
  <2>3. QED
    BY <1>s, <1>3, <2>1, <2>2 DEF Notify, JobTrue, Confirmed, OwnedBy
<1>4. CASE DropGuard(r)
  <2>1. task'[r].phase = "done" /\ task'[r].job = task[r].job
    BY <1>s, <1>4 DEF DropGuard, Goto, At, Task
  <2>2. QED
    BY <1>s, <1>4, <2>1 DEF DropGuard, JobTrue, Confirmed
<1>5. QED
  BY <1>1, <1>2, <1>3, <1>4 DEF Settle

\* An entry a task owns is too young for prune, its guard's included.
LEMMA OwnedUnexpired ==
    ASSUME Sound, RetentionCoversWindow, NEW k \in Keys, NEW t \in Requests,
           OwnedBy(k, t)
    PROVE  ~Expired(k) /\ Pruned[k] = entries[k]
<1>1. Key(t) = k /\ task[t].phase \in Unsettled \cup {"drop"}
  BY OwnerWorks DEF Sound
<1>2. CASE task[t].phase \in Unsettled
  BY <1>1, <1>2, LiveUnexpired DEF Sound, Live
<1>3. CASE task[t].phase = "drop"
  <2>1. entries[k].age \in Nat /\ entries[k].age <= Window(MaxCalls)
    BY <1>1, <1>3, StoreAssumption
    DEF Sound, JobTrue, Held, Shape, TypeOK, StoreTypeOK, Entry
  <2>2. Window(MaxCalls) \in Nat /\ Ttl \in Nat
    BY StoreAssumption, SubmissionAssumption, WindowStep DEF MaxCalls
  <2>3. ~Expired(k)
    BY <2>1, <2>2 DEF Expired, RetentionCoversWindow
  <2>4. QED
    BY <2>3 DEF Pruned
<1>4. QED
  BY <1>1, <1>2, <1>3

\* What a decision makes of the entries.
LEMMA FreshEntries ==
    ASSUME NEW k \in Keys, NEW p, NEW t, BeginFresh(k, p, t), NEW l \in Keys
    PROVE  IF l = k THEN entries'[l] = InProgress(p, t)
           ELSE \/ entries'[l] = Pruned[l]
                \/ Pruned[l].state = "completed" /\ entries'[l] = Absent
<1>1. PICK gone \in Evictions(Pruned) :
         entries' = [m \in Keys |-> IF m = k THEN InProgress(p, t)
                                    ELSE IF m \in gone THEN Absent ELSE Pruned[m]]
  BY DEF BeginFresh
<1>2. QED
  BY <1>1 DEF Evictions, CompletedKeys

LEMMA NextJobTrue ==
    ASSUME Sound, [Next]_vars, NEW s \in Requests
    PROVE  JobTrue(s)'
<1>s. /\ Shape /\ task \in [Requests -> Task] /\ JobTrue(s) /\ StoreTypeOK
      /\ ControlOK /\ HandlerTypeOK
  BY DEF Sound, Held, Shape, TypeOK
\* A step that moves neither tasks nor jobs.
<1>f. ASSUME UNCHANGED <<req, task, jobs, late, entered>>,
             \A k \in Keys : \/ entries'[k] = entries[k]
                             \/ entries'[k].state # "in_progress"
      PROVE  JobTrue(s)'
  BY <1>s, <1>f, JobTrueFrame DEF OwnedBy
<1>p. ASSUME Prune, UNCHANGED <<req, task, jobs, late, entered>> PROVE JobTrue(s)'
  BY <1>f, <1>p DEF Prune, Pruned, Absent
<1>1. CASE UNCHANGED vars
  BY <1>1, <1>f DEF vars
<1>2. CASE Tick
  <2>1. /\ task'[s].phase = task[s].phase /\ task'[s].job = task[s].job
        /\ task[s].phase \notin Closing /\ UNCHANGED <<req, cupsVars>>
    BY <1>s, <1>2 DEF Tick, Task
  <2>2. QED
    BY <1>s, <2>1 DEF JobTrue, Closing, Confirmed
<1>3. CASE CleanupPrune
  BY <1>p, <1>3 DEF CleanupPrune
<1>4. ASSUME NEW r \in Requests, NEW d \in Demands, Arrive(r, d) PROVE JobTrue(s)'
  <2>1. CASE s = r
    <3>1. /\ task[r].phase = "none" /\ UNCHANGED cupsVars
          /\ task'[r] = task[r] \/ task'[r] = NewTask
      BY <1>s, <1>4 DEF Arrive, ControlOK
    <3>2. QED
      BY <1>s, <2>1, <3>1, NewTaskType DEF JobTrue, Confirmed, NewTask, At
  <2>2. CASE s # r
    BY <1>s, <1>4, <2>2, JobTrueFrame DEF Arrive, HandlerTypeOK
  <2>3. QED
    BY <2>1, <2>2
<1>5. ASSUME NEW r \in Requests, DecideFresh(r) PROVE JobTrue(s)'
  <2>0. /\ Key(r) \in Keys /\ BeginFresh(Key(r), Payload(r), r) /\ task[r].phase = "none"
        /\ UNCHANGED <<req, jobs, late, entered>> /\ task' = [task EXCEPT ![r] = NewTask]
    BY <1>s, <1>5 DEF DecideFresh, ControlOK
  <2>1. CASE s = r
    <3>1. task'[r] = NewTask
      BY <1>s, <2>0
    <3>2. QED
      BY <1>s, <2>0, <2>1, <3>1, NewTaskType DEF JobTrue, Confirmed, NewTask, At
  <2>2. CASE s # r
    <3>1. ASSUME Keyed(s)
          PROVE  entries'[Key(s)] = entries[Key(s)] \/ ~OwnedBy(Key(s), s)'
      <4>1. CASE Key(s) = Key(r)
        <5>1. entries'[Key(s)] = InProgress(Payload(r), r)
          BY <2>0, <4>1, FreshEntries
        <5>2. QED
          BY <2>0, <2>2, <5>1 DEF OwnedBy, InProgress
      <4>2. CASE Key(s) # Key(r)
        <5>1. entries'[Key(s)] \in {Absent, Pruned[Key(s)]}
          BY <2>0, <3>1, <4>2, FreshEntries
        <5>2. QED
          BY <2>0, <3>1, <5>1 DEF OwnedBy, Absent, Pruned
      <4>3. QED
        BY <4>1, <4>2
    <3>2. QED
      BY <1>s, <2>0, <2>2, <3>1, JobTrueFrame
  <2>3. QED
    BY <2>1, <2>2
<1>6. ASSUME NEW r \in Requests, DecideJoin(r) \/ DecideReplay(r) \/ DecideConflict(r)
      PROVE  JobTrue(s)'
  BY <1>p, <1>6
  DEF DecideJoin, DecideReplay, DecideConflict, BeginJoin, BeginReplay, BeginConflict
<1>7. ASSUME NEW r \in Requests, Wake(r) \/ TaskEnded(r) \/ WaitTimeout(r) \/ Leave(r)
      PROVE  JobTrue(s)'
  BY <1>f, <1>7 DEF Wake, TaskEnded, WaitTimeout, Leave
<1>8. ASSUME NEW r \in Requests, Printing(r) PROVE JobTrue(s)'
  <2>1. CASE s = r
    BY <1>8, <2>1, PrintingJobTrue
  <2>2. CASE s # r
    BY <1>s, <1>8, <2>2, PrintingJobTrue, PrintingPhases, JobTrueFrame
  <2>3. QED
    BY <2>1, <2>2
<1>9. ASSUME NEW r \in Requests, Settle(r) PROVE JobTrue(s)'
  <2>1. CASE s = r
    BY <1>9, <2>1, SettleJobTrue
  <2>2. CASE s # r
    <3>1. task'[s] = task[s]
      BY <1>s, <1>9, <2>2 DEF Settle, CompleteKey, AbortKey, Notify, DropGuard, Goto
    <3>2. Keyed(s) => entries'[Key(s)] = entries[Key(s)] \/ ~OwnedBy(Key(s), s)'
      BY <1>s, <1>9, SettleEntries, SettleJobTrue DEF OwnedBy
    <3>3. QED
      BY <1>s, <1>9, <3>1, <3>2, SettleJobTrue, JobTrueFrame
  <2>3. QED
    BY <2>1, <2>2
<1>10. ASSUME NEW r \in Requests, LateAccept(r) PROVE JobTrue(s)'
  BY <1>s, <1>10 DEF LateAccept, AddJob, JobTrue, Confirmed, OwnedBy
<1>11. QED
  BY <1>1, <1>2, <1>3, <1>4, <1>5, <1>6, <1>7, <1>8, <1>9, <1>10
  DEF Next, Handler, Decide, TaskStep, Environment, Printing

LEMMA NextSound == Sound /\ RetentionCoversWindow /\ [Next]_vars => Sound'
  BY NextHeld, NextWakeful, NextJobTrue DEF Sound

\* Only the owner's own locked section ends an entry in progress.
LEMMA OwnerSettles ==
    ASSUME Sound, RetentionCoversWindow, [Next]_vars,
           NEW k \in Keys, NEW t \in Requests, OwnedBy(k, t), ~OwnedBy(k, t)'
    PROVE  task[t].phase \in Settling \cup {"drop"} /\ task'[t] # task[t]
<1>s. /\ Shape /\ task \in [Requests -> Task] /\ StoreTypeOK
      /\ ControlOK /\ HandlerTypeOK
  BY DEF Sound, Held, Shape, TypeOK
<1>o. /\ Key(t) = k /\ Pruned[k] = entries[k] /\ Pruned[k].state = "in_progress"
      /\ entries'[k] # entries[k]
  BY OwnerWorks, OwnedUnexpired DEF Sound, OwnedBy
<1>1. CASE UNCHANGED vars
  BY <1>1, <1>o DEF vars
<1>2. CASE Tick
  BY <1>s, <1>2, OlderType DEF Tick, StoreTypeOK, OwnedBy
<1>3. CASE CleanupPrune
  BY <1>3, <1>o DEF CleanupPrune, Prune
<1>4. ASSUME NEW r \in Requests, Handler(r) PROVE FALSE
  <2>1. CASE DecideFresh(r)
    <3>1. Key(r) \in Keys /\ BeginFresh(Key(r), Payload(r), r)
      BY <1>s, <2>1 DEF DecideFresh, ControlOK
    <3>2. k # Key(r)
      BY <1>o, <3>1 DEF BeginFresh
    <3>3. QED
      BY <1>o, <3>1, <3>2, FreshEntries
  <2>2. CASE DecideJoin(r) \/ DecideReplay(r) \/ DecideConflict(r)
    BY <1>o, <2>2
    DEF DecideJoin, DecideReplay, DecideConflict, BeginJoin, BeginReplay,
        BeginConflict, Prune
  <2>3. CASE Wake(r) \/ TaskEnded(r)
    BY <1>o, <2>3 DEF Wake, TaskEnded
  <2>4. QED
    BY <1>4, <2>1, <2>2, <2>3 DEF Handler, Decide
<1>5. ASSUME NEW r \in Requests, Printing(r) PROVE FALSE
  BY <1>s, <1>o, <1>5, PrintingPhases
<1>6. ASSUME NEW r \in Requests, Environment(r) PROVE FALSE
  BY <1>o, <1>5, <1>6 DEF Environment, Arrive, WaitTimeout, Leave, LateAccept, Printing
<1>7. ASSUME NEW r \in Requests, Settle(r)
      PROVE  task[t].phase \in Settling \cup {"drop"} /\ task'[t] # task[t]
  <2>1. Key(r) = k /\ Keyed(r)
    BY <1>s, <1>o, <1>7, SettleEntries
  <2>2. r = t
    <3>1. CASE CompleteKey(r)
      BY <1>s, <2>1, <3>1, LiveHeld
      DEF CompleteKey, Sound, Live, Unsettled, Settling, OwnedBy
    <3>2. CASE AbortKey(r) \/ DropGuard(r)
      BY <1>o, <2>1, <3>2 DEF AbortKey, DropGuard, Abort, OwnedBy
    <3>3. CASE Notify(r)
      BY <1>o, <3>3 DEF Notify
    <3>4. QED
      BY <1>7, <3>1, <3>2, <3>3 DEF Settle
  <2>3. ~Notify(r)
    BY <1>o DEF Notify
  <2>4. QED
    BY <1>s, <1>7, <2>2, <2>3
    DEF Settle, CompleteKey, AbortKey, DropGuard, Goto, At, Settling, Task
<1>8. QED
  BY <1>1, <1>2, <1>3, <1>4, <1>5, <1>6, <1>7 DEF Next, TaskStep, Printing

\* OnlyOwnerSettles: whatever fails, an entry in progress leaves the map, or
\* becomes a response, only by the complete, abort or guard of the attempt that
\* owns it, provided the retention period covers a submission.
THEOREM OnlyOwnerSettlesCorrect == RetentionCoversWindow => (Spec => OnlyOwnerSettles)
<1> SUFFICES ASSUME RetentionCoversWindow PROVE Spec => OnlyOwnerSettles
  OBVIOUS
<1>1. Sound /\ [Next]_vars => Sound'
  BY NextSound
<1>2. Sound /\ [Next]_vars =>
        [\A k \in Keys, t \in Requests :
            OwnedBy(k, t) /\ ~OwnedBy(k, t)' =>
                task[t].phase \in Settling \cup {"drop"} /\ task'[t] # task[t]]_vars
  BY OwnerSettles
<1>3. QED
  BY <1>1, <1>2, InitSound, PTL DEF Spec, OnlyOwnerSettles

-----------------------------------------------------------------------------
(* What a client is told is true.                                          *)

Blank == [key |-> NoKey, payload |-> None]
Began(r) == http[r] # "idle"

\* An entry stands for its attempt, with the attempt's payload; kept for
\* replay it names a confirmed job.
EntryTrue(k) ==
    entries[k].state # "absent" =>
        LET t == entries[k].token IN
        /\ t \in Requests /\ Began(t)
        /\ req[t] = [key |-> k, payload |-> entries[k].payload]
        /\ entries[k].state = "completed" => t \in Confirmed

SignalTrue(t) ==
    signals[t].state = "completed" => signals[t].job = t /\ t \in Confirmed

Successful == {"accepted", "replayed"}

\* A request waits for an attempt that asked for the same; it is answered once,
\* and truly.
HandlerTrue(r) ==
    /\ ~Began(r) => req[r] = Blank
    /\ http[r] # "closed" => reply[r] = NoReply
    /\ http[r] = "waiting" => Began(joined[r]) /\ req[joined[r]] = req[r]
    /\ task[r].phase = "complete" => task[r].job # None
    /\ reply[r].kind \notin Successful => reply[r].job = None
    /\ reply[r].kind \in Successful =>
          /\ reply[r].job \in Confirmed /\ Began(reply[r].job)
          /\ req[reply[r].job] = req[r]
          /\ reply[r].kind = "replayed" => Keyed(r)

Truth == /\ \A k \in Keys : EntryTrue(k)
         /\ \A r \in Requests : SignalTrue(r) /\ HandlerTrue(r)

LEMMA InitTruth == Init => Truth
<1>1. Init => \A k \in Keys : EntryTrue(k)
  BY DEF Init, StoreInit, Absent, EntryTrue
<1>2. Init => \A r \in Requests : SignalTrue(r)
  BY SubmissionAssumption DEF Init, StoreInit, NoSignal, SignalTrue
<1>3. Init => \A r \in Requests : HandlerTrue(r)
  BY DEF Init, HandlerTrue, Blank, Began, NoReply, NoTask, At, Successful
<1>4. QED
  BY <1>1, <1>2, <1>3 DEF Truth

\* A request asks once, and a confirmed job stays confirmed.
Grown == /\ \A r \in Requests : Began(r) => Began(r)' /\ req'[r] = req[r]
         /\ jobs \subseteq jobs' /\ entered \subseteq entered'

LEMMA NextGrown ==
    ASSUME Sound, [Next]_vars
    PROVE  Grown
<1>s. Shape /\ ControlOK /\ HandlerTypeOK
  BY DEF Sound, Held, Shape, TypeOK
<1>f. UNCHANGED <<req, http, jobs, entered>> => Grown
  BY DEF Grown, Began
<1>1. CASE UNCHANGED vars \/ Tick \/ CleanupPrune
  BY <1>1, <1>f DEF vars, Tick, CleanupPrune
<1>2. ASSUME NEW r \in Requests, NEW d \in Demands, Arrive(r, d) PROVE Grown
  BY <1>s, <1>2 DEF Grown, Began, Arrive, HandlerTypeOK
<1>3. ASSUME NEW r \in Requests, Handler(r) \/ WaitTimeout(r) \/ Leave(r) PROVE Grown
  <2>1. UNCHANGED <<req, jobs, entered>>
    BY <1>3 DEF Handler, Decide, DecideFresh, DecideJoin, DecideReplay, DecideConflict,
                Wake, TaskEnded, WaitTimeout, Leave
  <2>2. \E at \in {"awaiting", "waiting", "closed", "begin"} : http' = [http EXCEPT ![r] = at]
    BY <1>3 DEF Handler, Decide, DecideFresh, DecideJoin, DecideReplay, DecideConflict,
                Wake, TaskEnded, WaitTimeout, Leave, Answer
  <2>3. QED
    BY <1>s, <2>1, <2>2 DEF Grown, Began, HandlerTypeOK
<1>4. ASSUME NEW r \in Requests, Printing(r) PROVE Grown
  BY <1>s, <1>4, PrintingPhases, PrintingJobTrue DEF Grown, Began
<1>5. ASSUME NEW r \in Requests, Settle(r) PROVE Grown
  BY <1>5, <1>f, SettleJobTrue
<1>6. ASSUME NEW r \in Requests, LateAccept(r) PROVE Grown
  BY <1>6 DEF LateAccept, AddJob, Grown, Began
<1>7. QED
  BY <1>1, <1>2, <1>3, <1>4, <1>5, <1>6
  DEF Next, TaskStep, Environment, Printing

LEMMA EntryTrueFrame ==
    ASSUME Grown, NEW k \in Keys, EntryTrue(k),
           \/ entries'[k].state = "absent"
           \/ /\ entries'[k].state = entries[k].state
              /\ entries'[k].token = entries[k].token
              /\ entries'[k].payload = entries[k].payload
    PROVE  EntryTrue(k)'
  BY DEF EntryTrue, Grown, Confirmed

LEMMA NextEntryTrue ==
    ASSUME Sound, Truth, Grown, [Next]_vars, NEW k \in Keys
    PROVE  EntryTrue(k)'
<1>s. /\ Shape /\ ControlOK /\ StoreTypeOK /\ HandlerTypeOK /\ EntryTrue(k)
  BY DEF Sound, Held, Shape, TypeOK, Truth
<1>f. ASSUME entries'[k] = entries[k] \/ entries'[k] = Absent \/ entries'[k] = Pruned[k]
      PROVE  EntryTrue(k)'
  BY <1>s, <1>f, EntryTrueFrame DEF Absent, Pruned
<1>1. CASE UNCHANGED vars
  BY <1>1, <1>f DEF vars
<1>2. CASE Tick
  <2>1. entries[k] \in Entry /\ entries'[k] = Older(entries[k])
    BY <1>s, <1>2 DEF Tick, StoreTypeOK
  <2>2. entries'[k].payload = entries[k].payload
    BY <2>1 DEF Older, Entry
  <2>3. QED
    BY <1>s, <2>1, <2>2, OlderType, EntryTrueFrame
<1>3. CASE CleanupPrune
  BY <1>3, <1>f DEF CleanupPrune, Prune
<1>4. ASSUME NEW r \in Requests, DecideFresh(r) PROVE EntryTrue(k)'
  <2>0. /\ Key(r) \in Keys /\ BeginFresh(Key(r), Payload(r), r) /\ Began(r)
    BY <1>s, <1>4 DEF DecideFresh, ControlOK, Began
  <2>1. CASE k = Key(r)
    <3>1. entries'[k] = InProgress(Payload(r), r)
      BY <2>0, <2>1, FreshEntries
    <3>2. req[r] = [key |-> k, payload |-> Payload(r)]
      BY <1>s, <2>1 DEF HandlerTypeOK
    <3>3. QED
      BY <2>0, <3>1, <3>2 DEF EntryTrue, InProgress, Grown
  <2>2. CASE k # Key(r)
    BY <2>0, <2>2, <1>f, FreshEntries
  <2>3. QED
    BY <2>1, <2>2
<1>5. ASSUME NEW r \in Requests, DecideJoin(r) \/ DecideReplay(r) \/ DecideConflict(r)
      PROVE  EntryTrue(k)'
  BY <1>5, <1>f
  DEF DecideJoin, DecideReplay, DecideConflict, BeginJoin, BeginReplay, BeginConflict, Prune
<1>6. ASSUME NEW r \in Requests, CompleteKey(r) PROVE EntryTrue(k)'
  <2>0. /\ Key(r) \in Keys /\ Began(r) /\ r \in Confirmed
        /\ req[r] = [key |-> Key(r), payload |-> Payload(r)]
    BY <1>s, <1>6 DEF CompleteKey, ControlOK, Began, Sound, JobTrue, Truth, HandlerTrue,
                      Settling, HandlerTypeOK
  <2>1. CASE k = Key(r)
    <3>1. entries'[k] = Completed(Payload(r), r)
      BY <1>s, <1>6, <2>1 DEF CompleteKey, Complete, StoreTypeOK
    <3>2. QED
      BY <2>0, <2>1, <3>1 DEF EntryTrue, Completed, Grown, Confirmed
  <2>2. CASE k # Key(r)
    BY <1>s, <1>6, <1>f, <2>2 DEF CompleteKey, Complete, StoreTypeOK
  <2>3. QED
    BY <2>1, <2>2
<1>7. ASSUME NEW r \in Requests, AbortKey(r) \/ Notify(r) \/ DropGuard(r)
      PROVE  EntryTrue(k)'
  BY <1>s, <1>7, <1>f DEF AbortKey, Notify, DropGuard, Abort, StoreTypeOK
<1>8. ASSUME NEW r \in Requests, Printing(r) PROVE EntryTrue(k)'
  BY <1>s, <1>8, <1>f, PrintingPhases
<1>9. ASSUME NEW r \in Requests, Wake(r) \/ TaskEnded(r) PROVE EntryTrue(k)'
  BY <1>9, <1>f DEF Wake, TaskEnded
<1>10. ASSUME NEW r \in Requests, Environment(r) PROVE EntryTrue(k)'
  BY <1>8, <1>10, <1>f DEF Environment, Arrive, WaitTimeout, Leave, LateAccept, Printing
<1>11. QED
  BY <1>1, <1>2, <1>3, <1>4, <1>5, <1>6, <1>7, <1>8, <1>9, <1>10
  DEF Next, Handler, Decide, TaskStep, Settle, Printing

LEMMA NextSignalTrue ==
    ASSUME Sound, Truth, Grown, [Next]_vars, NEW t \in Requests
    PROVE  SignalTrue(t)'
<1>s. /\ Shape /\ ControlOK /\ StoreOK /\ StoreTypeOK /\ SignalTrue(t) /\ t \in Tokens
  BY SubmissionAssumption DEF Sound, Held, Shape, TypeOK, Truth, StoreOK
<1>f. ASSUME \/ signals'[t] = signals[t] \/ signals'[t].state # "completed"
             \/ signals'[t] = PrunedSignals[t]
      PROVE  SignalTrue(t)'
  <2>1. PrunedSignals[t] = signals[t] \/ PrunedSignals[t].state = "dropped"
    BY <1>s DEF PrunedSignals, Dropped
  <2>2. QED
    BY <1>s, <1>f, <2>1 DEF SignalTrue, Grown, Confirmed
<1>1. CASE UNCHANGED vars
  BY <1>1, <1>f DEF vars
<1>2. CASE Tick
  BY <1>2, <1>f DEF Tick
<1>3. CASE CleanupPrune
  BY <1>3, <1>f DEF CleanupPrune, Prune
<1>4. ASSUME NEW r \in Requests, DecideFresh(r) PROVE SignalTrue(t)'
  <2>1. signals' = [PrunedSignals EXCEPT ![r] = Pending] /\ PrunedSignals \in [Tokens -> Signal]
    BY <1>s, <1>4, PruneType DEF DecideFresh, BeginFresh
  <2>2. signals'[t] = PrunedSignals[t] \/ signals'[t] = Pending
    BY <1>s, <2>1
  <2>3. QED
    BY <1>f, <2>2 DEF Pending
<1>5. ASSUME NEW r \in Requests, DecideJoin(r) \/ DecideReplay(r) \/ DecideConflict(r)
      PROVE  SignalTrue(t)'
  BY <1>5, <1>f
  DEF DecideJoin, DecideReplay, DecideConflict, BeginJoin, BeginReplay, BeginConflict, Prune
<1>6. ASSUME NEW r \in Requests, CompleteKey(r) \/ AbortKey(r) PROVE SignalTrue(t)'
  BY <1>6, <1>f DEF CompleteKey, AbortKey
<1>7. ASSUME NEW r \in Requests, Notify(r) PROVE SignalTrue(t)'
  <2>1. task[r].handle \in {None, r}
    BY <1>7 DEF Notify, Sound, JobTrue
  <2>2. CASE task[r].handle = t /\ task[r].job # None
    <3>1. t = r /\ task[r].job = t /\ t \in Confirmed
      BY <1>s, <2>1, <2>2, StoreAssumption DEF Sound, JobTrue
    <3>2. signals'[t] = Settled(t)
      BY <1>s, <1>7, <2>2, <3>1, StoreAssumption DEF Notify, Send, StoreTypeOK
    <3>3. QED
      BY <3>1, <3>2 DEF SignalTrue, Settled, Grown, Confirmed
  <2>3. CASE ~(task[r].handle = t /\ task[r].job # None)
    BY <1>s, <1>7, <1>f, <2>3 DEF Notify, Send, StoreTypeOK, Aborted
  <2>4. QED
    BY <2>2, <2>3
<1>8. ASSUME NEW r \in Requests, DropGuard(r) PROVE SignalTrue(t)'
  BY <1>s, <1>8, <1>f DEF DropGuard, Send, StoreTypeOK, Aborted
<1>9. ASSUME NEW r \in Requests, Printing(r) PROVE SignalTrue(t)'
  BY <1>s, <1>9, <1>f, PrintingPhases
<1>10. ASSUME NEW r \in Requests, Wake(r) \/ TaskEnded(r) \/ Environment(r)
       PROVE  SignalTrue(t)'
  BY <1>9, <1>10, <1>f
  DEF Wake, TaskEnded, Environment, Arrive, WaitTimeout, Leave, LateAccept, Printing
<1>11. QED
  BY <1>1, <1>2, <1>3, <1>4, <1>5, <1>6, <1>7, <1>8, <1>9, <1>10
  DEF Next, Handler, Decide, TaskStep, Settle, Printing

\* A step that leaves a request's handler alone.
LEMMA HandlerTrueFrame ==
    ASSUME Sound, Truth, Grown, NEW s \in Requests,
           http'[s] = http[s], joined'[s] = joined[s], reply'[s] = reply[s],
           req'[s] = req[s],
           task'[s].phase = "complete" => task'[s].job # None
    PROVE  HandlerTrue(s)'
<1>1. HandlerTrue(s) /\ (http[s] = "waiting" => joined[s] \in Requests)
      /\ Confirmed \subseteq Requests
  BY DEF Truth, Sound, Held, Shape, ControlOK, TypeOK, CupsTypeOK, Confirmed
<1>2. QED
  BY <1>1 DEF HandlerTrue, Began, Grown, Confirmed, Successful

\* The response a handler sends is true.
LEMMA AnswerTrue ==
    ASSUME Sound, Truth, Grown, NEW r \in Requests, NEW a, Answer(r, a),
           Began(r), task' = task,
           \/ a.kind \notin Successful /\ a.job = None
           \/ /\ a.kind \in Successful
              /\ a.job \in Confirmed /\ Began(a.job) /\ req[a.job] = req[r]
              /\ a.kind = "replayed" => Keyed(r)
    PROVE  HandlerTrue(r)'
<1>1. /\ HandlerTrue(r) /\ Confirmed \subseteq Requests /\ HandlerTypeOK
  BY DEF Truth, Sound, Held, Shape, TypeOK, CupsTypeOK, Confirmed
<1>2. http'[r] = "closed" /\ reply'[r] = a
  BY <1>1 DEF Answer, HandlerTypeOK
<1>3. Began(r)' /\ req'[r] = req[r]
  BY DEF Grown
<1>4. CASE a.kind \notin Successful /\ a.job = None
  BY <1>1, <1>2, <1>3, <1>4 DEF HandlerTrue
<1>5. CASE /\ a.kind \in Successful
           /\ a.job \in Confirmed /\ Began(a.job) /\ req[a.job] = req[r]
           /\ a.kind = "replayed" => Keyed(r)
  <2>1. Began(a.job)' /\ req'[a.job] = req[a.job] /\ a.job \in Confirmed'
    BY <1>1, <1>5 DEF Grown, Confirmed
  <2>2. QED
    BY <1>1, <1>2, <1>3, <1>5, <2>1 DEF HandlerTrue
<1>6. QED
  BY <1>4, <1>5
LEMMA NextHandlerTrue ==
    ASSUME Sound, Truth, Grown, [Next]_vars, NEW s \in Requests
    PROVE  HandlerTrue(s)'
<1>s. /\ Shape /\ ControlOK /\ StoreOK /\ HandlerTypeOK /\ HandlerTrue(s)
      /\ task \in [Requests -> Task]
  BY DEF Sound, Held, Shape, TypeOK, Truth, StoreOK
<1>t. /\ Confirmed \subseteq Requests
      /\ \A k \in Keys : EntryTrue(k)
      /\ \A t \in Requests : SignalTrue(t) /\ HandlerTrue(t) /\ JobTrue(t)
  BY <1>s DEF Truth, Sound, Shape, TypeOK, CupsTypeOK, Confirmed
\* A step of somebody else's handler, or of no handler.
<1>f. ASSUME http'[s] = http[s], joined'[s] = joined[s], reply'[s] = reply[s],
             req'[s] = req[s], task'[s] = task[s]
      PROVE  HandlerTrue(s)'
  BY <1>s, <1>f, HandlerTrueFrame DEF HandlerTrue
<1>a. ASSUME NEW r \in Requests, NEW a, Answer(r, a), UNCHANGED <<req, task>>, s # r
      PROVE  HandlerTrue(s)'
  BY <1>s, <1>a, <1>f DEF Answer, HandlerTypeOK
<1>1. CASE UNCHANGED vars
  BY <1>1, <1>f DEF vars
<1>2. CASE Tick
  BY <1>s, <1>2, HandlerTrueFrame DEF Tick, HandlerTrue, Task
<1>3. CASE CleanupPrune
  BY <1>3, <1>f DEF CleanupPrune
<1>4. ASSUME NEW r \in Requests, NEW d \in Demands, Arrive(r, d) PROVE HandlerTrue(s)'
  <2>1. CASE s = r
    <3>1. /\ http'[r] \in {"begin", "awaiting"} /\ reply'[r] = NoReply
          /\ task'[r].phase # "complete"
      <4>1. /\ http[r] = "idle" /\ task[r].phase = "none" /\ reply'[r] = NoReply
            /\ http' = [http EXCEPT ![r] = "begin"] \/ http' = [http EXCEPT ![r] = "awaiting"]
            /\ task' = task \/ task' = [task EXCEPT ![r] = NewTask]
        BY <1>s, <1>t, <1>4 DEF Arrive, ControlOK, HandlerTrue
      <4>2. QED
        BY <1>s, <4>1, NewTaskType DEF HandlerTypeOK
    <3>2. QED
      BY <2>1, <3>1 DEF HandlerTrue, Began, NoReply, Successful
  <2>2. CASE s # r
    BY <1>s, <1>4, <1>f, <2>2 DEF Arrive, HandlerTypeOK
  <2>3. QED
    BY <2>1, <2>2
<1>5. ASSUME NEW r \in Requests, DecideFresh(r) PROVE HandlerTrue(s)'
  <2>0. /\ http' = [http EXCEPT ![r] = "awaiting"] /\ UNCHANGED <<req, joined, reply>>
        /\ task' = [task EXCEPT ![r] = NewTask] /\ http[r] = "begin"
    BY <1>5 DEF DecideFresh
  <2>1. CASE s = r
    <3>1. http'[r] = "awaiting" /\ task'[r].phase # "complete" /\ reply[r] = NoReply
      BY <1>s, <1>t, <2>0, NewTaskType DEF HandlerTypeOK, HandlerTrue
    <3>2. QED
      BY <2>0, <2>1, <3>1 DEF HandlerTrue, Began, NoReply, Successful
  <2>2. CASE s # r
    BY <1>s, <1>f, <2>0, <2>2 DEF HandlerTypeOK
  <2>3. QED
    BY <2>1, <2>2
<1>6. ASSUME NEW r \in Requests, DecideJoin(r) PROVE HandlerTrue(s)'
  <2>0. /\ http[r] = "begin" /\ Key(r) \in Keys /\ UNCHANGED <<req, reply, task>>
        /\ http' = [http EXCEPT ![r] = "waiting"]
        /\ joined' = [joined EXCEPT ![r] = entries[Key(r)].token]
        /\ Pruned[Key(r)].state = "in_progress" /\ Pruned[Key(r)].payload = Payload(r)
    BY <1>s, <1>6 DEF DecideJoin, BeginJoin, ControlOK
  <2>1. CASE s = r
    <3>1. Pruned[Key(r)] = entries[Key(r)]
      BY <1>s, <2>0, PruneType
    <3>2. LET t == entries[Key(r)].token IN
            /\ t \in Requests /\ Began(t) /\ req[t] = req[r]
      BY <1>s, <1>t, <2>0, <3>1 DEF EntryTrue, HandlerTypeOK
    <3>3. http'[r] = "waiting" /\ joined'[r] = entries[Key(r)].token /\ reply'[r] = NoReply
      BY <1>s, <1>t, <2>0 DEF HandlerTypeOK, HandlerTrue
    <3>4. QED
      BY <1>s, <2>0, <2>1, <3>2, <3>3
      DEF HandlerTrue, Began, Grown, NoReply, Successful, ControlOK
  <2>2. CASE s # r
    BY <1>s, <1>f, <2>0, <2>2 DEF HandlerTypeOK
  <2>3. QED
    BY <2>1, <2>2
<1>7. ASSUME NEW r \in Requests, DecideReplay(r) PROVE HandlerTrue(s)'
  <2> DEFINE a == [kind |-> "replayed", job |-> entries[Key(r)].token]
  <2>0. /\ http[r] = "begin" /\ Key(r) \in Keys /\ UNCHANGED <<req, task>> /\ Answer(r, a)
        /\ Pruned[Key(r)].state = "completed" /\ Pruned[Key(r)].payload = Payload(r)
    BY <1>s, <1>7 DEF DecideReplay, BeginReplay, ControlOK
  <2>1. CASE s = r
    <3>1. Pruned[Key(r)] = entries[Key(r)]
      BY <1>s, <2>0, PruneType
    <3>2. /\ a.job \in Confirmed /\ Began(a.job) /\ req[a.job] = req[r]
      BY <1>s, <1>t, <2>0, <3>1 DEF EntryTrue, HandlerTypeOK
    <3>3. a.kind \in Successful /\ Began(r)
      BY <2>0 DEF Successful, Began
    <3>4. QED
      BY <2>0, <2>1, <3>2, <3>3, AnswerTrue
  <2>2. CASE s # r
    BY <1>a, <2>0, <2>2
  <2>3. QED
    BY <2>1, <2>2
<1>8. ASSUME NEW r \in Requests,
             \/ DecideConflict(r) \/ WaitTimeout(r) \/ Leave(r)
             \/ TaskEnded(r) /\ task[r].job = None
             \/ Wake(r) /\ signals[joined[r]].state \notin {"completed", "aborted"}
      PROVE  HandlerTrue(s)'
  <2>1. PICK kind \in {"conflict", "in_progress", "gone", "error"} : Answer(r, Reply(kind))
    BY <1>8 DEF DecideConflict, WaitTimeout, Leave, TaskEnded, Wake
  <2>2. UNCHANGED <<req, task>> /\ Began(r)
    BY <1>8 DEF DecideConflict, WaitTimeout, Leave, TaskEnded, Wake, Began, Waiting
  <2>3. Reply(kind).kind \notin Successful /\ Reply(kind).job = None
    BY DEF Reply, Successful
  <2>4. QED
    BY <1>a, <2>1, <2>2, <2>3, AnswerTrue
<1>9. ASSUME NEW r \in Requests, TaskEnded(r), task[r].job # None PROVE HandlerTrue(s)'
  <2> DEFINE a == [kind |-> "accepted", job |-> task[r].job]
  <2>1. Answer(r, a) /\ UNCHANGED <<req, task>> /\ Began(r)
    BY <1>9 DEF TaskEnded, Began
  <2>2. a.kind \in Successful /\ a.kind # "replayed" /\ a.job = r /\ r \in Confirmed
    BY <1>t, <1>9 DEF JobTrue, Successful
  <2>3. QED
    BY <1>a, <2>1, <2>2, AnswerTrue
<1>10. ASSUME NEW r \in Requests, Wake(r), signals[joined[r]].state = "completed"
       PROVE  HandlerTrue(s)'
  <2> DEFINE a == [kind |-> "replayed", job |-> signals[joined[r]].job]
  <2>1. Answer(r, a) /\ UNCHANGED <<req, task>> /\ http[r] = "waiting"
    BY <1>10 DEF Wake
  <2>2. joined[r] \in Requests /\ Keyed(r)
    BY <1>s, <2>1 DEF ControlOK
  <2>3. /\ a.job = joined[r] /\ joined[r] \in Confirmed
        /\ Began(joined[r]) /\ req[joined[r]] = req[r]
    BY <1>t, <1>10, <2>1, <2>2 DEF SignalTrue, HandlerTrue
  <2>4. a.kind \in Successful /\ Began(r)
    BY <2>1 DEF Successful, Began
  <2>5. QED
    BY <1>a, <2>1, <2>2, <2>3, <2>4, AnswerTrue
<1>11. ASSUME NEW r \in Requests, Wake(r), signals[joined[r]].state = "aborted"
       PROVE  HandlerTrue(s)'
  <2>0. /\ http' = [http EXCEPT ![r] = "begin"] /\ joined' = [joined EXCEPT ![r] = None]
        /\ UNCHANGED <<req, task, reply>> /\ http[r] = "waiting"
    BY <1>11 DEF Wake
  <2>1. CASE s = r
    BY <1>s, <1>t, <2>0, <2>1 DEF HandlerTrue, Began, HandlerTypeOK, NoReply, Successful
  <2>2. CASE s # r
    BY <1>s, <1>f, <2>0, <2>2 DEF HandlerTypeOK
  <2>3. QED
    BY <2>1, <2>2
<1>12. ASSUME NEW r \in Requests, Settle(r) PROVE HandlerTrue(s)'
  <2>1. UNCHANGED handlerVars
    BY <1>12, SettleJobTrue
  <2>2. task'[s] = task[s] \/ task'[s].phase # "complete"
    BY <1>s, <1>12 DEF Settle, CompleteKey, AbortKey, Notify, DropGuard, Goto, At, Task
  <2>3. QED
    BY <1>s, <2>1, <2>2, HandlerTrueFrame DEF HandlerTrue
<1>13. ASSUME NEW r \in Requests, Printing(r) PROVE HandlerTrue(s)'
  <2>1. UNCHANGED handlerVars /\ (s # r => task'[s] = task[s])
    BY <1>s, <1>13, PrintingPhases
  <2>2. task'[r].phase = "complete" => task'[r].job # None
    BY <1>s, <1>13, SubmissionAssumption, StoreAssumption
    DEF Printing, PrintJob, FindNextCall, StartPrintJob, RefuseLocally, FindUnanswered,
        CupsRefuses, PrintJobUnanswered, PrintJobAnswered, PrintJobGarbled,
        ReconcileFinds, ReconcileMisses, ReconcileFails, Panic, CupsAccepts, GiveUp,
        Unanswered, Succeed, Call, Goto, At, Task
  <2>3. QED
    BY <1>s, <2>1, <2>2, HandlerTrueFrame DEF HandlerTrue
<1>14. ASSUME NEW r \in Requests, LateAccept(r) PROVE HandlerTrue(s)'
  BY <1>14, <1>f DEF LateAccept
<1>15. ASSUME NEW r \in Requests, Wake(r) \/ TaskEnded(r) PROVE HandlerTrue(s)'
  BY <1>8, <1>9, <1>10, <1>11, <1>15
<1>16. QED
  BY <1>1, <1>2, <1>3, <1>4, <1>5, <1>6, <1>7, <1>8, <1>12, <1>13, <1>14, <1>15
  DEF Next, Handler, Decide, TaskStep, Environment, Printing

LEMMA NextTruth == Sound /\ Truth /\ [Next]_vars => Truth'
  BY NextGrown, NextEntryTrue, NextSignalTrue, NextHandlerTrue DEF Truth

\* ReplyFidelity: a success response names a job CUPS accepted, entered in the
\* registry, created by a request with the same key and payload: under every fault, provided the
\* retention period covers a submission (complete stores the response under the
\* key whoever holds it by then).
THEOREM ReplyFidelityCorrect == RetentionCoversWindow => (Spec => []ReplyFidelity)
<1> SUFFICES ASSUME RetentionCoversWindow PROVE Spec => []ReplyFidelity
  OBVIOUS
<1>1. Init => Sound /\ Truth
  BY InitSound, InitTruth
<1>2. Sound /\ Truth /\ [Next]_vars => (Sound /\ Truth)'
  BY NextSound, NextTruth
<1>3. Truth => ReplyFidelity
  BY DEF Truth, HandlerTrue, ReplyFidelity, Successful, Confirmed
<1>4. QED
  BY <1>1, <1>2, <1>3, PTL DEF Spec

-----------------------------------------------------------------------------
(* At most one success per key, whatever fails.                            *)

\* The store answers for r's job, or is about to.
Answered(k, r) == \/ entries[k].state = "completed" /\ entries[k].token = r
                  \/ OwnedBy(k, r) /\ task[r].phase = "complete"

SuccessVouched(k) ==
    \A r \in printed[k] : /\ Key(r) = k /\ r \in jobs
                          /\ task[r].job # None => Answered(k, r)

Successes == \A k \in Keys : SuccessVouched(k)

LEMMA InitSuccesses == Init => Successes
  BY DEF Init, Successes, SuccessVouched

\* No step of a task: the key is as before, or is forgotten.
LEMMA SuccessForget ==
    ASSUME Sound, RetentionCoversWindow, Successes, NEW k \in Keys,
           Forget, UNCHANGED <<req, jobs>>,
           \A r \in printed[k] : task'[r] = task[r],
           \/ entries'[k] = Pruned[k]
           \/ Pruned[k].state = "completed" /\ entries'[k] = Absent
    PROVE  SuccessVouched(k)'
<1>1. CASE /\ entries[k].state = "completed"
           /\ Expired(k) \/ entries'[k].state = "absent"
  BY <1>1 DEF Forget, SuccessVouched
<1>2. CASE ~ /\ entries[k].state = "completed"
             /\ Expired(k) \/ entries'[k].state = "absent"
  <2>1. printed'[k] = printed[k] /\ printed[k] \subseteq Requests
    BY <1>2 DEF Forget, Sound, Held, Shape, TypeOK, CupsTypeOK
  <2>2. ASSUME NEW r \in printed[k], Answered(k, r) PROVE entries'[k] = entries[k]
    <3>1. CASE entries[k].state = "completed"
      BY <1>2, <3>1 DEF Pruned, Absent
    <3>2. CASE OwnedBy(k, r)
      BY <2>1, <3>2, OwnedUnexpired DEF OwnedBy
    <3>3. QED
      BY <2>2, <3>1, <3>2 DEF Answered
  <2>3. QED
    BY <2>1, <2>2 DEF Successes, SuccessVouched, Answered, OwnedBy
<1>3. QED
  BY <1>1, <1>2

LEMMA SuccessFresh ==
    ASSUME Sound, RetentionCoversWindow, Successes, NEW r \in Requests,
           DecideFresh(r), NEW k \in Keys
    PROVE  SuccessVouched(k)'
<1>s. TypeOK /\ ControlOK /\ task \in [Requests -> Task] /\ CupsTypeOK
  BY DEF Sound, Held, Shape, TypeOK
<1>0. /\ Forget /\ UNCHANGED <<req, jobs>> /\ task' = [task EXCEPT ![r] = NewTask]
      /\ BeginFresh(Key(r), Payload(r), r) /\ Key(r) \in Keys
      /\ printed[k] \subseteq Requests
  BY <1>s DEF DecideFresh, ControlOK, CupsTypeOK
<1>1. CASE k = Key(r)
  <2>1. Pruned[k].state = "absent"
    BY <1>0, <1>1 DEF BeginFresh
  <2>2. ASSUME NEW q \in printed'[k] PROVE q \in printed[k] /\ ~Answered(k, q)
    <3>1. q \in printed[k] /\ ~(entries[k].state = "completed" /\ Expired(k))
      BY <1>0, <2>2 DEF Forget
    <3>2. entries[k].state # "completed"
      BY <2>1, <3>1 DEF Pruned
    <3>3. ~OwnedBy(k, q)
      BY <1>0, <2>1, <3>1, OwnedUnexpired DEF OwnedBy
    <3>4. QED
      BY <3>1, <3>2, <3>3 DEF Answered
  <2>3. ASSUME NEW q \in printed'[k] PROVE q # r => task'[q] = task[q]
    BY <1>s, <1>0, <2>2
  <2>4. task'[r].job = None
    BY <1>s, <1>0, NewTaskType DEF NewTask, At
  <2>5. QED
    BY <1>0, <2>2, <2>3, <2>4 DEF Successes, SuccessVouched
<1>2. CASE k # Key(r)
  <2>1. \/ entries'[k] = Pruned[k]
        \/ Pruned[k].state = "completed" /\ entries'[k] = Absent
    BY <1>0, <1>2, FreshEntries
  <2>2. \A q \in printed[k] : task'[q] = task[q]
    BY <1>s, <1>0, <1>2 DEF Successes, SuccessVouched
  <2>3. QED
    BY <1>0, <2>1, <2>2, SuccessForget
<1>3. QED
  BY <1>1, <1>2

LEMMA SuccessFrame ==
    ASSUME Successes, NEW k \in Keys, printed'[k] = printed[k], jobs \subseteq jobs',
           \A r \in printed[k] :
              /\ req'[r] = req[r]
              /\ task'[r].job # None =>
                    \/ Answered(k, r)'
                    \/ /\ task[r].job # None /\ task'[r].phase = task[r].phase
                       /\ entries'[k].state = entries[k].state
                       /\ entries'[k].token = entries[k].token
    PROVE  SuccessVouched(k)'
  BY DEF Successes, SuccessVouched, Answered, OwnedBy

LEMMA SuccessPrinting ==
    ASSUME Sound, Successes, NEW r \in Requests, Printing(r), NEW k \in Keys
    PROVE  SuccessVouched(k)'
<1>s. /\ Shape /\ CupsTypeOK /\ task \in [Requests -> Task]
      /\ printed \in [Keys -> SUBSET Requests]
  BY DEF Sound, Held, Shape, TypeOK, CupsTypeOK
<1>0. /\ UNCHANGED <<storeVars, handlerVars>> /\ jobs \subseteq jobs'
      /\ \A s \in Requests \ {r} : task'[s] = task[s]
  BY <1>s, PrintingPhases, PrintingJobTrue
<1>1. CASE CupsAccepts(r)
  <2>1. /\ task'[r].job = task[r].job /\ r \notin jobs /\ task[r].job = None
        /\ r \in jobs'
        /\ printed' = IF Keyed(r) THEN [printed EXCEPT ![Key(r)] = @ \cup {r}] ELSE printed
    BY <1>s, <1>1 DEF CupsAccepts, AddJob, Task, Sound, JobTrue, Confirmed
  <2>2. CASE printed'[k] = printed[k] /\ r \notin printed[k]
    BY <1>s, <1>0, <2>2, SuccessFrame DEF SuccessVouched
  <2>3. CASE k = Key(r) /\ printed'[k] = printed[k] \cup {r}
    BY <1>s, <1>0, <2>1, <2>3 DEF Successes, SuccessVouched, Answered, OwnedBy
  <2>4. QED
    BY <1>s, <2>1, <2>2, <2>3 DEF Successes, SuccessVouched
<1>2. CASE PrintJobAnswered(r) \/ ReconcileFinds(r)
  <2>1. /\ task[r].phase \in InCall /\ printed' = printed
        /\ task'[r].phase = IF Keyed(r) THEN "complete" ELSE "done"
    BY <1>s, <1>2 DEF PrintJobAnswered, ReconcileFinds, Succeed, Goto, At, InCall
  <2>2. Keyed(r) => OwnedBy(Key(r), r)
    BY <2>1, LiveHeld DEF Sound, Live, Unsettled
  <2>3. r \in printed[k] => Answered(k, r)'
    BY <1>0, <2>1, <2>2 DEF Successes, SuccessVouched, Answered, OwnedBy
  <2>4. QED
    BY <1>s, <1>0, <2>1, <2>3, SuccessFrame
<1>3. CASE Printing(r) /\ ~(CupsAccepts(r) \/ PrintJobAnswered(r) \/ ReconcileFinds(r))
  <2>1. task'[r].job = None /\ printed' = printed
    BY <1>s, <1>3
    DEF Printing, PrintJob, FindNextCall, StartPrintJob, RefuseLocally, FindUnanswered,
        CupsRefuses, PrintJobUnanswered, PrintJobGarbled, ReconcileMisses,
        ReconcileFails, Panic, GiveUp, Unanswered, Call, Goto, At
  <2>2. QED
    BY <1>s, <1>0, <2>1, SuccessFrame
<1>4. QED
  BY <1>1, <1>2, <1>3

LEMMA SuccessSettle ==
    ASSUME Sound, Successes, NEW r \in Requests, Settle(r), NEW k \in Keys
    PROVE  SuccessVouched(k)'
<1>s. /\ Shape /\ CupsTypeOK /\ task \in [Requests -> Task] /\ StoreTypeOK /\ ControlOK
      /\ printed[k] \subseteq Requests
  BY DEF Sound, Held, Shape, TypeOK, CupsTypeOK
<1>0. /\ UNCHANGED <<handlerVars, cupsVars>>
      /\ \A s \in Requests \ {r} : task'[s] = task[s]
      /\ task'[r].job = task[r].job
  BY <1>s, SettleJobTrue DEF Settle, CompleteKey, AbortKey, Notify, DropGuard, Goto, At, Task
<1>1. CASE CompleteKey(r)
  <2>0. task[r].phase = "complete" /\ Complete(Key(r), Payload(r), r) /\ Keyed(r)
    BY <1>s, <1>1 DEF CompleteKey, ControlOK, Settling
  <2>1. CASE k = Key(r)
    <3>1. OwnedBy(k, r)
      BY <2>0, <2>1, LiveHeld DEF Sound, Live, Unsettled, Settling
    <3>2. \A s \in printed[k] : Answered(k, s) => s = r
      BY <3>1 DEF Answered, OwnedBy
    <3>3. entries'[k].state = "completed" /\ entries'[k].token = r
      BY <1>s, <2>0, <2>1 DEF Complete, Completed, StoreTypeOK
    <3>4. QED
      BY <1>s, <1>0, <3>2, <3>3 DEF Successes, SuccessVouched, Answered
  <2>2. CASE k # Key(r)
    <3>1. entries'[k] = entries[k]
      BY <1>s, <2>0, <2>2 DEF Complete, StoreTypeOK
    <3>2. \A s \in printed[k] : s # r
      BY <2>2 DEF Successes, SuccessVouched
    <3>3. QED
      BY <1>s, <1>0, <3>1, <3>2, SuccessFrame
  <2>3. QED
    BY <2>1, <2>2
<1>2. CASE AbortKey(r) \/ DropGuard(r) \/ Notify(r)
  <2>1. task[r].phase # "complete"
    BY <1>2 DEF AbortKey, DropGuard, Notify
  <2>2. \/ entries'[k] = entries[k]
        \/ OwnedBy(k, r)
    BY <1>s, <1>2 DEF AbortKey, DropGuard, Notify, Abort, StoreTypeOK
  <2>3. \A s \in printed[k] : Answered(k, s) => Answered(k, s)'
    BY <1>s, <1>0, <2>1, <2>2 DEF Answered, OwnedBy
  <2>4. QED
    BY <1>s, <1>0, <2>3 DEF Successes, SuccessVouched
<1>3. QED
  BY <1>1, <1>2 DEF Settle

LEMMA NextSuccesses ==
    ASSUME Sound, RetentionCoversWindow, Successes, [Next]_vars, NEW k \in Keys
    PROVE  SuccessVouched(k)'
<1>s. /\ Shape /\ ControlOK /\ StoreTypeOK /\ HandlerTypeOK
      /\ task \in [Requests -> Task] /\ printed \in [Keys -> SUBSET Requests]
  BY DEF Sound, Held, Shape, TypeOK, CupsTypeOK
<1>u. ASSUME UNCHANGED <<entries, req, task, jobs, printed>> PROVE SuccessVouched(k)'
  BY <1>u DEF Successes, SuccessVouched, Answered, OwnedBy
<1>p. ASSUME Prune, Forget, UNCHANGED <<req, jobs, task>> PROVE SuccessVouched(k)'
  BY <1>p, SuccessForget DEF Prune
<1>1. CASE UNCHANGED vars
  BY <1>1, <1>u DEF vars
<1>2. CASE Tick
  <2>1. entries'[k].state = entries[k].state /\ entries'[k].token = entries[k].token
    BY <1>s, <1>2, OlderType DEF Tick, StoreTypeOK
  <2>2. /\ \A r \in Requests : task'[r].phase = task[r].phase /\ task'[r].job = task[r].job
        /\ UNCHANGED <<req, cupsVars>>
    BY <1>s, <1>2 DEF Tick, Task
  <2>3. QED
    BY <1>s, <2>1, <2>2, SuccessFrame
<1>3. CASE CleanupPrune
  BY <1>3, <1>p DEF CleanupPrune
<1>4. ASSUME NEW r \in Requests, NEW d \in Demands, Arrive(r, d) PROVE SuccessVouched(k)'
  <2>1. r \notin jobs
    BY <1>s, <1>4 DEF Arrive, ControlOK, Sound, JobTrue
  <2>2. \A q \in printed[k] : req'[q] = req[q] /\ task'[q] = task[q]
    BY <1>s, <1>4, <2>1 DEF Successes, SuccessVouched, Arrive, HandlerTypeOK
  <2>3. QED
    BY <1>4, <2>2, SuccessFrame DEF Arrive
<1>5. ASSUME NEW r \in Requests, DecideJoin(r) \/ DecideReplay(r) \/ DecideConflict(r)
      PROVE  SuccessVouched(k)'
  BY <1>5, <1>p
  DEF DecideJoin, DecideReplay, DecideConflict, BeginJoin, BeginReplay, BeginConflict
<1>6. ASSUME NEW r \in Requests, Wake(r) \/ TaskEnded(r) \/ WaitTimeout(r) \/ Leave(r)
      PROVE  SuccessVouched(k)'
  BY <1>6, <1>u DEF Wake, TaskEnded, WaitTimeout, Leave
<1>7. ASSUME NEW r \in Requests, LateAccept(r) PROVE SuccessVouched(k)'
  <2>1. task[r].job = None /\ r \in jobs'
    BY <1>7 DEF LateAccept, AddJob, Sound, JobTrue, Confirmed
  <2>2. /\ \/ printed'[k] = printed[k]
           \/ printed'[k] = printed[k] \cup {r} /\ k = Key(r)
        /\ UNCHANGED <<entries, req, task>> /\ jobs \subseteq jobs'
    BY <1>s, <1>7 DEF LateAccept, AddJob
  <2>3. QED
    BY <2>1, <2>2 DEF Successes, SuccessVouched, Answered, OwnedBy
<1>8. QED
  BY <1>1, <1>2, <1>3, <1>4, <1>5, <1>6, <1>7, SuccessFresh, SuccessPrinting, SuccessSettle
  DEF Next, Handler, Decide, TaskStep, Environment, Printing

\* OneSuccessPerKey: whatever fails, at most one attempt of a key that is not
\* forgotten is taken for a success, provided the retention period covers a
\* submission.
THEOREM OneSuccessPerKeyCorrect == RetentionCoversWindow => (Spec => []OneSuccessPerKey)
<1> SUFFICES ASSUME RetentionCoversWindow PROVE Spec => []OneSuccessPerKey
  OBVIOUS
<1>1. Init => Sound /\ Successes
  BY InitSound, InitSuccesses
<1>2. Sound /\ Successes /\ [Next]_vars => (Sound /\ Successes)'
  BY NextSound, NextSuccesses DEF Successes
<1>3. Successes => OneSuccessPerKey
  BY DEF Successes, SuccessVouched, Answered, OwnedBy, OneSuccessPerKey
<1>4. QED
  BY <1>1, <1>2, <1>3, PTL DEF Spec

-----------------------------------------------------------------------------
(* No print after a success.                                               *)

\* CUPS is late only under the fault.
LEMMA NextOnTime ==
    ASSUME "late_accept" \notin Faults, NoLate, [Next]_vars
    PROVE  NoLate'
<1>1. ASSUME NEW r \in Requests, Handler(r) PROVE late' = late
  BY <1>1 DEF Handler, Decide, DecideFresh, DecideJoin, DecideReplay,
              DecideConflict, Wake, TaskEnded
<1>2. ASSUME NEW r \in Requests, Printing(r) PROVE late' = late
  BY <1>2 DEF Printing, PrintJob, FindNextCall, StartPrintJob, RefuseLocally,
              FindUnanswered, CupsRefuses, PrintJobUnanswered, PrintJobAnswered,
              PrintJobGarbled, ReconcileFinds, ReconcileMisses, ReconcileFails,
              CupsAccepts, Panic
<1>3. ASSUME NEW r \in Requests, Settle(r) PROVE late' = late
  BY <1>3 DEF Settle, CompleteKey, AbortKey, Notify, DropGuard
<1>4. ASSUME NEW r \in Requests, Environment(r) PROVE late' = {}
  BY <1>2, <1>4 DEF NoLate, Environment, Arrive, WaitTimeout, Leave, LateAccept, Printing
<1>5. CleanupPrune \/ Tick \/ UNCHANGED vars => late' = late
  BY DEF CleanupPrune, Tick, vars
<1>6. QED
  BY <1>1, <1>2, <1>3, <1>4, <1>5 DEF NoLate, Next, TaskStep, Printing

\* What the steps other than an acceptance do to the printed jobs.
LEMMA PrintedOnlyShrinks ==
    ASSUME Shape, [Next]_vars, NEW k \in Keys,
           ~ \E r \in Requests : CupsAccepts(r) \/ LateAccept(r)
    PROVE  printed'[k] \subseteq printed[k]
<1>f. Forget => printed'[k] \subseteq printed[k]
  BY DEF Forget
<1>1. ASSUME NEW r \in Requests, Handler(r) PROVE printed' = printed \/ Forget
  BY <1>1 DEF Handler, Decide, DecideFresh, DecideJoin, DecideReplay,
              DecideConflict, Wake, TaskEnded
<1>2. ASSUME NEW r \in Requests, Printing(r), ~CupsAccepts(r) PROVE printed' = printed
  BY <1>2 DEF Printing, PrintJob, FindNextCall, StartPrintJob, RefuseLocally,
              FindUnanswered, CupsRefuses, PrintJobUnanswered, PrintJobAnswered,
              PrintJobGarbled, ReconcileFinds, ReconcileMisses, ReconcileFails, Panic
<1>3. ASSUME NEW r \in Requests, Settle(r) PROVE printed' = printed
  BY <1>3 DEF Settle, CompleteKey, AbortKey, Notify, DropGuard
<1>4. ASSUME NEW r \in Requests, Environment(r), ~CupsAccepts(r), ~LateAccept(r)
      PROVE  printed' = printed
  BY <1>2, <1>4 DEF Environment, Arrive, WaitTimeout, Leave, Printing
<1>5. CleanupPrune \/ Tick \/ UNCHANGED vars => printed' = printed \/ Forget
  BY DEF CleanupPrune, Tick, vars
<1>6. QED
  BY <1>f, <1>1, <1>2, <1>3, <1>4, <1>5 DEF Next, TaskStep, Printing

\* NoPrintAfterSuccess: a key whose response is kept for replay causes no
\* further print until it is forgotten, unless CUPS itself accepts a Print-Job
\* its client has given up (late_accept); every other fault is allowed.
THEOREM NoPrintAfterSuccessCorrect ==
    RetentionCoversWindow /\ "late_accept" \notin Faults => (Spec => NoPrintAfterSuccess)
<1> SUFFICES ASSUME RetentionCoversWindow, "late_accept" \notin Faults
             PROVE  Spec => NoPrintAfterSuccess
  OBVIOUS
<1>1. Init => Held /\ NoLate
  BY InitHeld DEF Init, NoLate
<1>2. Held /\ NoLate /\ [Next]_vars => (Held /\ NoLate)'
  BY NextHeld, NextOnTime
<1>3. Held /\ NoLate /\ [Next]_vars =>
        [\A k \in Keys :
            entries[k].state = "completed" => printed'[k] \subseteq printed[k]]_vars
  <2> SUFFICES ASSUME Held, NoLate, [Next]_vars, NEW k \in Keys,
                      entries[k].state = "completed"
               PROVE  printed'[k] \subseteq printed[k]
    OBVIOUS
  <2>1. ASSUME NEW r \in Requests, CupsAccepts(r) PROVE printed'[k] = printed[k]
    <3>1. Keyed(r) => OwnedBy(Key(r), r)
      BY <2>1, LiveHeld DEF CupsAccepts, Live, Unsettled, InCall
    <3>2. Keyed(r) => Key(r) # k
      BY <3>1 DEF OwnedBy
    <3>3. printed \in [Keys -> SUBSET Requests]
      BY DEF Held, Shape, TypeOK, CupsTypeOK
    <3>4. QED
      BY <2>1, <3>2, <3>3 DEF CupsAccepts, AddJob
  <2>2. ~ \E r \in Requests : LateAccept(r)
    BY DEF NoLate, LateAccept
  <2>3. QED
    BY <2>1, <2>2, PrintedOnlyShrinks DEF Held
<1>4. QED
  BY <1>1, <1>2, <1>3, PTL DEF Spec, NoPrintAfterSuccess

-----------------------------------------------------------------------------
(* The submission path implements PrintOnce.                               *)

\* A task that has printed and is not settled stands for its key.
LivePrinted(r) == r \in jobs /\ Live(r) => r \in printed[Key(r)]
Standing == \A r \in Requests : LivePrinted(r)

LEMMA NextLivePrinted ==
    ASSUME Sound, RetentionCoversWindow, Standing, [Next]_vars, NEW s \in Requests
    PROVE  LivePrinted(s)'
<1>s. /\ Shape /\ ControlOK /\ HandlerTypeOK /\ task \in [Requests -> Task]
      /\ printed \in [Keys -> SUBSET Requests] /\ LivePrinted(s)
  BY DEF Sound, Held, Shape, TypeOK, CupsTypeOK, Standing
<1>f. ASSUME req'[s] = req[s], Live(s)' => Live(s), s \in jobs' => s \in jobs,
             printed' = printed \/ Forget
      PROVE  LivePrinted(s)'
  <2>1. Live(s) => entries[Key(s)].state # "completed"
    BY LiveHeld DEF Sound, OwnedBy
  <2>2. QED
    BY <1>s, <1>f, <2>1 DEF LivePrinted, Live, Forget
<1>1. CASE CleanupPrune \/ Tick \/ UNCHANGED vars
  BY <1>s, <1>1, <1>f DEF CleanupPrune, Tick, vars, Live, Task
<1>2. ASSUME NEW r \in Requests, NEW d \in Demands, Arrive(r, d) PROVE LivePrinted(s)'
  <2>1. CASE s = r
    BY <1>s, <1>2, <2>1 DEF Arrive, ControlOK, Sound, JobTrue, LivePrinted
  <2>2. CASE s # r
    BY <1>s, <1>2, <1>f, <2>2 DEF Arrive, HandlerTypeOK, Live
  <2>3. QED
    BY <2>1, <2>2
<1>3. ASSUME NEW r \in Requests, DecideFresh(r) PROVE LivePrinted(s)'
  <2>1. CASE s = r
    BY <1>s, <1>3, <2>1 DEF DecideFresh, ControlOK, Sound, JobTrue, LivePrinted
  <2>2. CASE s # r
    BY <1>s, <1>3, <1>f, <2>2 DEF DecideFresh, Live
  <2>3. QED
    BY <2>1, <2>2
<1>4. ASSUME NEW r \in Requests,
             \/ DecideJoin(r) \/ DecideReplay(r) \/ DecideConflict(r)
             \/ Wake(r) \/ TaskEnded(r) \/ WaitTimeout(r) \/ Leave(r)
      PROVE  LivePrinted(s)'
  BY <1>4, <1>f DEF DecideJoin, DecideReplay, DecideConflict, Wake, TaskEnded,
                    WaitTimeout, Leave, Live
<1>5. ASSUME NEW r \in Requests, Printing(r), ~CupsAccepts(r) PROVE LivePrinted(s)'
  <2>1. /\ UNCHANGED <<req, jobs>> /\ (s # r => task'[s] = task[s])
        /\ task[r].phase \in Unsettled
    BY <1>s, <1>5, PrintingPhases, PrintingJobTrue DEF Unsettled, InCall, Settling
  <2>2. printed' = printed
    BY <1>5
    DEF Printing, PrintJob, FindNextCall, StartPrintJob, RefuseLocally, FindUnanswered,
        CupsRefuses, PrintJobUnanswered, PrintJobAnswered, PrintJobGarbled,
        ReconcileFinds, ReconcileMisses, ReconcileFails, Panic
  <2>3. QED
    BY <1>f, <2>1, <2>2 DEF Live
<1>6. ASSUME NEW r \in Requests, CupsAccepts(r) \/ LateAccept(r) PROVE LivePrinted(s)'
  <2>1. /\ AddJob(r) /\ req' = req /\ (s # r => task'[s] = task[s])
    BY <1>s, <1>6 DEF CupsAccepts, LateAccept
  <2>2. CASE s = r
    BY <1>s, <2>1, <2>2 DEF AddJob, LivePrinted, Live
  <2>3. CASE s # r
    <3>1. Live(s)' /\ s \in jobs' => s \in printed[Key(s)]
      BY <1>s, <2>1, <2>3 DEF AddJob, LivePrinted, Live
    <3>2. Live(s)' => Key(s) \in Keys
      BY <2>1 DEF Live
    <3>3. QED
      BY <1>s, <2>1, <3>1, <3>2 DEF AddJob, LivePrinted, Live
  <2>4. QED
    BY <2>2, <2>3
<1>7. ASSUME NEW r \in Requests, Settle(r) PROVE LivePrinted(s)'
  <2>1. UNCHANGED <<handlerVars, cupsVars>>
    BY <1>7, SettleJobTrue
  <2>2. task'[s] = task[s] \/ task'[s].phase \notin Unsettled
    BY <1>s, <1>7 DEF Settle, CompleteKey, AbortKey, Notify, DropGuard, Goto, At, Task,
                      Unsettled, InCall, Settling
  <2>3. QED
    BY <1>f, <2>1, <2>2 DEF Live
<1>8. QED
  BY <1>1, <1>2, <1>3, <1>4, <1>5, <1>6, <1>7
  DEF Next, Handler, Decide, TaskStep, Environment, Printing

\* The abstract state a state of PrintSubmission stands for.
Kept == CompletedKeys(entries)
Told == [r \in Requests |-> reply[r].job]
Over == {r \in Requests : http[r] = "closed"}

LEMMA OnceVars ==
    Once!vars = <<req, <<Attempting, Failed, jobs>>, <<printed, Kept>>, <<Told, Denied, Over>>>>
  BY DEF Once!vars, Once!tryVars, Once!keyVars, Once!answerVars, Kept, Told, Over

Stutters == UNCHANGED <<req, Attempting, Failed, jobs, printed, Kept, Told, Denied, Over>>

\* A task that gave up made no job, except without a key; an error is sent when the
\* task is done.
Outcome(r) ==
    /\ Began(r) => req[r] # Blank
    /\ task[r].phase = "abort" => r \notin jobs
    /\ Keyed(r) /\ task[r].phase \in Closing \cup {"done"} /\ task[r].job = None => r \notin jobs
    /\ reply[r].kind = "error" => task[r].phase = "done"

Outcomes == \A r \in Requests : Outcome(r)

LEMMA InitOutcomes == Init => Outcomes
  BY DEF Init, Outcomes, Outcome, Began, NoReply, NoTask, At, Closing

LEMMA PrintingOutcome ==
    ASSUME Sound, Outcomes, Faults = {}, NEW r \in Requests, Printing(r)
    PROVE  Outcome(r)'
<1>s. /\ Shape /\ task \in [Requests -> Task] /\ JobTrue(r) /\ Outcome(r)
  BY DEF Sound, Held, Shape, TypeOK, Outcomes
<1>g. ASSUME NEW phase, NEW job, Goto(r, phase, job)
      PROVE  task'[r].phase = phase /\ task'[r].job = job
  BY <1>s, <1>g DEF Goto, At
<1>c. ASSUME NEW phase, Call(r, phase)
      PROVE  task'[r].phase = phase /\ task'[r].job = None
  BY <1>s, <1>c DEF Call, At
<1>1. /\ UNCHANGED <<req, http, reply>>
      /\ task[r].phase \in InCall \cup {"complete"}
      /\ task'[r].phase \in InCall \cup Settling \cup {"drop", "done"}
      /\ Keyed(r) => task'[r].phase # "done"
  BY <1>s, PrintingPhases
<1>2. reply'[r].kind # "error"
  BY <1>s, <1>1 DEF Outcome, InCall
<1>3. task'[r].phase \in {"abort", "drop"} => task'[r].phase = "abort" /\ r \notin jobs'
  <2>1. CASE RefuseLocally(r) \/ FindUnanswered(r) \/ CupsRefuses(r) \/ ReconcileMisses(r)
    <3>1. r \notin jobs /\ jobs' = jobs
      BY <1>s, <2>1 DEF RefuseLocally, FindUnanswered, CupsRefuses, ReconcileMisses, JobTrue
    <3>2. task'[r].phase \in {"abort", "done", "reconcile"}
      BY <1>g, <1>c, <2>1
      DEF RefuseLocally, FindUnanswered, CupsRefuses, ReconcileMisses, GiveUp, Unanswered
    <3>. QED BY <3>1, <3>2
  <2>2. CASE PrintJobUnanswered(r)
    BY <1>g, <1>c, <2>2 DEF PrintJobUnanswered, Unanswered, GiveUp
  <2>3. CASE FindNextCall(r) \/ StartPrintJob(r) \/ PrintJobAnswered(r) \/ ReconcileFinds(r)
    BY <1>g, <1>c, <2>3 DEF FindNextCall, StartPrintJob, PrintJobAnswered, ReconcileFinds, Succeed
  <2>4. CASE CupsAccepts(r)
    BY <1>s, <2>4 DEF CupsAccepts, Task
  <2>5. ~PrintJobGarbled(r) /\ ~ReconcileFails(r) /\ ~Panic(r)
    BY DEF PrintJobGarbled, ReconcileFails, Panic
  <2>. QED BY <2>1, <2>2, <2>3, <2>4, <2>5 DEF Printing, PrintJob
<1>. QED BY <1>s, <1>1, <1>2, <1>3 DEF Outcome, Began, Closing, InCall, Settling

LEMMA SettleOutcome ==
    ASSUME Sound, Truth, Outcomes, NEW r \in Requests, Settle(r)
    PROVE  /\ Outcome(r)'
           /\ \A s \in Requests \ {r} : task'[s] = task[s]
<1>s. task \in [Requests -> Task] /\ Outcome(r)
  BY DEF Sound, Held, Shape, TypeOK, Outcomes
<1>1. UNCHANGED <<handlerVars, cupsVars>>
  BY SettleJobTrue
<1>2. /\ \/ task[r].phase = "complete" /\ task[r].job # None /\ task'[r].phase = "notify"
         \/ task[r].phase = "abort" /\ task'[r].phase = "notify"
         \/ task[r].phase \in Closing /\ task'[r].phase \in Closing \cup {"done"}
      /\ task'[r].job = task[r].job
      /\ \A s \in Requests \ {r} : task'[s] = task[s]
  BY <1>s DEF Settle, CompleteKey, AbortKey, Notify, DropGuard, Goto, At, Task, Closing,
              Truth, HandlerTrue
<1>. QED BY <1>s, <1>1, <1>2 DEF Outcome, Began, Closing

LEMMA NextOutcomes ==
    ASSUME Sound, Truth, Outcomes, NoLate, Faults = {}, [Next]_vars
    PROVE  Outcomes'
<1>. SUFFICES ASSUME NEW s \in Requests PROVE Outcome(s)'
  BY DEF Outcomes
<1>s. /\ Shape /\ ControlOK /\ HandlerTypeOK /\ task \in [Requests -> Task]
      /\ Outcome(s) /\ HandlerTrue(s) /\ JobTrue(s)
  BY DEF Sound, Held, Shape, TypeOK, Truth, Outcomes
<1>f. ASSUME task'[s].phase = task[s].phase, task'[s].job = task[s].job,
             UNCHANGED <<req, jobs>>, reply'[s].kind # "error" \/ reply'[s] = reply[s],
             http[s] # "idle" \/ http'[s] = http[s]
      PROVE  Outcome(s)'
  BY <1>s, <1>f DEF Outcome, Began
<1>1. CASE CleanupPrune \/ Tick \/ UNCHANGED vars
  BY <1>s, <1>1, <1>f DEF CleanupPrune, Tick, vars, Task
<1>2. ASSUME NEW r \in Requests, NEW d \in Demands, Arrive(r, d) PROVE Outcome(s)'
  <2>1. CASE s = r
    <3>1. d # Blank
      BY StoreAssumption, SubmissionAssumption DEF Blank
    <3>2. /\ req'[s] = d /\ reply'[s] = NoReply /\ task'[s].phase \in {"none", "find"}
      BY <1>s, <1>2, <2>1, NewTaskType DEF Arrive, ControlOK, HandlerTypeOK, HandlerTrue
    <3>. QED BY <3>1, <3>2 DEF Outcome, NoReply, Closing
  <2>2. CASE s # r
    BY <1>s, <1>2, <2>2 DEF Arrive, HandlerTypeOK, Outcome, Began
  <2>. QED BY <2>1, <2>2
<1>3. ASSUME NEW r \in Requests, DecideFresh(r) PROVE Outcome(s)'
  <2>1. CASE s = r
    BY <1>s, <1>3, <2>1, NewTaskType DEF DecideFresh, Outcome, Began, HandlerTrue, NoReply, Closing
  <2>2. CASE s # r
    BY <1>s, <1>3, <1>f, <2>2 DEF DecideFresh, HandlerTypeOK
  <2>. QED BY <2>1, <2>2
<1>4. ASSUME NEW r \in Requests,
             \/ DecideJoin(r) \/ DecideReplay(r) \/ DecideConflict(r)
             \/ Wake(r) \/ WaitTimeout(r) \/ Leave(r)
      PROVE  Outcome(s)'
  <2>1. UNCHANGED <<req, jobs, task>> /\ http[r] # "idle"
    BY <1>4 DEF DecideJoin, DecideReplay, DecideConflict, Wake, WaitTimeout, Leave, Waiting
  <2>2. /\ s # r => http'[s] = http[s]
        /\ reply'[s].kind # "error" \/ reply'[s] = reply[s]
    BY <1>s, <1>4 DEF DecideJoin, DecideReplay, DecideConflict, Wake, WaitTimeout, Leave, Answer,
                      Reply, HandlerTypeOK
  <2>. QED BY <1>f, <2>1, <2>2
<1>5. ASSUME NEW r \in Requests, TaskEnded(r) PROVE Outcome(s)'
  <2>1. UNCHANGED <<req, jobs, task>> /\ http[r] # "idle" /\ task[r].phase = "done"
        /\ (s # r => http'[s] = http[s] /\ reply'[s] = reply[s])
    BY <1>s, <1>5 DEF TaskEnded, Answer, HandlerTypeOK
  <2>. QED BY <1>s, <1>f, <2>1 DEF Outcome, Began
<1>6. ASSUME NEW r \in Requests, Printing(r) PROVE Outcome(s)'
  <2>1. CASE s = r
    BY <1>6, <2>1, PrintingOutcome
  <2>2. CASE s # r
    BY <1>s, <1>6, <2>2, PrintingPhases, PrintingJobTrue DEF Outcome, Began
  <2>. QED BY <2>1, <2>2
<1>7. ASSUME NEW r \in Requests, Settle(r) PROVE Outcome(s)'
  <2>1. CASE s = r
    BY <1>7, <2>1, SettleOutcome
  <2>2. CASE s # r
    BY <1>7, <1>f, <2>2, SettleOutcome, SettleJobTrue
  <2>. QED BY <2>1, <2>2
<1>8. ASSUME NEW r \in Requests, LateAccept(r) PROVE FALSE
  BY <1>8 DEF LateAccept, NoLate
<1>. QED BY <1>1, <1>2, <1>3, <1>4, <1>5, <1>6, <1>7, <1>8
         DEF Next, Handler, Decide, TaskStep, Environment, Printing

LEMMA KeptStays ==
    ASSUME \A k \in Keys : entries'[k].state = "completed" <=> entries[k].state = "completed"
    PROVE  Kept' = Kept
  BY DEF Kept, CompletedKeys

\* Tries change with the request whose task moves.
LEMMA TriesStay ==
    ASSUME jobs' = jobs, \A s \in Requests : task'[s].phase = task[s].phase
    PROVE  Attempting' = Attempting /\ Failed' = Failed
  BY DEF Attempting, Failed

LEMMA TriesMove ==
    ASSUME NEW r \in Requests,
           \A s \in Requests \ {r} : task'[s].phase = task[s].phase,
           \A s \in Requests \ {r} : s \in jobs' <=> s \in jobs
    PROVE  /\ r \notin jobs' /\ task'[r].phase \in InCall \cup {"abort"}
              => Attempting' = Attempting \cup {r} /\ Failed' = Failed \ {r}
           /\ r \notin jobs' /\ task'[r].phase \in Closing \cup {"done"}
              => Attempting' = Attempting \ {r} /\ Failed' = Failed \cup {r}
           /\ r \in jobs' \/ task'[r].phase = "none"
              => Attempting' = Attempting \ {r} /\ Failed' = Failed \ {r}
<1>1. \A s \in Requests \ {r} : /\ s \in Attempting' <=> s \in Attempting
                                /\ s \in Failed' <=> s \in Failed
  BY DEF Attempting, Failed
<1>2. /\ r \in Attempting' <=> r \notin jobs' /\ task'[r].phase \in InCall \cup {"abort"}
      /\ r \in Failed' <=> r \notin jobs' /\ task'[r].phase \in Closing \cup {"done"}
  BY DEF Attempting, Failed
<1>3. /\ Attempting \subseteq Requests /\ Attempting' \subseteq Requests
      /\ Failed \subseteq Requests /\ Failed' \subseteq Requests
  BY DEF Attempting, Failed
<1>4. CASE r \notin jobs' /\ task'[r].phase \in InCall \cup {"abort"}
  <2>1. r \in Attempting' /\ r \notin Failed'
    BY <1>2, <1>4 DEF InCall, Closing
  <2>. QED BY <1>1, <1>3, <1>4, <2>1 DEF InCall, Closing
<1>5. CASE r \notin jobs' /\ task'[r].phase \in Closing \cup {"done"}
  <2>1. r \notin Attempting' /\ r \in Failed'
    BY <1>2, <1>5 DEF InCall, Closing
  <2>. QED BY <1>1, <1>3, <1>5, <2>1 DEF InCall, Closing
<1>6. CASE r \in jobs' \/ task'[r].phase = "none"
  <2>1. r \notin Attempting' /\ r \notin Failed'
    BY <1>2, <1>6 DEF InCall, Closing
  <2>. QED BY <1>1, <1>3, <1>6, <2>1 DEF InCall, Closing
<1>. QED BY <1>4, <1>5, <1>6

LEMMA InitOnce == Init => Once!Init
<1>1. Init => Kept = {} /\ Told = [r \in Requests |-> None] /\ Over = {}
  BY DEF Init, StoreInit, Kept, CompletedKeys, Absent, Told, NoReply, Over
<1>2. Init => Attempting = {} /\ Failed = {} /\ Denied = {}
  BY DEF Init, NoTask, At, NoReply, Attempting, Failed, Denied, InCall, Closing
<1>. QED BY <1>1, <1>2 DEF Init, Once!Init, Kept, Told, Over

\* Answering one request ends its call; it is told of a job that was printed for
\* what it asked, or of none.
LEMMA AnswerEnds ==
    ASSUME Sound, Truth, Outcomes, NEW r \in Requests, HandlerTrue(r)', NEW a, Answer(r, a),
           http[r] \in Waiting, UNCHANGED <<req, jobs>>
    PROVE  /\ Once!Open(r) /\ Over' = Over \cup {r}
           /\ Denied' = IF a.kind = "error" /\ (Keyed(r) \/ r \notin jobs)
                        THEN Denied \cup {r} ELSE Denied
           /\ Told' = [Told EXCEPT ![r] = a.job]
           /\ IF a.kind \in Successful THEN a.job \in jobs /\ a.job \in Requests /\ req[a.job] = req[r]
              ELSE Told' = Told
<1>s. /\ HandlerTypeOK /\ reply[r] = NoReply /\ jobs \subseteq Requests /\ req[r] # Blank
      /\ http[r] # "closed"
  BY DEF Sound, Held, Shape, TypeOK, Truth, HandlerTrue, CupsTypeOK, Outcomes, Outcome, Began, Waiting
<1>1. /\ reply' = [reply EXCEPT ![r] = a] /\ http' = [http EXCEPT ![r] = "closed"]
      /\ reply'[r] = a
  BY <1>s DEF Answer, HandlerTypeOK
<1>2. Once!Open(r) /\ Over' = Over \cup {r}
  BY <1>s, <1>1 DEF Once!Open, Over, Blank, HandlerTypeOK
<1>3. Denied' = IF a.kind = "error" /\ (Keyed(r) \/ r \notin jobs)
                THEN Denied \cup {r} ELSE Denied
  <2>1. \A s \in Requests : reply'[s] = IF s = r THEN a ELSE reply[s]
    BY <1>s, <1>1 DEF HandlerTypeOK
  <2>2. r \notin Denied
    BY <1>s DEF Denied, NoReply
  <2>3. Denied' = {s \in Requests : reply'[s].kind = "error" /\ (Keyed(s) \/ s \notin jobs)}
    BY DEF Denied
  <2>. QED BY <2>1, <2>2, <2>3 DEF Denied
<1>4. Told' = [q \in Requests |-> IF q = r THEN a.job ELSE Told[q]]
  BY <1>s, <1>1 DEF Told, HandlerTypeOK
<1>5. Told[r] = None
  BY <1>s DEF Told, NoReply
<1>6. IF a.kind \in Successful THEN a.job \in jobs /\ a.job \in Requests /\ req[a.job] = req[r]
      ELSE Told' = Told
  <2>1. CASE a.kind \notin Successful
    <3>1. a.job = None
      BY <1>1, <2>1 DEF HandlerTrue
    <3>2. Told = [q \in Requests |-> Told[q]]
      BY DEF Told
    <3>. QED BY <1>4, <1>5, <2>1, <3>1, <3>2
  <2>2. CASE a.kind \in Successful
    <3>1. a.job \in jobs /\ req[a.job] = req[r]
      BY <1>1, <2>2 DEF HandlerTrue, Confirmed
    <3>. QED BY <1>s, <2>2, <3>1
  <2>. QED BY <2>1, <2>2
<1>. QED BY <1>2, <1>3, <1>4, <1>6 DEF Told

\* An answer other than an error is one of Decide's.
LEMMA AnswerTells ==
    ASSUME Sound, Truth, Outcomes, NEW r \in Requests, HandlerTrue(r)', NEW a, Answer(r, a),
           http[r] \in Waiting, UNCHANGED <<req, jobs>>, a.kind # "error" \/ Denied' = Denied
    PROVE  /\ Once!Ends(r) \/ \E j \in Requests : Once!Tell(r, j)
           /\ a.kind \notin Successful => Once!Ends(r)
<1>1. /\ Once!Open(r) /\ Over' = Over \cup {r} /\ Denied' = Denied
      /\ Told' = [Told EXCEPT ![r] = a.job]
      /\ IF a.kind \in Successful THEN a.job \in jobs /\ a.job \in Requests /\ req[a.job] = req[r]
         ELSE Told' = Told
  BY AnswerEnds
<1>2. CASE a.kind \in Successful
  <2>1. Once!Tell(r, a.job)
    BY <1>1, <1>2 DEF Once!Tell, Told, Over
  <2>. QED BY <1>1, <1>2, <2>1
<1>3. CASE a.kind \notin Successful
  BY <1>1, <1>3 DEF Once!Ends, Told, Over
<1>. QED BY <1>2, <1>3

\* What leaves the store in a pruning or an eviction is what is forgotten.
LEMMA ForgetRetires ==
    ASSUME Forget,
           \A k \in Keys :
              \/ entries'[k] = Pruned[k]
              \/ Pruned[k].state = "completed" /\ entries'[k] = Absent
              \/ Pruned[k].state = "absent" /\ entries'[k].state = "in_progress"
    PROVE  \E S \in SUBSET Kept :
              /\ Once!Retire(S)
              /\ \A k \in Keys : entries[k].state = "completed" /\ Expired(k) => k \in S
<1> DEFINE S == {k \in Keys : /\ entries[k].state = "completed"
                              /\ Expired(k) \/ entries'[k].state = "absent"}
<1>1. S \in SUBSET Kept
  BY DEF Kept, CompletedKeys
<1>2. printed' = [k \in Keys |-> IF k \in S THEN {} ELSE printed[k]]
  BY DEF Forget
<1>3. ASSUME NEW k \in Keys
      PROVE  entries'[k].state = "completed" <=> entries[k].state = "completed" /\ k \notin S
  BY <1>3 DEF Pruned, Absent
<1>4. Kept' = Kept \ S
  BY <1>3 DEF Kept, CompletedKeys
<1>5. Once!Retire(S)
  BY <1>1, <1>2, <1>4 DEF Once!Retire, Kept
<1>6. QED
  BY <1>1, <1>5

LEMMA NothingRetires ==
    ASSUME Sound, printed' = printed, Kept' = Kept
    PROVE  \E S \in SUBSET Kept : Once!Retire(S)
<1>1. printed = [k \in Keys |-> IF k \in {} THEN {} ELSE printed[k]]
  BY DEF Sound, Held, Shape, TypeOK, CupsTypeOK
<1>2. Once!Retire({})
  BY <1>1 DEF Once!Retire, Kept
<1>3. QED
  BY <1>2

\* Keys retire, and nothing else happens or one call is answered.
LEMMA RetireAndAnswer ==
    ASSUME \E S \in SUBSET Kept : Once!Retire(S),
           UNCHANGED <<req, jobs, Failed, Attempting>>,
           \/ UNCHANGED <<Told, Denied, Over>>
           \/ \E r \in Requests : Once!Ends(r) \/ \E j \in Requests : Once!Tell(r, j)
    PROVE  Once!Service
<1>1. Once!Decide
  BY DEF Once!Decide, Once!answerVars, Kept, Told, Over
<1>. QED BY <1>1 DEF Once!Service

\* A print: the task is the only one of its key, and the key stands for nothing.
LEMMA AcceptMakes ==
    ASSUME Sound, Outcomes, PrintedVouched, NEW r \in Requests, CupsAccepts(r)
    PROVE  Once!MakeJob(r)
<1>s. task \in [Requests -> Task]
  BY DEF Sound, Held, Shape, TypeOK
<1>1. task[r].phase = "send" /\ r \notin jobs /\ printed \in [Keys -> SUBSET Requests]
  BY DEF CupsAccepts, Sound, JobTrue, Held, Shape, TypeOK, CupsTypeOK
<1>2. ASSUME Keyed(r) PROVE printed[Key(r)] = {}
  <2>1. Live(r)
    BY <1>1, <1>2 DEF Live, Unsettled, InCall
  <2>2. QED
    BY <1>1, <2>1, LiveSole DEF Sound
<1>3. /\ Kept' = Kept /\ UNCHANGED <<req, http, reply>> /\ Told' = Told /\ Over' = Over
      /\ jobs' = jobs \cup {r}
  BY DEF CupsAccepts, AddJob, Kept, Told, Over, CompletedKeys
<1>4. /\ task'[r].phase = "sent" /\ \A s \in Requests \ {r} : task'[s].phase = task[s].phase
  BY <1>s DEF CupsAccepts, Task
<1>5. r \in Attempting /\ Attempting' = Attempting \ {r} /\ Failed' = Failed
  <2>1. r \in Attempting /\ r \notin Failed
    BY <1>1 DEF Attempting, Failed, InCall, Closing
  <2>. QED BY <1>3, <1>4, <2>1, TriesMove DEF Closing
<1>6. Denied' = Denied
  <2>1. reply[r].kind # "error"
    BY <1>1 DEF Outcomes, Outcome
  <2>2. Denied' = {s \in Requests : reply[s].kind = "error" /\ (Keyed(s) \/ s \notin jobs')}
    BY <1>3 DEF Denied
  <2>. QED BY <1>3, <2>1, <2>2 DEF Denied
<1>7. IF Keyed(r) THEN printed' = [printed EXCEPT ![Key(r)] = {r}]
                  ELSE printed' = printed
  BY <1>1, <1>2 DEF CupsAccepts, AddJob
<1>8. QED
  BY <1>2, <1>3, <1>5, <1>6, <1>7 DEF Once!MakeJob, Once!answerVars, Kept, Told, Over

\* Completing a key keeps the outcome of the job it printed.
LEMMA CompleteKeeps ==
    ASSUME Sound, Truth, Standing, NEW r \in Requests, CompleteKey(r)
    PROVE  Key(r) \in Keys /\ Once!Keep(Key(r))
<1>s. StoreTypeOK /\ ControlOK /\ task \in [Requests -> Task]
  BY DEF Sound, Held, Shape, TypeOK
<1>1. task[r].phase = "complete" /\ Live(r) /\ Key(r) \in Keys
  BY <1>s DEF CompleteKey, ControlOK, Live, Unsettled, Settling
<1>2. r \in printed[Key(r)] /\ r \in jobs
  BY <1>1 DEF Truth, HandlerTrue, Sound, JobTrue, Confirmed, Standing, LivePrinted
<1>3. Key(r) \notin Kept
  BY <1>1, LiveHeld DEF Sound, OwnedBy, Kept, CompletedKeys
<1>4. Kept' = Kept \cup {Key(r)}
  BY <1>s, <1>1 DEF CompleteKey, Complete, Completed, Kept, CompletedKeys, StoreTypeOK
<1>5. /\ UNCHANGED <<req, http, jobs, printed, reply>>
      /\ Told' = Told /\ Denied' = Denied /\ Over' = Over
  BY DEF CompleteKey, Told, Denied, Over
<1>6. Attempting' = Attempting /\ Failed' = Failed
  <2>1. \A s \in Requests \ {r} : task'[s].phase = task[s].phase
    BY <1>s DEF CompleteKey
  <2>2. r \notin Attempting /\ r \notin Failed
    BY <1>2 DEF Attempting, Failed
  <2>3. Attempting' = Attempting \ {r} /\ Failed' = Failed \ {r}
    <3>1. jobs' = jobs /\ r \in jobs'
      BY <1>2, <1>5
    <3>. QED BY <2>1, <3>1, TriesMove
  <2>. QED BY <2>2, <2>3
<1>7. QED
  BY <1>1, <1>2, <1>3, <1>4, <1>5, <1>6
  DEF Once!Keep, Once!tryVars, Once!answerVars, Kept, Told, Over

\* A fresh attempt: nobody else tries its key, and the key stands for nothing, or
\* for a job whose retention has just ended.
LEMMA FreshTries ==
    ASSUME Sound, Outcomes, RetentionCoversWindow, PrintedVouched,
           NEW r \in Requests, DecideFresh(r), NEW S,
           \A k \in Keys : entries[k].state = "completed" /\ Expired(k) => k \in S
    PROVE  Once!Try(r, S) /\ Failed' = Failed
<1>s. /\ ControlOK /\ HandlerTypeOK /\ task \in [Requests -> Task] /\ Outcome(r) /\ JobTrue(r)
  BY DEF Sound, Held, Shape, TypeOK, Outcomes
<1>1. /\ http[r] = "begin" /\ Key(r) \in Keys /\ task[r].phase = "none"
      /\ BeginFresh(Key(r), Payload(r), r) /\ task' = [task EXCEPT ![r] = NewTask]
      /\ jobs' = jobs
  BY <1>s DEF DecideFresh, ControlOK
<1>2. Once!Open(r)
  BY <1>s, <1>1 DEF Once!Open, Outcome, Began, Blank
<1>3. r \notin jobs /\ r \notin Attempting /\ r \notin Failed
  BY <1>s, <1>1 DEF JobTrue, Attempting, Failed, InCall, Closing
<1>4. Pruned[Key(r)].state = "absent"
  BY <1>1 DEF BeginFresh
<1>5. ASSUME NEW s \in Requests, Key(s) = Key(r) PROVE ~Live(s)
  <2>1. Live(s) => Pruned[Key(s)] = entries[Key(s)] /\ OwnedBy(Key(s), s)
    BY LiveUnexpired, LiveHeld DEF Sound
  <2>. QED BY <1>4, <1>5, <2>1 DEF OwnedBy
<1>6. printed[Key(r)] = {} \/ Key(r) \in S
  <2>. SUFFICES ASSUME NEW s \in printed[Key(r)] PROVE Key(r) \in S
    OBVIOUS
  <2>1. s \in Requests /\ Key(s) = Key(r)
    BY <1>1 DEF PrintedVouched, Sound, Held, Shape, TypeOK, CupsTypeOK
  <2>2. ~(task[s].phase \in {"sent", "reconcile", "complete"})
    BY <1>1, <1>5, <2>1 DEF Live, Unsettled, InCall, Settling
  <2>3. entries[Key(r)].state = "completed"
    BY <1>1, <2>2 DEF PrintedVouched
  <2>4. Expired(Key(r))
    BY <1>1, <1>4, <2>3 DEF Pruned
  <2>. QED BY <1>1, <2>3, <2>4
<1>7. \A s \in Attempting : req[s].key # Key(r)
  BY <1>1, <1>5 DEF Attempting, Live, Unsettled, Settling
<1>8. Attempting' = Attempting \cup {r} /\ Failed' = Failed
  <2>1. /\ task'[r].phase = "find" /\ \A s \in Requests \ {r} : task'[s].phase = task[s].phase
    BY <1>s, <1>1, NewTaskType
  <2>2. r \notin jobs' /\ task'[r].phase \in InCall \cup {"abort"}
    BY <1>1, <1>3, <2>1 DEF InCall
  <2>3. Attempting' = Attempting \cup {r} /\ Failed' = Failed \ {r}
    BY <1>1, <2>1, <2>2, TriesMove
  <2>. QED BY <1>3, <2>3
<1>. QED BY <1>1, <1>2, <1>3, <1>6, <1>7, <1>8 DEF Once!Try

\* A decision of begin_or_wait.
LEMMA DecideOnce ==
    ASSUME Sound, Truth, Truth', Outcomes, RetentionCoversWindow, PrintedVouched,
           NEW r \in Requests, Decide(r)
    PROVE  Once!Service
<1>s. ControlOK /\ HandlerTypeOK /\ task \in [Requests -> Task]
  BY DEF Sound, Held, Shape, TypeOK
<1>1. Forget /\ UNCHANGED <<req, jobs>> /\ http[r] = "begin" /\ Key(r) \in Keys
  BY <1>s DEF Decide, DecideFresh, DecideJoin, DecideReplay, DecideConflict, ControlOK
<1>2. \E S \in SUBSET Kept :
         /\ Once!Retire(S)
         /\ \A k \in Keys : entries[k].state = "completed" /\ Expired(k) => k \in S
  <2>1. CASE DecideFresh(r)
    <3>1. Pruned[Key(r)].state = "absent" /\ BeginFresh(Key(r), Payload(r), r)
      BY <2>1 DEF DecideFresh, BeginFresh
    <3>2. InProgress(Payload(r), r).state = "in_progress"
      BY DEF InProgress
    <3>3. ASSUME NEW k \in Keys
          PROVE  \/ entries'[k] = Pruned[k]
                 \/ Pruned[k].state = "completed" /\ entries'[k] = Absent
                 \/ Pruned[k].state = "absent" /\ entries'[k].state = "in_progress"
      BY <1>1, <3>1, <3>2, FreshEntries
    <3>4. QED
      BY <1>1, <3>3, ForgetRetires
  <2>2. CASE DecideJoin(r) \/ DecideReplay(r) \/ DecideConflict(r)
    <3>1. entries' = Pruned
      BY <2>2 DEF DecideJoin, DecideReplay, DecideConflict, BeginJoin, BeginReplay,
                  BeginConflict, Prune
    <3>2. QED
      BY <1>1, <3>1, ForgetRetires
  <2>3. QED
    BY <2>1, <2>2 DEF Decide
<1>3. CASE DecideFresh(r)
  <2>1. PICK S \in SUBSET Kept :
           /\ Once!Retire(S)
           /\ \A k \in Keys : entries[k].state = "completed" /\ Expired(k) => k \in S
    BY <1>2
  <2>2. Once!Try(r, S) /\ Failed' = Failed
    BY <1>3, <2>1, FreshTries
  <2>3. Told' = Told /\ Denied' = Denied /\ Over' = Over
    BY <1>s, <1>1, <1>3 DEF DecideFresh, Told, Denied, Over, HandlerTypeOK
  <2>4. Once!Decide
    BY <1>1, <2>1, <2>2, <2>3 DEF Once!Decide, Once!answerVars, Kept, Told, Over
  <2>. QED BY <2>4 DEF Once!Service
<1>4. CASE DecideJoin(r) \/ DecideReplay(r) \/ DecideConflict(r)
  <2>1. task' = task
    BY <1>4 DEF DecideJoin, DecideReplay, DecideConflict
  <2>2. Attempting' = Attempting /\ Failed' = Failed
    BY <1>1, <2>1, TriesStay
  <2>3. CASE DecideJoin(r)
    <3>1. Told' = Told /\ Denied' = Denied /\ Over' = Over
      BY <1>s, <1>1, <2>3 DEF DecideJoin, Told, Denied, Over, HandlerTypeOK
    <3>. QED BY <1>1, <1>2, <2>2, <3>1, RetireAndAnswer
  <2>4. CASE DecideReplay(r) \/ DecideConflict(r)
    <3>1. PICK a : Answer(r, a) /\ a.kind # "error"
      BY <2>4 DEF DecideReplay, DecideConflict, Reply
    <3>2. HandlerTrue(r)'
      BY DEF Truth
    <3>3. Once!Ends(r) \/ \E j \in Requests : Once!Tell(r, j)
      BY <1>1, <3>1, <3>2, AnswerTells DEF Waiting
    <3>. QED BY <1>1, <1>2, <2>2, <3>3, RetireAndAnswer
  <2>. QED BY <1>4, <2>3, <2>4
<1>. QED BY <1>3, <1>4 DEF Decide

\* Every other step of a handler: what it answers, or a wake-up to decide again.
LEMMA HandlerOnce ==
    ASSUME Sound, Truth, Truth', Outcomes, NEW r \in Requests,
           Wake(r) \/ TaskEnded(r) \/ WaitTimeout(r)
    PROVE  Once!Service \/ Stutters
<1>s. HandlerTypeOK
  BY DEF Sound, Held, Shape, TypeOK
<1>1. /\ UNCHANGED <<req, jobs, printed, entries, task>> /\ http[r] \in Waiting
      /\ Kept' = Kept
  BY DEF Wake, TaskEnded, WaitTimeout, Waiting, Kept, CompletedKeys
<1>2. Attempting' = Attempting /\ Failed' = Failed
  BY <1>1, TriesStay
<1>3. CASE \E a : Answer(r, a) /\ (a.kind # "error" \/ Denied' = Denied)
  <2>1. PICK a : Answer(r, a) /\ (a.kind # "error" \/ Denied' = Denied)
    BY <1>3
  <2>2. HandlerTrue(r)'
    BY DEF Truth
  <2>3. Once!Ends(r) \/ \E j \in Requests : Once!Tell(r, j)
    BY <1>1, <2>1, <2>2, AnswerTells
  <2>. QED BY <1>1, <1>2, <2>3, NothingRetires, RetireAndAnswer
<1>4. CASE reply' = reply /\ http' = [http EXCEPT ![r] = "begin"] /\ http[r] = "waiting"
  BY <1>s, <1>1, <1>2, <1>4 DEF Stutters, Told, Denied, Over, HandlerTypeOK
<1>5. CASE TaskEnded(r) /\ task[r].job = None /\ Denied' # Denied
  <2>1. Answer(r, Reply("error")) /\ Reply("error").kind = "error" /\ task[r].phase = "done"
    BY <1>5 DEF TaskEnded, Reply
  <2>2. HandlerTrue(r)' /\ Outcome(r)
    BY DEF Truth, Outcomes
  <2>3. /\ Once!Open(r) /\ Over' = Over \cup {r} /\ Told' = Told
        /\ Denied' = Denied \cup {r} /\ (Keyed(r) \/ r \notin jobs)
    BY <1>1, <1>5, <2>1, <2>2, AnswerEnds DEF Successful
  <2>4. r \in Failed
    BY <1>5, <2>1, <2>2, <2>3 DEF Outcome, Failed
  <2>5. Once!Deny(r)
    BY <1>1, <1>2, <2>3, <2>4 DEF Once!Deny, Once!tryVars, Once!keyVars, Kept, Told, Over
  <2>. QED BY <2>5 DEF Once!Service
<1>6. TaskEnded(r) => \/ \E a : Answer(r, a) /\ (a.kind # "error" \/ Denied' = Denied)
                      \/ task[r].job = None /\ Denied' # Denied
  BY DEF TaskEnded
<1>7. WaitTimeout(r) => \E a : Answer(r, a) /\ a.kind # "error"
  BY DEF WaitTimeout, Reply
<1>8. Wake(r) => \/ \E a : Answer(r, a) /\ a.kind # "error"
                 \/ reply' = reply /\ http' = [http EXCEPT ![r] = "begin"] /\ http[r] = "waiting"
  BY DEF Wake, Reply
<1>. QED BY <1>3, <1>4, <1>5, <1>6, <1>7, <1>8

\* The client that leaves is told nothing.
LEMMA LeaveOnce ==
    ASSUME Sound, Truth, Truth', Outcomes, NEW r \in Requests, Leave(r)
    PROVE  Once!Leave(r)
<1>1. /\ UNCHANGED <<req, jobs, printed, entries, task>> /\ http[r] \in Waiting
      /\ Kept' = Kept /\ Answer(r, Reply("gone"))
      /\ Reply("gone").kind = "gone"
  BY DEF Leave, Kept, CompletedKeys, Reply
<1>2. Attempting' = Attempting /\ Failed' = Failed
  BY <1>1, TriesStay
<1>3. HandlerTrue(r)'
  BY DEF Truth
<1>4. Once!Ends(r)
  BY <1>1, <1>3, AnswerTells DEF Successful
<1>. QED BY <1>1, <1>2, <1>4 DEF Once!Leave, Once!tryVars, Once!keyVars, Kept

\* The rest of a task: a try that fails, or nothing that concerns a client.
LEMMA TaskOnce ==
    ASSUME Sound, Truth, Outcomes, Faults = {}, NEW r \in Requests,
           TaskStep(r) \/ Panic(r), ~CompleteKey(r)
    PROVE  Stutters \/ Once!Refuse(r)
<1>s. Shape /\ StoreTypeOK /\ ControlOK /\ task \in [Requests -> Task] /\ Outcome(r) /\ JobTrue(r)
  BY DEF Sound, Held, Shape, TypeOK, Outcomes
<1>m. ASSUME UNCHANGED <<req, http, reply, jobs, printed>>, Kept' = Kept,
             \A s \in Requests \ {r} : task'[s] = task[s],
             \/ task[r].phase \in InCall \cup {"abort"}
                   /\ task'[r].phase \in InCall \cup {"abort"} \cup Closing \cup {"done"}
             \/ r \in jobs
             \/ /\ task[r].phase \in Closing \cup {"done"}
                /\ task'[r].phase \in Closing \cup {"done"}
      PROVE  Stutters \/ Once!Refuse(r)
  <2>1. Told' = Told /\ Denied' = Denied /\ Over' = Over
    BY <1>m DEF Told, Denied, Over
  <2>2. /\ r \in Attempting <=> r \notin jobs /\ task[r].phase \in InCall \cup {"abort"}
        /\ r \in Failed <=> r \notin jobs /\ task[r].phase \in Closing \cup {"done"}
    BY DEF Attempting, Failed
  <2>3. \/ Attempting' = Attempting /\ Failed' = Failed
        \/ r \in Attempting /\ Attempting' = Attempting \ {r} /\ Failed' = Failed \cup {r}
    <3>1. CASE task'[r].phase \in InCall \cup {"abort"} /\ r \notin jobs
      <4>1. Attempting' = Attempting \cup {r} /\ Failed' = Failed \ {r}
        BY <1>m, <3>1, TriesMove
      <4>2. r \in Attempting /\ r \notin Failed
        BY <1>m, <2>2, <3>1 DEF InCall, Closing
      <4>. QED BY <4>1, <4>2
    <3>2. CASE task'[r].phase \in Closing \cup {"done"} /\ r \notin jobs
      <4>1. Attempting' = Attempting \ {r} /\ Failed' = Failed \cup {r}
        BY <1>m, <3>2, TriesMove
      <4>2. r \in Attempting \/ (r \notin Attempting /\ r \in Failed)
        <5>1. \/ task[r].phase \in InCall \cup {"abort"}
              \/ task[r].phase \in Closing \cup {"done"}
          BY <1>m, <3>2
        <5>2. task[r].phase \in Closing \cup {"done"} => task[r].phase \notin InCall \cup {"abort"}
          BY DEF InCall, Closing
        <5>3. task[r].phase \in InCall \cup {"abort"} => r \in Attempting
          BY <2>2, <3>2
        <5>4. task[r].phase \in Closing \cup {"done"} => r \in Failed
          BY <2>2, <3>2
        <5>5. task[r].phase \in Closing \cup {"done"} => r \notin Attempting
          BY <2>2, <5>2
        <5>. QED BY <5>1, <5>3, <5>4, <5>5
      <4>. QED BY <4>1, <4>2
    <3>3. CASE r \in jobs
      <4>1. Attempting' = Attempting \ {r} /\ Failed' = Failed \ {r}
        BY <1>m, <3>3, TriesMove
      <4>. QED BY <2>2, <3>3, <4>1
    <3>. QED BY <1>m, <3>1, <3>2, <3>3
  <2>. QED BY <1>m, <2>1, <2>3
           DEF Stutters, Once!Refuse, Once!keyVars, Once!answerVars, Kept, Told, Over
<1>1. CASE PrintJob(r)
  <2>1. /\ UNCHANGED <<storeVars, handlerVars>>
        /\ \A s \in Requests \ {r} : task'[s] = task[s]
    BY <1>s, <1>1, PrintingPhases DEF Printing
  <2>2. UNCHANGED <<jobs, printed>>
    BY <1>1
    DEF PrintJob, FindNextCall, StartPrintJob, RefuseLocally, FindUnanswered,
        CupsRefuses, PrintJobUnanswered, PrintJobAnswered, PrintJobGarbled,
        ReconcileFinds, ReconcileMisses, ReconcileFails
  <2>3. /\ task[r].phase \in InCall
        /\ task'[r].phase \in InCall \cup {"abort"} \cup Closing \cup {"done"} \/ r \in jobs
    <3>1. task[r].phase \in InCall
      BY <1>1 DEF PrintJob, FindNextCall, StartPrintJob, RefuseLocally, FindUnanswered,
        CupsRefuses, PrintJobUnanswered, PrintJobAnswered, PrintJobGarbled,
        ReconcileFinds, ReconcileMisses, ReconcileFails, InCall
    <3>2. CASE PrintJobAnswered(r) \/ ReconcileFinds(r)
      BY <1>s, <3>1, <3>2 DEF PrintJobAnswered, ReconcileFinds, JobTrue
    <3>3. CASE ~(PrintJobAnswered(r) \/ ReconcileFinds(r))
      <4>1. \E phase \in {"find", "send", "reconcile", "abort", "done"} :
               Call(r, phase) \/ Goto(r, phase, None)
        BY <1>1, <3>3 DEF PrintJob, FindNextCall, StartPrintJob, RefuseLocally, FindUnanswered,
          CupsRefuses, PrintJobUnanswered, PrintJobGarbled, ReconcileMisses, ReconcileFails,
          GiveUp, Unanswered
      <4>. QED BY <1>s, <3>1, <4>1 DEF Call, Goto, At, InCall
    <3>. QED BY <3>2, <3>3
  <2>4. Kept' = Kept
    BY <2>1 DEF Kept, CompletedKeys
  <2>. QED BY <1>m, <2>1, <2>2, <2>3, <2>4
<1>2. CASE Settle(r)
  <2>1. UNCHANGED <<handlerVars, cupsVars>> /\ \A s \in Requests \ {r} : task'[s] = task[s]
    BY <1>2, SettleJobTrue, SettleOutcome
  <2>2. \A k \in Keys : entries'[k].state = "completed" <=> entries[k].state = "completed"
    BY <1>s, <1>2
    DEF Settle, AbortKey, Notify, DropGuard, Abort, OwnedBy, Absent, StoreTypeOK
  <2>3. \/ task[r].phase = "abort" /\ task'[r].phase = "notify"
        \/ task[r].phase \in Closing /\ task'[r].phase \in Closing \cup {"done"}
    BY <1>s, <1>2 DEF Settle, AbortKey, Notify, DropGuard, Goto, At, Task, Closing
  <2>. QED BY <1>m, <2>1, <2>2, <2>3, KeptStays DEF Closing
<1>3. ~Panic(r)
  BY DEF Panic
<1>. QED BY <1>1, <1>2, <1>3 DEF TaskStep

\* Only the arrival and the departure of a client are steps of PrintOnce's clients.
ServerStep == Once!Service \/ UNCHANGED Once!vars
ClientStep ==
    \E r \in Requests : \/ Leave(r) /\ Once!Leave(r)
                        \/ \E d \in Demands : Arrive(r, d) /\ Once!Ask(r, d)

LEMMA ArriveAsks ==
    ASSUME Sound, Truth, NEW r \in Requests, NEW d \in Demands, Arrive(r, d)
    PROVE  Once!Ask(r, d)
<1>s. HandlerTypeOK /\ ControlOK /\ task \in [Requests -> Task] /\ JobTrue(r)
  BY DEF Sound, Held, Shape, TypeOK
<1>1. /\ req[r] = Blank /\ http[r] = "idle" /\ task[r].phase = "none" /\ r \notin jobs
      /\ UNCHANGED <<entries, reply, jobs, printed>>
  BY <1>s DEF Arrive, Truth, HandlerTrue, Began, ControlOK, JobTrue
<1>2. Kept' = Kept /\ Told' = Told
  BY <1>1 DEF Kept, CompletedKeys, Told
<1>3. Over' = Over
  BY <1>s DEF Arrive, Over, HandlerTypeOK
<1>4. Denied' = Denied
  <2>1. reply[r].kind # "error"
    BY <1>1 DEF Truth, HandlerTrue, NoReply
  <2>2. \A s \in Requests \ {r} : req'[s] = req[s]
    BY <1>s DEF Arrive, HandlerTypeOK
  <2>3. Denied' = {s \in Requests : reply[s].kind = "error" /\ (req'[s].key \in Keys \/ s \notin jobs)}
    BY <1>1 DEF Denied
  <2>. QED BY <2>1, <2>2, <2>3 DEF Denied
<1>5. Attempting' = (IF d.key \in Keys THEN Attempting ELSE Attempting \cup {r}) /\ Failed' = Failed
  <2>0. r \notin Attempting /\ r \notin Failed
    BY <1>1 DEF Attempting, Failed, InCall, Closing
  <2>1. d.key \in Keys \/ d.key = NoKey
    BY SubmissionAssumption
  <2>2. CASE d.key = NoKey
    <3>1. /\ task'[r].phase = "find" /\ \A s \in Requests \ {r} : task'[s].phase = task[s].phase
      BY <1>s, <2>2, NewTaskType DEF Arrive
    <3>2. d.key \notin Keys
      BY <2>2, SubmissionAssumption
    <3>3. r \notin jobs' /\ task'[r].phase \in InCall \cup {"abort"}
      BY <1>1, <3>1 DEF InCall
    <3>4. Attempting' = Attempting \cup {r} /\ Failed' = Failed \ {r}
      BY <1>1, <3>1, <3>3, TriesMove
    <3>. QED BY <2>0, <3>2, <3>4
  <2>3. CASE d.key # NoKey
    <3>1. task' = task
      BY <2>3 DEF Arrive
    <3>. QED BY <1>1, <2>1, <2>3, <3>1, TriesStay
  <2>. QED BY <2>2, <2>3
<1>. QED BY <1>1, <1>2, <1>3, <1>4, <1>5
         DEF Arrive, Once!Ask, Once!keyVars, Once!answerVars, Blank, Kept, Told, Over

LEMMA NextOnce ==
    ASSUME Sound, Truth, Truth', Standing, Outcomes, PrintedVouched, NoLate,
           RetentionCoversWindow, Faults = {}, [Next]_vars
    PROVE  ServerStep \/ ClientStep
<1>s. Shape /\ StoreTypeOK /\ ControlOK /\ HandlerTypeOK /\ task \in [Requests -> Task]
  BY DEF Sound, Held, Shape, TypeOK
<1>v. Stutters => UNCHANGED Once!vars
  BY OnceVars DEF Stutters, Once!vars, Once!tryVars, Once!keyVars, Once!answerVars, Kept, Told, Over
<1>1. CASE UNCHANGED vars
  BY <1>1, <1>v DEF vars, Stutters, Attempting, Failed, Denied, Over, Kept, CompletedKeys, Told,
                    ServerStep
<1>2. CASE Tick
  <2>1. \A k \in Keys : entries'[k].state = "completed" <=> entries[k].state = "completed"
    BY <1>s, <1>2, OlderType DEF Tick, StoreTypeOK
  <2>2. \A s \in Requests : task'[s].phase = task[s].phase
    BY <1>s, <1>2 DEF Tick, Task
  <2>3. UNCHANGED <<req, http, reply, jobs, printed>>
    BY <1>2 DEF Tick
  <2>4. Stutters
    BY <2>1, <2>2, <2>3, KeptStays, TriesStay DEF Stutters, Told, Denied, Over
  <2>. QED BY <1>v, <2>4 DEF ServerStep
<1>3. CASE CleanupPrune
  <2>1. Forget /\ entries' = Pruned /\ UNCHANGED <<req, http, jobs, reply, task>>
    BY <1>3 DEF CleanupPrune, Prune
  <2>2. \E S \in SUBSET Kept : Once!Retire(S)
    BY <2>1, ForgetRetires
  <2>3. /\ Attempting' = Attempting /\ Failed' = Failed
        /\ Told' = Told /\ Denied' = Denied /\ Over' = Over
    BY <2>1, TriesStay DEF Told, Denied, Over
  <2>. QED BY <2>1, <2>2, <2>3, RetireAndAnswer DEF ServerStep
<1>4. ASSUME NEW r \in Requests, NEW d \in Demands, Arrive(r, d) PROVE ClientStep
  BY <1>4, ArriveAsks DEF ClientStep
<1>5. ASSUME NEW r \in Requests, Leave(r) PROVE ClientStep
  BY <1>5, LeaveOnce DEF ClientStep
<1>6. ASSUME NEW r \in Requests, Decide(r) PROVE ServerStep
  BY <1>6, DecideOnce DEF ServerStep
<1>7. ASSUME NEW r \in Requests, Wake(r) \/ TaskEnded(r) \/ WaitTimeout(r) PROVE ServerStep
  BY <1>7, <1>v, HandlerOnce DEF ServerStep
<1>8. ASSUME NEW r \in Requests, CupsAccepts(r) \/ CompleteKey(r) PROVE ServerStep
  BY <1>8, AcceptMakes, CompleteKeeps DEF ServerStep, Once!Service
<1>9. ASSUME NEW r \in Requests, TaskStep(r) \/ Panic(r), ~CompleteKey(r) PROVE ServerStep
  BY <1>9, <1>v, TaskOnce DEF ServerStep, Once!Service
<1>10. ASSUME NEW r \in Requests, LateAccept(r) PROVE FALSE
  BY <1>10 DEF LateAccept, NoLate
<1>. QED BY <1>1, <1>2, <1>3, <1>4, <1>5, <1>6, <1>7, <1>8, <1>9, <1>10
         DEF Next, Handler, TaskStep, Environment

\* Without faults, and with a retention period that covers a submission, each step
\* of the server (submit, begin_or_wait, run_submission, the store's cleanup, and
\* CUPS) is a step of PrintOnce's service, or none of its clients' business; only
\* the arrival and the departure of a client are steps of PrintOnce's clients.
THEOREM ServesAsPrintOnce ==
    RetentionCoversWindow /\ Faults = {} =>
        (Spec => Once!Init /\ [][ServerStep \/ ClientStep]_vars)
<1> SUFFICES ASSUME RetentionCoversWindow, Faults = {}
             PROVE  Spec => Once!Init /\ [][ServerStep \/ ClientStep]_vars
  OBVIOUS
<1> DEFINE Inv == Sound /\ Truth /\ Standing /\ Outcomes /\ PrintedVouched /\ NoLate
<1>1. Init => Inv
  <2>1. Init => Standing /\ PrintedVouched /\ NoLate
    BY DEF Init, Standing, LivePrinted, PrintedVouched, NoLate
  <2>2. QED
    BY <2>1, InitSound, InitTruth, InitOutcomes
<1>2. Inv /\ [Next]_vars => Inv'
  <2> SUFFICES ASSUME Inv, [Next]_vars PROVE Inv'
    OBVIOUS
  <2>1. Sound' /\ Truth'
    BY NextSound, NextTruth
  <2>2. PrintedVouched' /\ NoLate'
    BY NextVouched DEF Sound
  <2>3. Standing' /\ Outcomes'
    BY NextLivePrinted, NextOutcomes DEF Standing
  <2>4. QED
    BY <2>1, <2>2, <2>3
<1>3. Inv /\ Inv' /\ [Next]_vars => [ServerStep \/ ClientStep]_vars
  BY NextOnce
<1> HIDE DEF Inv
<1>4. QED
  BY <1>1, <1>2, <1>3, InitOnce, PTL DEF Spec

\* ImplementsPrintOnce: under the same hypotheses every behaviour of the submission
\* path is one of PrintOnce: a key prints once per retention, its outcome is kept
\* before it is forgotten, a client is told only of a job printed for what it
\* asked, and refused only what was not printed.
THEOREM ImplementsPrintOnceCorrect ==
    RetentionCoversWindow /\ Faults = {} => (Spec => ImplementsPrintOnce)
<1>1. ServerStep \/ ClientStep => [Once!Next]_(Once!vars)
  <2>1. ClientStep => Once!Client
    BY DEF ClientStep, Once!Client
  <2>. QED BY <2>1 DEF ServerStep, Once!Next
<1>2. UNCHANGED vars => UNCHANGED Once!vars
  BY OnceVars DEF vars, Once!vars, Once!tryVars, Once!keyVars, Once!answerVars, Attempting, Failed,
                  Denied, CompletedKeys
<1>. QED BY <1>1, <1>2, ServesAsPrintOnce, PTL DEF ImplementsPrintOnce, Once!Spec

=============================================================================
