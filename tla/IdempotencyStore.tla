-------------------------- MODULE IdempotencyStore --------------------------
(***************************************************************************)
(* The in-memory Idempotency-Key store of src/idempotency.rs: one entry    *)
(* per key behind one mutex, and one watch channel per attempt that tells  *)
(* the requests waiting on it how the attempt ended.                       *)
(*                                                                         *)
(* This module holds the store's state and one operator per critical       *)
(* section; PrintSubmission interleaves them.  An attempt is named by its  *)
(* token (a fresh UUID in the code).  Fingerprints are abstracted to       *)
(* Payloads, a stored response to the token of the attempt whose CUPS job  *)
(* the response names.  Instead of an Instant an entry carries its age,    *)
(* which saturates at Ttl: the code only ever asks whether the age has     *)
(* reached the retention period and which completed entry is the oldest.   *)
(***************************************************************************)
EXTENDS Integers, FiniteSets

CONSTANTS Keys,      \* values of the Idempotency-Key header
          Payloads,  \* request fingerprints: file, printer and options
          Tokens,    \* attempts; begin_or_wait hands out one per Fresh
          None,      \* "no payload", "no token"
          Capacity,  \* IDEMPOTENCY_CAPACITY
          Ttl        \* JUST_PRINT_IDEMPOTENCY_TTL_SECS, in ticks

ASSUME StoreAssumption ==
    /\ None \notin Payloads
    /\ None \notin Tokens
    /\ Capacity \in Nat \ {0}
    /\ Ttl \in Nat \ {0}

VARIABLES entries,   \* key -> Entry, Absent where the map has none
          signals    \* token -> what the attempt's watch channel holds

storeVars == <<entries, signals>>

-----------------------------------------------------------------------------
Absent == [state |-> "absent", payload |-> None, token |-> None, age |-> 0]
InProgress(p, t) ==
    [state |-> "in_progress", payload |-> p, token |-> t, age |-> 0]
Completed(p, t) ==
    [state |-> "completed", payload |-> p, token |-> t, age |-> 0]

Entry == [state : {"absent", "in_progress", "completed"},
          payload : Payloads \cup {None},
          token : Tokens \cup {None},
          age : 0..Ttl]

\* "dropped": every Sender is gone although no outcome was ever sent.
Signal == [state : {"none", "pending", "completed", "aborted", "dropped"},
           job : Tokens \cup {None}]
NoSignal == [state |-> "none", job |-> None]
Pending  == [state |-> "pending", job |-> None]
Dropped  == [state |-> "dropped", job |-> None]
Aborted  == [state |-> "aborted", job |-> None]
Settled(j) == [state |-> "completed", job |-> j]

StoreTypeOK == /\ entries \in [Keys -> Entry]
               /\ signals \in [Tokens -> Signal]

StoreInit == /\ entries = [k \in Keys |-> Absent]
             /\ signals = [t \in Tokens |-> NoSignal]

-----------------------------------------------------------------------------
ExpiredEarly(k) == entries[k].age >= Ttl - 1  \* mutant: one tick too soon

(* prune_locked: every entry whose retention ran out goes, whatever its    *)
(* state.  The sender of an in-progress entry goes with it.                *)
Expired(k) == entries[k].age >= Ttl

Pruned == [k \in Keys |-> IF Expired(k) THEN Absent ELSE entries[k]]

PrunedSignals ==
    [t \in Tokens |->
        IF \E k \in Keys : /\ Expired(k)
                           /\ entries[k].state = "in_progress"
                           /\ entries[k].token = t
        THEN Dropped ELSE signals[t]]

Prune == /\ entries' = Pruned
         /\ signals' = PrunedSignals

AnyKeys(m) == {k \in Keys : m[k].state # "absent"}  \* mutant: evicts what is in flight

(* enforce_capacity: while the map holds Capacity entries or more, the     *)
(* oldest completed one goes; entries in progress never do.                *)
CompletedKeys(m) == {k \in Keys : m[k].state = "completed"}
Surplus(m) == Cardinality({k \in Keys : m[k].state # "absent"}) - Capacity + 1
Evictions(m) ==
    {gone \in SUBSET CompletedKeys(m) :
        /\ \A k \in gone, l \in CompletedKeys(m) \ gone : m[k].age >= m[l].age
        /\ \/ Cardinality(gone) = Surplus(m)
           \/ Surplus(m) <= 0 /\ gone = {}
           \/ Cardinality(gone) < Surplus(m) /\ gone = CompletedKeys(m)}

(* decide, one operator per Decision; each prunes first.                   *)
BeginFresh(k, p, t) ==
    /\ Pruned[k].state = "absent"
    /\ \E gone \in Evictions(Pruned) :
          entries' = [l \in Keys |-> IF l = k THEN InProgress(p, t)
                                     ELSE IF l \in gone THEN Absent
                                     ELSE Pruned[l]]
    /\ signals' = [PrunedSignals EXCEPT ![t] = Pending]

BeginJoin(k, p) ==
    /\ Pruned[k].state = "in_progress"
    /\ Pruned[k].payload = p
    /\ Prune

\* mutant: replays to any payload
BeginReplayAny(k, p) == Pruned[k].state = "completed" /\ Prune

BeginReplay(k, p) ==
    /\ Pruned[k].state = "completed"
    /\ Pruned[k].payload = p
    /\ Prune

BeginConflict(k, p) ==
    /\ Pruned[k].state # "absent"
    /\ Pruned[k].payload # p
    /\ Prune

-----------------------------------------------------------------------------
(* complete: stores the response under the key, whoever holds the key now, *)
(* and returns the sender of the entry in progress it replaced (None if    *)
(* there was none).  The caller sends after the lock is released.          *)
CompleteHandle(k) ==
    IF entries[k].state = "in_progress" THEN entries[k].token ELSE None

Complete(k, p, t) == entries' = [entries EXCEPT ![k] = Completed(p, t)]

OwnedByToken(k, t) == entries[k].token = t  \* mutant: takes completed entries too

(* abort: removes the entry only while it is in progress and t's own.      *)
OwnedBy(k, t) == entries[k].state = "in_progress" /\ entries[k].token = t

AbortHandle(k, t) == IF OwnedBy(k, t) THEN t ELSE None

\* mutant: takes the entry of another attempt
AbortAny(k, t) == entries' = IF entries[k].state = "in_progress"
                             THEN [entries EXCEPT ![k] = Absent] ELSE entries
Abort(k, t) ==
    entries' = IF OwnedBy(k, t) THEN [entries EXCEPT ![k] = Absent] ELSE entries

SendNothing(handle, outcome) == UNCHANGED signals  \* mutant: keeps the sender, sends nothing

(* signal.send, after the lock is released.                                *)
Send(handle, outcome) ==
    signals' = IF handle = None THEN signals
               ELSE [signals EXCEPT ![handle] = outcome]

(* A tick of the clock: entries grow older.                                *)
Older(e) == IF e.state = "absent" \/ e.age >= Ttl THEN e
            ELSE [e EXCEPT !.age = @ + 1]
=============================================================================
