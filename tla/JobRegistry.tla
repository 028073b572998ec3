---------------------------- MODULE JobRegistry ----------------------------
(***************************************************************************)
(* The job registry of src/jobs.rs, the endpoints of src/api/jobs.rs that  *)
(* list, read and cancel jobs, and the cache of job statuses the CUPS      *)
(* client keeps (src/cups/mod.rs), over a CUPS whose jobs go on meanwhile. *)
(*                                                                         *)
(* A job stands for its id <printer>-<number>.  A request that has to ask  *)
(* CUPS reads the registry before it and writes after it.                  *)
(*                                                                         *)
(* Time: a tick passes only while no IPP call of a read or a cancellation  *)
(* has reached its timeout; a list may take as long as it likes.  An       *)
(* expired status is removed by the tick that expires it: the code ignores *)
(* it from then on and drops it before the next insertion.                 *)
(***************************************************************************)
EXTENDS Integers, SequencesExt

CONSTANTS Jobs, Printers,
          Printer,      \* job -> its printer
          Readers,      \* GET /api/jobs/{id} requests
          Cancelers,    \* DELETE /api/jobs/{id} requests
          Listers,      \* GET /api/jobs requests
          Limit,        \* the "limit" of a list request
          Capacity,     \* JOB_REGISTRY_CAPACITY
          RecordTtl,    \* JOB_REGISTRY_TTL, in ticks
          CacheSize,    \* JOB_CACHE_CAPACITY
          StatusTtl,    \* JUST_PRINT_JOB_CACHE_SECS, in ticks
          IppTimeout,   \* JUST_PRINT_IPP_TIMEOUT_SECS, in ticks
          NoJob

ASSUME RegistryAssumption ==
    /\ Printer \in [Jobs -> Printers]
    /\ {Limit, Capacity, RecordTtl, CacheSize, StatusTtl, IppTimeout} \subseteq Nat \ {0}
    /\ NoJob \notin Jobs

VARIABLES cups,     \* job -> its state in CUPS
          steady,   \* job -> ticks since that state changed
          order,    \* Inner.order
          map,      \* Inner.map: job -> record
          cache,    \* job -> cached status
          call,     \* where each read or cancellation of one job is
          listing,  \* where each list request is
          history,  \* ghost: jobs in the order they were registered
          canceled  \* ghost: jobs whose cancellation reached the registry

vars == <<cups, steady, order, map, cache, call, listing, history, canceled>>

-----------------------------------------------------------------------------
\* The elements of s that are in kept, in their order (retain and filter).
Filtered(s, kept) ==
    LET upTo[n \in 0..Len(s)] ==
            IF n = 0 THEN <<>>
            ELSE IF s[n] \in kept THEN Append(upTo[n-1], s[n]) ELSE upTo[n-1]
    IN  upTo[Len(s)]

Callers == Readers \cup Cancelers

\* "gone": CUPS has purged the job from its history.
CupsState == {"none", "active", "completed", "canceled", "gone"}

\* What CUPS says of a job: get-job-attributes answers NotFound for the rest.
Visible == {"active", "completed", "canceled"}
Info(s) == IF s \in Visible THEN s ELSE "none"

NoRecord == [known |-> FALSE, canceled |-> FALSE, age |-> 0]
NewRecord == [known |-> TRUE, canceled |-> FALSE, age |-> 0]
Uncached == [status |-> "uncached", age |-> 0]

Idle == [phase |-> "idle", job |-> NoJob, record |-> NoRecord, seen |-> "none",
         elapsed |-> 0]
\* present, a ghost: the jobs the list could show when it began.
NoList == [phase |-> "idle", active |-> FALSE, records |-> <<>>,
           info |-> [p \in {} |-> {}], present |-> {}]

Record == [known : BOOLEAN, canceled : BOOLEAN, age : 0..RecordTtl]
Filters == Printers \cup {"all"}     \* printer_id of a list request

TypeOK ==
    /\ cups \in [Jobs -> CupsState]
    /\ steady \in [Jobs -> 0..StatusTtl + IppTimeout]
    /\ order \in SeqOf(Jobs, Capacity)
    /\ map \in [Jobs -> Record]
    /\ cache \in [Jobs -> [status : Visible \cup {"none", "uncached"},
                           age : 0..StatusTtl - 1]]
    /\ call \in [Callers -> [phase : {"idle", "hit", "asking", "answered"},
                             job : Jobs \cup {NoJob}, record : Record,
                             seen : Visible \cup {"none"}, elapsed : 0..IppTimeout]]
    /\ \A c \in Listers :
          /\ listing[c].phase \in {"idle", "asking"}
          /\ listing[c].records \in SeqOf(Jobs, Capacity)
          /\ listing[c].present \subseteq Jobs
    /\ history \in SeqOf(Jobs, Cardinality(Jobs))
    /\ canceled \subseteq Jobs

Init ==
    /\ cups = [j \in Jobs |-> "none"]
    /\ steady = [j \in Jobs |-> 0]
    /\ order = <<>>
    /\ map = [j \in Jobs |-> NoRecord]
    /\ cache = [j \in Jobs |-> Uncached]
    /\ call = [c \in Callers |-> Idle]
    /\ listing = [c \in Listers |-> NoList]
    /\ history = <<>>
    /\ canceled = {}

-----------------------------------------------------------------------------
(* CUPS: a job is created, ends or is cancelled by others, and is purged.  *)
cupsVars     == <<cups, steady>>
registryVars == <<order, map>>
ghosts       == <<history, canceled>>

CupsMoves(j, s) == /\ cups' = [cups EXCEPT ![j] = s]
                   /\ steady' = [steady EXCEPT ![j] = 0]

CupsCreates(j) == cups[j] = "none" /\ CupsMoves(j, "active")
CupsEnds(j) == cups[j] = "active" /\ \E s \in {"completed", "canceled"} : CupsMoves(j, s)
CupsPurges(j) == cups[j] \in {"completed", "canceled"} /\ CupsMoves(j, "gone")

Cups == /\ \E j \in Jobs : CupsCreates(j) \/ CupsEnds(j) \/ CupsPurges(j)
        /\ UNCHANGED <<registryVars, cache, call, listing, ghosts>>

-----------------------------------------------------------------------------
(* The registry.                                                           *)

Known == {j \in Jobs : map[j].known}

\* Mutant: a new job goes to the front, and so is the first to be pushed out.
InsertFirst(j, record) ==
    LET longer == IF map[j].known THEN order ELSE <<j>> \o order
        full == Cardinality(Known \cup {j}) > Capacity IN
    /\ order' = IF full THEN Tail(longer) ELSE longer
    /\ map' = [i \in Jobs |-> IF full /\ i = Head(longer) THEN NoRecord
                              ELSE IF i = j THEN record ELSE map[i]]

\* A record that is there keeps its place; a new one is the last and may push
\* out the first.
Insert(j, record) ==
    LET longer == IF map[j].known THEN order ELSE Append(order, j)
        full == Cardinality(Known \cup {j}) > Capacity IN
    /\ order' = IF full THEN Tail(longer) ELSE longer
    /\ map' = [i \in Jobs |-> IF full /\ i = Head(longer) THEN NoRecord
                              ELSE IF i = j THEN record ELSE map[i]]

\* submit_inner or reconcile has the job's id; a job comes from one attempt.
RegisterJob(j) ==
    /\ cups[j] # "none"
    /\ ~Contains(history, j)
    /\ Insert(j, NewRecord)
    /\ history' = Append(history, j)
    /\ UNCHANGED <<cupsVars, cache, call, listing, canceled>>

\* Mutant: the order is not told what the map has lost.
OrderUntouched(kept) == order

OrderOf(kept) == Filtered(order, kept)

PruneRegistry ==
    /\ LET kept == {j \in Known : map[j].age < RecordTtl} IN
       /\ kept # Known
       /\ map' = [j \in Jobs |-> IF j \in kept THEN map[j] ELSE NoRecord]
       /\ order' = OrderOf(kept)
    /\ UNCHANGED <<cupsVars, cache, call, listing, ghosts>>

\* Newest first, one printer or all, at most limit.
ListFiltered(printer, limit) ==
    LET wanted == Filtered(Reverse(order), {j \in Jobs : printer \in {"all", Printer[j]}}) IN
    SubSeq(wanted, 1, IF Len(wanted) < limit THEN Len(wanted) ELSE limit)

-----------------------------------------------------------------------------
(* GET and DELETE of one job.                                              *)

\* resolve reads the record, if there is one.  A bare number that one record
\* has stands for that record's id; any other fails and changes nothing.
Start(c, j, phase, seen) ==
    call' = [call EXCEPT ![c] = [phase |-> phase, job |-> j, record |-> map[j],
                                 seen |-> seen, elapsed |-> 0]]
Ends(c) == call' = [call EXCEPT ![c] = Idle]

\* job_status answers from the cache, or asks CUPS.
StartGet(c, j) ==
    /\ c \in Readers /\ call[c].phase = "idle"
    /\ IF cache[j] = Uncached THEN Start(c, j, "asking", "none")
       ELSE Start(c, j, "hit", cache[j].status)
    /\ UNCHANGED <<cupsVars, registryVars, cache, listing, ghosts>>

StartCancel(c, j) ==
    /\ c \in Cancelers /\ call[c].phase = "idle"
    /\ Start(c, j, "asking", "none")
    /\ UNCHANGED <<cupsVars, registryVars, cache, listing, ghosts>>

CupsAnswersGet(c) ==
    /\ c \in Readers /\ call[c].phase = "asking"
    /\ call' = [call EXCEPT ![c].phase = "answered", ![c].seen = Info(cups[call[c].job])]
    /\ UNCHANGED <<cupsVars, registryVars, cache, listing, ghosts>>

CupsCancels(c) ==
    /\ c \in Cancelers /\ call[c].phase = "asking"
    /\ cups[call[c].job] = "active"
    /\ CupsMoves(call[c].job, "canceled")
    /\ call' = [call EXCEPT ![c].phase = "answered", ![c].seen = "canceled"]
    /\ UNCHANGED <<registryVars, cache, listing, ghosts>>

\* Timed out, refused, not found, or the client left.
CallFails(c) ==
    /\ call[c].phase \in {"asking", "answered"}
    /\ Ends(c)
    /\ UNCHANGED <<cupsVars, registryVars, cache, listing, ghosts>>

Cached(m) == {j \in Jobs : m[j] # Uncached}

\* Room for one more: the oldest entries go while the cache is full.
Evicted(j) ==
    {gone \in SUBSET Cached(cache) :
        /\ Cardinality(Cached(cache) \ gone) <= CacheSize - 1
        /\ Cardinality(gone) <= 1
        /\ gone # {} => Cardinality(Cached(cache)) = CacheSize
        /\ \A i \in gone, k \in Cached(cache) \ gone : cache[i].age >= cache[k].age}

FinishGet(c) ==
    /\ c \in Readers
    /\ LET j == call[c].job IN
       \/ call[c].phase = "hit" /\ UNCHANGED cache
       \/ /\ call[c].phase = "answered"
          /\ \E gone \in Evicted(j) :
                cache' = [i \in Jobs |->
                             IF i = j THEN [status |-> call[c].seen, age |-> 0]
                             ELSE IF i \in gone THEN Uncached ELSE cache[i]]
    /\ Ends(c)
    /\ UNCHANGED <<cupsVars, registryVars, listing, ghosts>>

\* Mutant: the status is changed in the copy only.
KeepCopy(j, record) == UNCHANGED registryVars

KeepCanceled(j, record) ==
    IF record.known THEN Insert(j, [record EXCEPT !.canceled = TRUE])
    ELSE UNCHANGED registryVars

\* The cache forgets the job; the record read at the start comes back, with
\* the cancellation.
FinishCancel(c) ==
    /\ c \in Cancelers /\ call[c].phase = "answered"
    /\ cache' = [cache EXCEPT ![call[c].job] = Uncached]
    /\ KeepCanceled(call[c].job, call[c].record)
    /\ canceled' = canceled \cup (IF call[c].record.known THEN {call[c].job} ELSE {})
    /\ Ends(c)
    /\ UNCHANGED <<cupsVars, listing, history>>

-----------------------------------------------------------------------------
(* GET /api/jobs: the records first, then one get-jobs per printer.        *)

\* Mutant: the registry cuts the list before the statuses are known.
CutEarly(active) == Limit

\* Only a plain list is cut by the registry.
RegistryLimit(active) == IF active THEN Capacity ELSE Limit

StartList(c, active, printer) ==
    /\ listing[c].phase = "idle"
    /\ listing' = [listing EXCEPT
          ![c] = [phase |-> "asking", active |-> active,
                  records |-> ListFiltered(printer, RegistryLimit(active)),
                  info |-> [p \in {} |-> {}],
                  present |-> ToSet(ListFiltered(printer, Capacity))]]
    /\ UNCHANGED <<cupsVars, registryVars, cache, call, ghosts>>

ToAsk(c) == {Printer[j] : j \in ToSet(listing[c].records)} \ DOMAIN listing[c].info

\* A printer that is not there answers with no jobs, like one that has none.
ListPrinter(c) ==
    /\ listing[c].phase = "asking"
    /\ \E p \in ToAsk(c) :
          listing' = [listing EXCEPT
             ![c].info = [q \in DOMAIN @ \cup {p} |->
                 IF q = p THEN [j \in {i \in Jobs : Printer[i] = p} |-> Info(cups[j])]
                 ELSE @[q]]]
    /\ UNCHANGED <<cupsVars, registryVars, cache, call, ghosts>>

Status(c, j) == listing[c].info[Printer[j]][j]

Views(c) ==
    LET shown == IF listing[c].active
                 THEN Filtered(listing[c].records,
                               {j \in ToSet(listing[c].records) : Status(c, j) = "active"})
                 ELSE listing[c].records
    IN  SubSeq(shown, 1, IF Len(shown) < Limit THEN Len(shown) ELSE Limit)

FinishList(c) ==
    /\ listing[c].phase = "asking"
    /\ ToAsk(c) = {}
    /\ listing' = [listing EXCEPT ![c] = NoList]
    /\ UNCHANGED <<cupsVars, registryVars, cache, call, ghosts>>

ListFails(c) ==
    /\ listing[c].phase = "asking"
    /\ ToAsk(c) # {}
    /\ listing' = [listing EXCEPT ![c] = NoList]
    /\ UNCHANGED <<cupsVars, registryVars, cache, call, ghosts>>

-----------------------------------------------------------------------------
(* Time.                                                                   *)

\* Mutant: a status stays in the cache until it is replaced.
AgedForever(e) == e

Aged(e) == IF e = Uncached \/ e.age + 1 >= StatusTtl THEN Uncached
           ELSE [e EXCEPT !.age = @ + 1]

Later(n, bound) == IF n < bound THEN n + 1 ELSE n

\* A call ends with its timeout, and what it brought is used at once.
InTime(x) == x.phase # "hit" /\ (x.phase # "idle" => x.elapsed < IppTimeout)
Older(record) == IF record.known THEN [record EXCEPT !.age = Later(@, RecordTtl)] ELSE record
Waited(x) == IF x.phase = "idle" THEN x
             ELSE [x EXCEPT !.elapsed = @ + 1, !.record = Older(@)]

Tick ==
    /\ \A c \in Callers : InTime(call[c])
    /\ steady' = [j \in Jobs |-> Later(steady[j], StatusTtl + IppTimeout)]
    /\ map' = [j \in Jobs |-> Older(map[j])]
    /\ cache' = [j \in Jobs |-> Aged(cache[j])]
    /\ call' = [c \in Callers |-> Waited(call[c])]
    /\ UNCHANGED <<cups, order, listing, ghosts>>

Next ==
    \/ Cups
    \/ \E j \in Jobs : RegisterJob(j)
    \/ PruneRegistry
    \/ \E c \in Callers, j \in Jobs : StartGet(c, j) \/ StartCancel(c, j)
    \/ \E c \in Callers : \/ CupsAnswersGet(c) \/ CupsCancels(c) \/ CallFails(c)
                          \/ FinishGet(c) \/ FinishCancel(c)
    \/ \E c \in Listers : \/ \E a \in BOOLEAN, p \in Filters : StartList(c, a, p)
                          \/ ListPrinter(c) \/ FinishList(c) \/ ListFails(c)
    \/ Tick

Spec == Init /\ [][Next]_vars

-----------------------------------------------------------------------------
(* Properties.                                                             *)

\* The order and the map of the registry (src/jobs.rs) name the same jobs,
\* each once, and never more than the capacity, whatever prunes, evictions and
\* cancellations that bring a record back meet.
OrderMatchesMap ==
    /\ IsInjective(order)
    /\ ToSet(order) = Known
    /\ Len(order) <= Capacity

Place(j) == CHOOSE n \in DOMAIN history : history[n] = j

\* What list_filtered (src/jobs.rs) gives, newest first, is the reverse order
\* of registration, except for jobs whose cancellation was recorded: their
\* record may have gone while CUPS was asked, and it comes back as the newest.
NewestFirst ==
    \A n \in DOMAIN order : \A m \in 1..n-1 :
        order[n] \notin canceled => Place(order[m]) < Place(order[n])

\* A cancellation the service has answered with a record in hand is not
\* forgotten while the job has a record (cancel, src/api/jobs.rs): it is what a
\* later read shows once CUPS has purged the job.
CancelRemembered == \A j \in canceled : map[j].known => map[j].canceled

\* Whatever reads, cancellations and insertions by late answers do to the
\* cache of statuses (src/cups/mod.rs), a read is behind CUPS by less than the
\* time to live of a status and one IPP call.
StatusCatchesUp ==
    \A c \in Readers :
        call[c].phase \in {"hit", "answered"}
            /\ steady[call[c].job] >= StatusTtl + IppTimeout
        => call[c].seen = Info(cups[call[c].job])

\* A job that was listed in the registry when the request began and is still
\* in CUPS's queue at its end is in a list of active jobs, unless the list is
\* full: completed jobs, however new, do not push it out (list,
\* src/api/jobs.rs).
ActiveNotCrowdedOut ==
    [][\A c \in Listers :
          FinishList(c) /\ listing[c].active =>
              \A j \in listing[c].present :
                  cups[j] = "active" => \/ Contains(Views(c), j)
                                        \/ Len(Views(c)) = Limit]_vars
=============================================================================
