-------------------------- MODULE PrinterCatalogue --------------------------
(***************************************************************************)
(* The printer snapshot of src/cups/mod.rs (list_printers, find_printer,   *)
(* invalidate_printers, fetch_printers) with its readers: GET              *)
(* /api/printers of src/api/printers.rs, with and without refresh=true,    *)
(* and the printer lookup of a print submission, which encodes the options *)
(* it was asked for with what the snapshot offers.                         *)
(*                                                                         *)
(* The printers themselves change while this goes on: Report[p][v] is what *)
(* printer p answers in version v of the world.  A snapshot remembers for  *)
(* every printer the version its state was read from and the version its   *)
(* options were read from.                                                 *)
(*                                                                         *)
(* Time: a tick passes only while no IPP call is at its timeout.           *)
(***************************************************************************)
EXTENDS PrintOptions

CONSTANTS Requests,
          Demands,       \* what a request may ask for
          PrinterCount,  \* the printers are 1..PrinterCount, in the order of CUPS
          LastVersion,   \* the world changes at most this often
          Report,        \* printer -> version -> what it reports
          Nothing,       \* no snapshot, no demand, no version
          Failed,        \* the options of a printer could not be read
          Concurrency,   \* OPTION_FETCH_CONCURRENCY
          IppTimeout,    \* JUST_PRINT_IPP_TIMEOUT_SECS, in ticks
          CacheTtl       \* JUST_PRINT_PRINTER_CACHE_SECS, in ticks

Printers == 1..PrinterCount
Versions == 0..LastVersion

ASSUME CatalogueAssumption ==
    /\ {PrinterCount, Concurrency, IppTimeout, CacheTtl} \subseteq Nat \ {0}
    /\ LastVersion \in Nat
    /\ Nothing \notin Versions \cup {Failed}
    /\ Failed \notin Versions
    /\ \A p \in Printers, v \in Versions :
          Report[p][v] = Nothing \/ {"state", "accepting", "options"} = DOMAIN Report[p][v]

VARIABLES world,    \* the version the printers are in
          gone,     \* version -> ticks since it was replaced
          cache,    \* the snapshot and its age, or Nothing
          lock,     \* who holds the refresh mutex
          fetch,    \* the fetch in flight, or Nothing
          ask,      \* what each request asks for
          at,       \* where each request is
          seen,     \* request -> the world's version and whether a fetch was in
                    \* flight when it began (for a refresh: when it invalidated)
          answer    \* what each request got

vars == <<world, gone, cache, lock, fetch, ask, at, seen, answer>>

-----------------------------------------------------------------------------
(* Ages saturate where nothing asks any more.  A fetch makes one call for  *)
(* the list and then, by rounds of Concurrency, one for each printer.      *)
Rounds  == (PrinterCount + Concurrency - 1) \div Concurrency
Longest == IppTimeout * Rounds
Horizon == CacheTtl + Longest

Snapshot == [Printers -> [state : Versions \cup {Nothing},
                          options : Versions \cup {Nothing, Failed}]]
Call     == [by : Requests, listed : Versions \cup {Nothing},
             loaded : [Printers -> Versions \cup {Nothing, Failed}],
             elapsed : [Printers -> 0..IppTimeout]]

TypeOK ==
    /\ world \in Versions
    /\ gone \in [Versions -> 0..Horizon]
    /\ cache # Nothing => cache.value \in Snapshot /\ cache.age \in 0..CacheTtl
    /\ lock \in Requests \cup {Nothing}
    /\ fetch # Nothing => fetch \in Call
    /\ at \in [Requests -> {"idle", "check", "queue", "recheck", "fetching", "done"}]

Init ==
    /\ world = 0
    /\ gone = [v \in Versions |-> 0]
    /\ cache = Nothing
    /\ lock = Nothing
    /\ fetch = Nothing
    /\ ask = [r \in Requests |-> Nothing]
    /\ at = [r \in Requests |-> "idle"]
    /\ seen = [r \in Requests |-> Nothing]
    /\ answer = [r \in Requests |-> Nothing]

-----------------------------------------------------------------------------
(* What CUPS says of a printer in version v, and what becomes of it.       *)
Exists(p, v) == Report[p][v] # Nothing

(* Attributes over these words, and ranges that are ranges.                *)
WellReported(words) ==
    \A p \in Printers, v \in Versions : Exists(p, v) =>
        \A o \in DOMAIN Report[p][v].options :
            LET supported == Report[p][v].options[o].supported IN
            /\ IsAttribute(supported, words)
            /\ \A s \in Tagged(supported.values, "range") : s.min <= s.max

(* A print names a printer, and a text for each option it sets.            *)
WellAsked ==
    \A d \in Demands : d.kind # "list" =>
        /\ d.printer \in Printers
        /\ d.wants = [o \in DOMAIN d.wants |-> d.wants[o]]
        /\ \A o \in DOMAIN d.wants : IsText(d.wants[o])

(* printer_from_group.                                                     *)
StateView(report) ==
    IF report.state = "stopped" THEN "stopped"
    ELSE IF ~report.accepting THEN "disabled"
    ELSE IF report.state = "processing" THEN "printing"
    ELSE "idle"

(* The options a snapshot offers for a printer: none if they failed.       *)
OffersOf(p, entry) ==
    IF entry.options \in Versions THEN Catalogue(Report[p][entry.options].options)
    ELSE Catalogue(<<>>)

(* submit_inner: the printer is known, takes jobs, and the options are its.*)
Printable(p, entry, wants) ==
    /\ entry.state # Nothing
    /\ Report[p][entry.state].accepting
    /\ StateView(Report[p][entry.state]) # "stopped"
    /\ Acceptable(OffersOf(p, entry), wants)

-----------------------------------------------------------------------------
Lister(r)  == ask[r].kind = "list"
Refresh(r) == Lister(r) /\ ask[r].refresh

Fresh == cache # Nothing /\ cache.age < CacheTtl

(* Answering: a list is the snapshot itself; a print looks its printer up  *)
(* in it, encodes its options and submits, or is refused.                  *)
Response(r, value) ==
    IF Lister(r) THEN [kind |-> "listed", value |-> value]
    ELSE IF Printable(ask[r].printer, value[ask[r].printer], ask[r].wants)
    THEN [kind |-> "submitted", value |-> value]
    ELSE [kind |-> "refused", value |-> value]

Reply(r, a) == /\ at' = [at EXCEPT ![r] = "done"]
               /\ answer' = [answer EXCEPT ![r] = a]

Moment == [version |-> world, quiet |-> fetch = Nothing]

Begin(r, d) ==
    /\ at[r] = "idle"
    /\ ask' = [ask EXCEPT ![r] = d]
    /\ at' = [at EXCEPT ![r] = "check"]
    /\ seen' = [seen EXCEPT ![r] = Moment]
    /\ cache' = IF d.kind = "list" /\ d.refresh THEN Nothing ELSE cache
    /\ UNCHANGED <<world, gone, lock, fetch, answer>>

CheckCache(r) ==
    /\ at[r] = "check"
    /\ IF Fresh THEN Reply(r, Response(r, cache.value))
       ELSE at' = [at EXCEPT ![r] = "queue"] /\ UNCHANGED answer
    /\ UNCHANGED <<world, gone, cache, lock, fetch, ask, seen>>

TakeLock(r) ==
    /\ at[r] = "queue"
    /\ lock = Nothing
    /\ lock' = r
    /\ at' = [at EXCEPT ![r] = "recheck"]
    /\ UNCHANGED <<world, gone, cache, fetch, ask, seen, answer>>

NewFetch(r) == [by |-> r, listed |-> Nothing,
                loaded |-> [p \in Printers |-> Nothing],
                elapsed |-> [p \in Printers |-> 0]]

(* Whoever waited looks again: the fetch it waited for may have stored.    *)
Recheck(r) ==
    /\ at[r] = "recheck"
    /\ IF Fresh
       THEN /\ Reply(r, Response(r, cache.value))
            /\ lock' = Nothing
            /\ UNCHANGED fetch
       ELSE /\ at' = [at EXCEPT ![r] = "fetching"]
            /\ fetch' = NewFetch(r)
            /\ UNCHANGED <<lock, answer>>
    /\ UNCHANGED <<world, gone, cache, ask, seen>>

-----------------------------------------------------------------------------
(* fetch_printers: the list, then the options of the printers listed, at   *)
(* most Concurrency ahead of the first one still missing.                  *)
Listed == {p \in Printers : Exists(p, fetch.listed)}
Position(p) == Cardinality({q \in Listed : q < p})
Yielded == Cardinality({p \in Listed :
              \A q \in Listed : q <= p => fetch.loaded[q] # Nothing})
Loading == {p \in Listed : /\ fetch.loaded[p] = Nothing
                           /\ Position(p) < Yielded + Concurrency}

ListAnswers ==
    /\ fetch # Nothing
    /\ fetch.listed = Nothing
    /\ fetch' = [fetch EXCEPT !.listed = world,
                              !.elapsed = [p \in Printers |-> 0]]
    /\ UNCHANGED <<world, gone, cache, lock, ask, at, seen, answer>>

(* cups-get-printers fails or times out: so does the call, nothing is kept.*)
ListFails ==
    /\ fetch # Nothing
    /\ fetch.listed = Nothing
    /\ Reply(fetch.by, [kind |-> "error", value |-> Nothing])
    /\ lock' = Nothing
    /\ fetch' = Nothing
    /\ UNCHANGED <<world, gone, cache, ask, seen>>

(* get-printer-attributes: a printer gone meanwhile has no options to read.*)
OptionsAnswer(p) ==
    /\ fetch # Nothing
    /\ fetch.listed # Nothing
    /\ p \in Loading
    /\ fetch' = [fetch EXCEPT !.loaded[p] = IF Exists(p, world) THEN world ELSE Failed]
    /\ UNCHANGED <<world, gone, cache, lock, ask, at, seen, answer>>

OptionsFail(p) ==
    /\ fetch # Nothing
    /\ fetch.listed # Nothing
    /\ p \in Loading
    /\ fetch' = [fetch EXCEPT !.loaded[p] = Failed]
    /\ UNCHANGED <<world, gone, cache, lock, ask, at, seen, answer>>

\* mutant: a printer's state is read again together with its options
FetchedPiecewise ==
    [p \in Printers |->
       IF p \in Listed
       THEN [state |-> IF fetch.loaded[p] \in Versions THEN fetch.loaded[p] ELSE fetch.listed,
             options |-> fetch.loaded[p]]
       ELSE [state |-> Nothing, options |-> Nothing]]

Fetched == [p \in Printers |->
              IF p \in Listed THEN [state |-> fetch.listed, options |-> fetch.loaded[p]]
              ELSE [state |-> Nothing, options |-> Nothing]]

(* The snapshot is stored, and its age counted, from the end of the fetch. *)
Store ==
    /\ fetch # Nothing
    /\ fetch.listed # Nothing
    /\ \A p \in Listed : fetch.loaded[p] # Nothing
    /\ cache' = [value |-> Fetched, age |-> 0]
    /\ Reply(fetch.by, Response(fetch.by, Fetched))
    /\ lock' = Nothing
    /\ fetch' = Nothing
    /\ UNCHANGED <<world, gone, ask, seen>>

\* mutant: the mutex stays locked when its holder is dropped
LeaveLocked(r) ==
    /\ at[r] \in {"check", "queue", "recheck", "fetching"}
    /\ Lister(r)
    /\ Reply(r, [kind |-> "gone", value |-> Nothing])
    /\ fetch' = IF at[r] = "fetching" THEN Nothing ELSE fetch
    /\ UNCHANGED <<world, gone, cache, lock, ask, seen>>

(* A client disconnects or the request times out: the handler's future is  *)
(* dropped, its lock and its fetch with it.  A print runs in its own task. *)
Leave(r) ==
    /\ at[r] \in {"check", "queue", "recheck", "fetching"}
    /\ Lister(r)
    /\ Reply(r, [kind |-> "gone", value |-> Nothing])
    /\ lock' = IF lock = r THEN Nothing ELSE lock
    /\ fetch' = IF at[r] = "fetching" THEN Nothing ELSE fetch
    /\ UNCHANGED <<world, gone, cache, ask, seen>>

-----------------------------------------------------------------------------
(* The printers change; time passes.                                       *)
Change ==
    /\ world < LastVersion
    /\ world' = world + 1
    /\ UNCHANGED <<gone, cache, lock, fetch, ask, at, seen, answer>>

Running == IF fetch = Nothing THEN {}
           ELSE IF fetch.listed = Nothing THEN Printers ELSE Loading

\* A step of a request that needs no answer from outside takes no time.
Busy == \E r \in Requests : \/ at[r] \in {"check", "recheck"}
                            \/ at[r] = "queue" /\ lock = Nothing

CallMayLast(p) == fetch.elapsed[p] < IppTimeout

Tick ==
    /\ ~Busy
    /\ fetch # Nothing => Running # {}
    /\ \A p \in Running : CallMayLast(p)
    /\ gone' = [v \in Versions |->
                  IF v < world /\ gone[v] < Horizon THEN gone[v] + 1 ELSE gone[v]]
    /\ cache' = IF cache = Nothing \/ cache.age = CacheTtl THEN cache
                ELSE [cache EXCEPT !.age = @ + 1]
    /\ fetch' = IF fetch = Nothing THEN fetch
                ELSE [fetch EXCEPT !.elapsed =
                         [p \in Printers |-> IF p \in Running THEN @[p] + 1 ELSE @[p]]]
    /\ UNCHANGED <<world, lock, ask, at, seen, answer>>

Reading(r) == CheckCache(r) \/ TakeLock(r) \/ Recheck(r)

Fetching == \/ ListAnswers \/ ListFails \/ Store
            \/ \E p \in Printers : OptionsAnswer(p) \/ OptionsFail(p)

Next ==
    \/ \E r \in Requests : \/ \E d \in Demands : Begin(r, d)
                           \/ Reading(r)
                           \/ Leave(r)
    \/ Fetching
    \/ Change
    \/ Tick

Spec == Init /\ [][Next]_vars

(* tokio polls every ready task; an IPP call ends, if only by its timeout. *)
FairSpec == Spec /\ WF_vars(Fetching) /\ \A r \in Requests : WF_vars(Reading(r))

-----------------------------------------------------------------------------
(* Properties.                                                             *)

\* What a request is answered with was true of the printers no longer ago than
\* the cache lives plus the time its options took to read.
AnswersAreRecent ==
    [][\A r \in Requests :
          answer[r] = Nothing /\ answer'[r] # Nothing /\ answer'[r].value # Nothing =>
              \A p \in Printers :
                  LET e == answer'[r].value[p] IN
                  \A v \in {e.state, e.options} \cap Versions :
                      gone[v] <= CacheTtl - 1 + Longest]_vars

\* A refresh that found no fetch in flight sees every change made before it.
RefreshSeesChange ==
    \A r \in Requests :
        /\ at[r] = "done" /\ Refresh(r) /\ seen[r].quiet
        /\ answer[r].kind = "listed"
        => \A p \in Printers : LET e == answer[r].value[p] IN
              \A v \in {e.state, e.options} \cap Versions : v >= seen[r].version

\* GET /api/printers?refresh=true asks CUPS anew, whatever else goes on:
\* docs/deployment.md and src/api/printers.rs.
RefreshAlwaysSeesChange ==
    \A r \in Requests :
        at[r] = "done" /\ Refresh(r) /\ answer[r].kind = "listed"
        => \A p \in Printers : LET e == answer[r].value[p] IN
              \A v \in {e.state, e.options} \cap Versions : v >= seen[r].version

\* Whatever a print submits, the printer reported that it supports it; a
\* snapshot whose options could not be read admits no option at all.
SubmitsWhatWasReported ==
    \A r \in Requests :
        answer[r] # Nothing /\ answer[r].kind = "submitted" =>
            LET p == ask[r].printer
                e == answer[r].value[p]
                wants == ask[r].wants
            IN  /\ e.options \notin Versions => wants = <<>>
                /\ \A sent \in Encodings(OffersOf(p, e), wants) :
                      \A o \in DOMAIN wants :
                         Supports(Report[p][e.options].options[o].supported, sent[o])

\* What a list offers prints: every value it shows for an option is accepted by
\* a print that uses the same snapshot.
OffersArePrintable ==
    [][\A r \in Requests :
          at[r] # "done" /\ at'[r] = "done" /\ answer'[r].kind = "listed" =>
              \A p \in Printers :
                  LET offers == OffersOf(p, answer'[r].value[p]) IN
                  \A o \in Options : \A text \in Offered(o, offers[o]) :
                      Acceptable(offers, [x \in {o} |-> text])]_vars

\* Every request is answered, also when the one that fetches for it is dropped.
EveryReaderEnds ==
    \A r \in Requests : at[r] = "check" ~> at[r] = "done"

-----------------------------------------------------------------------------
(* The snapshot implements RecentReads.                                    *)

\* Such a refresh found nothing on its way into the cache it emptied.
CutOff(r) == at[r] # "idle" /\ Refresh(r) /\ seen[r].quiet

Reads == INSTANCE RecentReads WITH
             Present <- [v \in Versions |-> {p \in Printers : Exists(p, v)}],
             Bound <- CacheTtl - 1 + Longest,
             marks <- {seen[r].version : r \in {q \in Requests : CutOff(q)}},
             given <- [r \in Requests |->
                         IF answer[r] = Nothing THEN {} ELSE {answer[r].value} \ {Nothing}]

\* Whoever reads the printers, through the cache or not, is given one list as CUPS
\* gave it, recent, from after every such refresh, and no older than what anybody
\* was given before (list_printers and find_printer of src/cups/mod.rs).
ImplementsRecentReads == Reads!Spec
=============================================================================
