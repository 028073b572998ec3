---------------------------- MODULE PrintClients ----------------------------
(***************************************************************************)
(* The clients of POST /api/print, over a service that keeps the promise   *)
(* of PrintOnce: the page (usePrintSubmission, submitWithRetry and         *)
(* resolveAttempt under frontend/src, with the session they run in) and    *)
(* the MCP tools of one device (src/mcp/tools.rs, src/mcp/backend.rs).     *)
(*                                                                         *)
(* A request of PrintOnce is one HTTP call; calls are numbered in the      *)
(* order they are sent.  Every step of PrintOnce's service may be taken at *)
(* any time, so a key may retire, and print again, in any state; what the  *)
(* clients add is what they ask, when they hang up, and what they read of  *)
(* an answer, which may be lost.  A call a client gives up is at the       *)
(* server by then or never arrives, and its handler ends with its          *)
(* connection: the service begins nothing for it afterwards, but goes on   *)
(* with the print it has begun.  A key of the page is named by the call it *)
(* was made for, a key of the tools by the content it is derived from.     *)
(*                                                                         *)
(* An intent (ghost) is what idempotency.ts calls one logical attempt: the *)
(* page's next submission belongs to the one before unless that succeeded, *)
(* asks for something else, belongs to another session, or a reprint was   *)
(* chosen; for the tools an intent is the content itself.                  *)
(***************************************************************************)
EXTENDS PrintOnce, ApiErrors, FiniteSets, Sequences

CONSTANTS MaxCalls,     \* calls of both clients, a bound of the model
          MaxSessions,  \* sign-ins of the page, a bound of the model
          MaxAgentCalls,\* calls of the agent, a bound of the model
          MaxRetries,   \* MAX_SUBMIT_RETRIES
          Payloads,     \* [file, printer]: what can be asked for
          Device,       \* the printer the tools are bound to
          Name          \* printer -> its name, a sequence of characters

AgentKey(p) == [call |-> 0, content |-> p]
PageKey(r)  == [call |-> r, content |-> None]

AgentIntent(p) == [number |-> 0, content |-> p]
PageIntent(n)  == [number |-> n, content |-> None]

ASSUME ClientsAssumption ==
    /\ MaxCalls \in Nat \ {0}
    /\ MaxSessions \in Nat \ {0}
    /\ {MaxAgentCalls, MaxRetries} \subseteq Nat
    /\ Requests = 1..MaxCalls
    /\ Keys = {PageKey(r) : r \in Requests} \cup {AgentKey(p) : p \in Payloads}

\* The queues of CUPS are told apart by their names.
ASSUME NamesAssumption ==
    /\ Name[Device] \in Seq(STRING)
    /\ \A p \in Payloads : /\ Name[p.printer] \in Seq(STRING)
                           /\ Name[p.printer] = Name[Device] => p.printer = Device

VARIABLES call,       \* request -> where it is between the client and the service
          crowded,    \* ghost: calls that overlapped another of their intent
          intent,     \* ghost: request -> the intent it serves
          sentIn,     \* ghost: request -> the session it was sent in
          signedIn,   \* state.token is not empty
          epoch,      \* sessionEpoch
          attempt,    \* state.print.attempt
          dialog,     \* state.print.confirmation: a payload, or None
          submitting, \* state.print.submitting
          work,       \* the submit() that is under way, or NoWork
          shown,      \* how the last submit() ended, as the page shows it
          list,       \* what submit() puts in state.jobs.views: the calls
          goal,       \* ghost: the page's intent, and whether it is open
          touched     \* ghost: jobs the tools have read or cancelled

sessionVars == <<signedIn, epoch>>
printVars   == <<attempt, dialog, submitting, shown, list, goal>>
clientVars  == <<call, crowded, intent, sentIn, sessionVars, printVars, work, touched>>
allVars     == <<vars, clientVars>>

NoWork  == [state |-> "none", payload |-> None, key |-> None, failures |-> 0,
            epoch |-> 0, call |-> 0]
NoEnd   == [kind |-> "none", intent |-> PageIntent(0), job |-> 0, retryable |-> FALSE]

Attempts == [key : Keys, payload : Payloads, settled : BOOLEAN]
Intents  == [number : 0..MaxCalls, content : Payloads \cup {None}]

Demand == [key : Keys, payload : Payloads]

ASSUME NoneAssumption ==
    /\ None \notin Payloads /\ None \notin Attempts /\ None \notin Requests
    /\ Nothing \notin Demand

ClientsTypeOK ==
    /\ call \in [Requests -> {"none", "open", "closed", "blamed"}]
    /\ crowded \subseteq Requests
    /\ intent \in [Requests -> Intents]
    /\ sentIn \in [Requests -> 0..2 * MaxSessions]
    /\ signedIn \in BOOLEAN /\ submitting \in BOOLEAN
    /\ epoch \in 0..2 * MaxSessions
    /\ attempt \in Attempts \cup {None}
    /\ dialog \in Payloads \cup {None}
    /\ work \in [state : {"none", "call", "backoff"}, payload : Payloads \cup {None},
                 key : Keys \cup {None}, failures : 0..MaxRetries,
                 epoch : 0..2 * MaxSessions, call : 0..MaxCalls]
    /\ shown \in [kind : {"none", "success", "error"}, intent : Intents,
                  job : 0..MaxCalls, retryable : BOOLEAN]
    /\ list \subseteq Requests
    /\ goal \in [number : 0..MaxCalls, payload : Payloads \cup {None}, open : BOOLEAN]
    /\ touched \subseteq made

ClientsInit ==
    /\ Init
    /\ call = [r \in Requests |-> "none"]
    /\ crowded = {}
    /\ intent = [r \in Requests |-> PageIntent(0)]
    /\ sentIn = [r \in Requests |-> 0]
    /\ signedIn = FALSE
    /\ epoch = 0
    /\ attempt = None
    /\ dialog = None
    /\ submitting = FALSE
    /\ work = NoWork
    /\ shown = NoEnd
    /\ list = {}
    /\ goal = [number |-> 0, payload |-> None, open |-> FALSE]
    /\ touched = {}

-----------------------------------------------------------------------------
(* A call, from the client's side.                                         *)
Sent == {r \in Requests : call[r] # "none"}
Left == MaxCalls - Cardinality(Sent)
Next1 == Cardinality(Sent) + 1

\* Statuses of CUPS, and the checks submit_inner makes before it asks CUPS.
Refusals == {FromCups[FromStatus(s)] :
                s \in GoneStatuses \cup InvalidStatuses \cup BusyStatuses \cup {"NotPossible"}}
            \cup {"PrinterNotFound", "PrinterUnavailable", "InvalidControls", "FileNotFound"}

Unsettled == {FromCups[FromExchange[x]] : x \in DOMAIN FromExchange \ {"not_ready"}}
             \cup {"IdempotencyConflict"}

\* A client that is done with a call hangs up, if the call is not over already.
HangsUp(r) == IF r \in over THEN UNCHANGED vars ELSE Leave(r)

\* A refusal is read only when it was sent; anything else a call may end with, or
\* no response at all, says nothing of the attempt.
Reads(r, e) == \/ e \in Refusals /\ r \in denied /\ UNCHANGED vars
               \/ e \in Unsettled \cup Transport /\ HangsUp(r)

ReadsJob(r, j) == r \in over /\ told[r] = j /\ UNCHANGED vars

Overlapping(i) == {s \in Sent : call[s] = "open" /\ intent[s] = i}

Send(r, key, payload, i) ==
    /\ Ask(r, [key |-> key, payload |-> payload])
    /\ call' = [call EXCEPT ![r] = "open"]
    /\ intent' = [intent EXCEPT ![r] = i]
    /\ sentIn' = [sentIn EXCEPT ![r] = epoch]
    /\ crowded' = IF Overlapping(i) = {} THEN crowded
                  ELSE crowded \cup Overlapping(i) \cup {r}

-----------------------------------------------------------------------------
(* The session.  A sign-out is the user's, or a 401 for any call of the    *)
(* page; the reducer starts over, the effect that aborts what is under way *)
(* runs after the next render, and before another token can be entered.    *)
Forgotten ==
    /\ signedIn' = FALSE
    /\ epoch' = epoch + 1
    /\ attempt' = None
    /\ dialog' = None
    /\ submitting' = FALSE
    /\ shown' = NoEnd
    /\ list' = {}
    /\ goal' = [goal EXCEPT !.open = FALSE]

SignIn ==
    /\ ~signedIn
    /\ work = NoWork
    /\ epoch + 2 <= 2 * MaxSessions
    /\ signedIn' = TRUE
    /\ epoch' = epoch + 1
    /\ UNCHANGED <<vars, call, crowded, intent, sentIn, printVars, work, touched>>

SignOut ==
    /\ signedIn
    /\ Forgotten
    /\ UNCHANGED <<vars, call, crowded, intent, sentIn, work, touched>>

AbortSubmission ==
    /\ ~signedIn
    /\ work # NoWork
    /\ work' = NoWork
    /\ IF work.state = "call"
       THEN /\ HangsUp(work.call)
            /\ call' = [call EXCEPT ![work.call] = "closed"]
       ELSE UNCHANGED <<vars, call>>
    /\ UNCHANGED <<crowded, intent, sentIn, sessionVars, printVars, touched>>

-----------------------------------------------------------------------------
(* Up to the submission: the dialog is modal, and busy while submitting.   *)
Confirm(p) ==
    /\ signedIn /\ dialog = None /\ ~submitting
    /\ dialog' = p
    /\ shown' = NoEnd
    /\ UNCHANGED <<vars, call, crowded, intent, sentIn, sessionVars, attempt,
                   submitting, work, list, goal, touched>>

Reprint(r) ==
    /\ signedIn /\ dialog = None /\ ~submitting
    /\ r \in list
    /\ dialog' = asks[r].payload
    /\ attempt' = None
    /\ shown' = NoEnd
    /\ goal' = [goal EXCEPT !.open = FALSE]
    /\ UNCHANGED <<vars, call, crowded, intent, sentIn, sessionVars, submitting,
                   work, list, touched>>

CancelConfirm ==
    /\ dialog # None /\ ~submitting
    /\ dialog' = None
    /\ UNCHANGED <<vars, call, crowded, intent, sentIn, sessionVars, attempt, shown,
                   submitting, work, list, goal, touched>>

FreshAttempt(p, r) == [key |-> PageKey(r), payload |-> p, settled |-> FALSE]

\* Mutants: a key for every submission; a settled key used again.
ResolveFresh(previous, p, r) == FreshAttempt(p, r)
ResolveSettled(previous, p, r) ==
    IF previous # None /\ previous.payload = p THEN previous ELSE FreshAttempt(p, r)

ResolveAttempt(previous, p, r) ==
    IF previous # None /\ ~previous.settled /\ previous.payload = p
    THEN previous ELSE FreshAttempt(p, r)

NextGoal(p) ==
    IF goal.open /\ goal.payload = p THEN goal
    ELSE [number |-> goal.number + 1, payload |-> p, open |-> TRUE]

Submit ==
    LET r == Next1
        a == ResolveAttempt(attempt, dialog, r)
        g == NextGoal(dialog) IN
    /\ signedIn /\ dialog # None /\ ~submitting
    /\ Left > MaxRetries
    /\ attempt' = a
    /\ submitting' = TRUE
    /\ shown' = NoEnd
    /\ goal' = g
    /\ Send(r, a.key, dialog, PageIntent(g.number))
    /\ work' = [state |-> "call", payload |-> dialog, key |-> a.key, failures |-> 0,
                epoch |-> epoch, call |-> r]
    /\ UNCHANGED <<sessionVars, dialog, list, touched>>

-----------------------------------------------------------------------------
(* submitWithRetry and what submit() makes of its end.  Nothing is written *)
(* back into another session than the one the submission began in.         *)
IsCurrentAlways == TRUE  \* mutant: no check of the session
IsCurrent == work.epoch = epoch

Settled ==
    IF attempt = None THEN None ELSE [attempt EXCEPT !.settled = TRUE]

WriteSuccess(r, j) ==
    /\ list' = list \cup {r}
    /\ attempt' = Settled
    /\ dialog' = None
    /\ submitting' = FALSE
    /\ shown' = [kind |-> "success", intent |-> intent[r], job |-> j, retryable |-> FALSE]
    /\ goal' = [goal EXCEPT !.open = FALSE]

PageTold(j) ==
    LET r == work.call IN
    /\ work.state = "call"
    /\ ReadsJob(r, j)
    /\ call' = [call EXCEPT ![r] = "closed"]
    /\ IF IsCurrent THEN WriteSuccess(r, j) ELSE UNCHANGED printVars
    /\ work' = NoWork
    /\ UNCHANGED <<crowded, intent, sentIn, sessionVars, touched>>

\* Mutant: the retries are not counted.
MayRetryForever(e) == SendsAgain(e)
MayRetry(e) == SendsAgain(e) /\ work.failures < MaxRetries

PageFails(e) ==
    LET r == work.call IN
    /\ work.state = "call"
    /\ Reads(r, e)
    /\ call' = [call EXCEPT ![r] = "closed"]
    /\ \/ /\ MayRetry(e)
          /\ work' = [work EXCEPT !.state = "backoff",
                                  !.failures = @ + 1]
          /\ UNCHANGED printVars
       \/ /\ ~MayRetry(e)
          /\ work' = NoWork
          /\ IF IsCurrent
             THEN /\ submitting' = FALSE
                  /\ shown' = [kind |-> "error", intent |-> intent[r], job |-> 0,
                               retryable |-> SendsAgain(e)]
                  /\ UNCHANGED <<attempt, dialog, list, goal>>
             ELSE UNCHANGED printVars
    /\ UNCHANGED <<crowded, intent, sentIn, sessionVars, touched>>

\* The token is no longer accepted: authGuard lets the call go no further.
PageUnauthorized ==
    /\ work.state = "call"
    /\ work.call \notin trying \cup refused \cup made
    /\ Leave(work.call)
    /\ call' = [call EXCEPT ![work.call] = "closed"]
    /\ work' = NoWork
    /\ IF IsCurrent THEN Forgotten ELSE UNCHANGED <<sessionVars, printVars>>
    /\ UNCHANGED <<crowded, intent, sentIn, touched>>

\* After sign-out the call would carry no token; AbortSubmission stands for it.
Resume ==
    LET r == Next1 IN
    /\ work.state = "backoff" /\ signedIn /\ Left > 0
    /\ Send(r, work.key, work.payload, intent[work.call])
    /\ work' = [work EXCEPT !.state = "call", !.call = r]
    /\ UNCHANGED <<sessionVars, printVars, touched>>

-----------------------------------------------------------------------------
(* The tools of one device.  An agent may call print_document as often as  *)
(* it likes, also while an earlier call is still open.                     *)
CallsOwed == CASE work.state = "none"    -> 0
               [] work.state = "call"    -> MaxRetries - work.failures
               [] work.state = "backoff" -> MaxRetries - work.failures + 1

AgentCalls == Cardinality({s \in Sent : intent[s].content # None}) + Cardinality(touched)

PrintDocument(p) ==
    LET r == Next1 IN
    /\ Left > 0 /\ Left > CallsOwed
    /\ AgentCalls < MaxAgentCalls
    /\ p.printer = Device
    /\ Send(r, AgentKey(p), p, AgentIntent(p))
    /\ UNCHANGED <<sessionVars, printVars, work, touched>>

OfAgent(r) == call[r] = "open" /\ intent[r].content # None

AgentTold(r, j) ==
    /\ OfAgent(r)
    /\ ReadsJob(r, j)
    /\ call' = [call EXCEPT ![r] = "closed"]
    /\ UNCHANGED <<crowded, intent, sentIn, sessionVars, printVars, work, touched>>

AgentFails(r, e) ==
    /\ OfAgent(r)
    /\ Reads(r, e)
    /\ call' = [call EXCEPT ![r] = IF e \in AppErrors /\ BlamesAgent(e)
                                   THEN "blamed" ELSE "closed"]
    /\ UNCHANGED <<crowded, intent, sentIn, sessionVars, printVars, work, touched>>

Digits == {"0", "1", "2", "3", "4", "5", "6", "7", "8", "9"}
JobNumber == <<"1", "2", "3", "4", "5", "6", "7", "8", "9">>
JobId(j) == Name[asks[j].payload.printer] \o <<"-", JobNumber[j]>>

Prefix == Name[Device] \o <<"-">>
Rest(id) == SubSeq(id, Len(Prefix) + 1, Len(id))
HasPrefix(id) == Len(id) > Len(Prefix) /\ SubSeq(id, 1, Len(Prefix)) = Prefix

EnsurePrefix(id) == HasPrefix(id)  \* mutant: the rest is not looked at

EnsureLocalJob(id) == HasPrefix(id) /\ \A n \in DOMAIN Rest(id) : Rest(id)[n] \in Digits

\* get_job and cancel_job, for any job id the agent has heard of.
JobTool(j) ==
    /\ j \in made \ touched
    /\ AgentCalls < MaxAgentCalls
    /\ EnsureLocalJob(JobId(j))
    /\ touched' = touched \cup {j}
    /\ UNCHANGED <<vars, call, crowded, intent, sentIn, sessionVars, printVars, work>>

-----------------------------------------------------------------------------
PageStep == \/ \E j \in Requests : PageTold(j)
            \/ \E e \in Refusals \cup Unsettled \cup Transport : PageFails(e)
            \/ Resume \/ AbortSubmission

ClientsNext ==
    \/ Service /\ UNCHANGED clientVars
    \/ \E r \in Requests : Reprint(r) \/ JobTool(r)
    \/ SignIn \/ SignOut \/ PageUnauthorized
    \/ \E p \in Payloads : Confirm(p) \/ PrintDocument(p)
    \/ CancelConfirm \/ Submit \/ PageStep
    \/ \E r \in Requests : \/ \E j \in Requests : AgentTold(r, j)
                           \/ \E e \in Refusals \cup Unsettled \cup Transport :
                                 AgentFails(r, e)

ClientsSpec == ClientsInit /\ [][ClientsNext]_allVars

(* The browser bounds every call by a timeout and every wait by a timer.   *)
ClientsFairSpec == ClientsSpec /\ WF_allVars(PageStep)

-----------------------------------------------------------------------------
(* Properties.                                                             *)

\* A job stands for its key until the key's retention is over.
Stands(r) == r \in current[asks[r].key]

\* However often an attempt is repeated, by the page's retries, by the user
\* after an error or by an agent, at most one job of it stands: a second one is
\* printed only when the first one's retention is over (the rules at the head of
\* idempotency.ts; "within 10 minutes", as print_document tells its caller).
OneJobPerIntent ==
    \A r, s \in made : intent[r] = intent[s] /\ Stands(r) /\ Stands(s) => r = s

\* A reported success is a job of this very attempt, never an earlier one played
\* back for a new print.
SuccessIsNew ==
    shown.kind = "success" => shown.job \in made /\ intent[shown.job] = shown.intent

\* When the page says that trying again is no use, no job of the attempt stands,
\* nor will one while it says so.  (One printed earlier, whose retention is over,
\* it cannot know of.)
FinalErrorMeansNoJob ==
    shown.kind = "error" /\ ~shown.retryable
        => \A j \in made : intent[j] = shown.intent => ~Stands(j)

\* An agent is blamed for a failure only when its call printed nothing and, unless
\* it called twice at once, no earlier call's job stands for the same content.
BlameIsDeserved ==
    [][\A r \in Requests : call[r] = "open" /\ call'[r] = "blamed"
          => /\ r \notin made
             /\ r \in crowded
                \/ \A j \in made : intent[j] = intent[r] => ~Stands(j)]_allVars

\* What submit() puts in the page's list of jobs it asked for in this session;
\* signed out the page shows none of it, no attempt and no dialog.
ShowsThisSession ==
    /\ \A r \in list : sentIn[r] = epoch
    /\ ~signedIn => list = {} /\ attempt = None /\ dialog = None

\* The tools read and cancel jobs of their own device only, whatever the names
\* of the other printers look like.
StaysOnDevice == \A j \in touched : asks[j].payload.printer = Device

\* The dialog does not stay busy.
SubmitEnds == submitting ~> ~submitting
=============================================================================
