------------------------- MODULE PrintClientsProofs -------------------------
(***************************************************************************)
(* What the page and the tools can rely on, for any number of calls,       *)
(* sessions, retries and payloads, over any service that takes the steps   *)
(* of PrintOnce's.                                                         *)
(*                                                                         *)
(* The heart is that a key stands for an intent and an intent for a key    *)
(* (Matched), and that a call which was tried alone was tried after every  *)
(* earlier one of its intent was over (Alone): then the one job that       *)
(* stands for a key is the one of the intent, a job the service plays back *)
(* is of this very intent, and a refusal speaks for the whole intent.      *)
(***************************************************************************)
EXTENDS PrintClients, FiniteSetTheorems, SequenceTheorems, TLAPS

Count == Cardinality(Sent)

\* Types; the calls are numbered in the order they are sent.
Sorts ==
    /\ ClientsTypeOK
    /\ asks \in [Requests -> Demand \cup {Nothing}]
    /\ told \in [Requests -> Requests \cup {None}]
    /\ current \in [Keys -> SUBSET Requests]
    /\ Sent = 1..Count
    /\ \A r \in Requests : asks[r] \in Demand <=> r \in Sent
    /\ goal.number <= Count
    /\ signedIn => epoch < 2 * MaxSessions

\* A try is at work, ended without a job, or made one; of the calls that were not
\* tried nothing is known.
Parts ==
    /\ trying \subseteq Sent /\ refused \subseteq Sent /\ made \subseteq Sent /\ over \subseteq Sent
    /\ denied \subseteq refused /\ denied \subseteq over
    /\ trying \cap refused = {} /\ trying \cap made = {} /\ refused \cap made = {}

\* A key stands for one job of its own, or for none; then one call may be tried.
Standing == \A k \in Keys : \A j \in current[k] : j \in made /\ asks[j].key = k /\ current[k] = {j}

OneTry ==
    \A r \in trying : /\ current[asks[r].key] = {}
                      /\ \A s \in trying : asks[s].key = asks[r].key => s = r

Answers == \A r \in Requests : told[r] \in Requests => told[r] \in made /\ asks[told[r]] = asks[r]

HungUp == \A r \in Sent : call[r] # "open" => r \in over

Served == Parts /\ Standing /\ OneTry /\ Answers /\ HungUp

\* A call that overlapped none of its intent was tried when all before it were over,
\* and the jobs they had made stood no longer.
Past(s) == s \in over /\ s \notin trying /\ s \notin current[asks[s].key]

Alone ==
    \A r \in (trying \cup refused) \ crowded :
        \A s \in Sent : asks[s].key = asks[r].key /\ s < r => Past(s)

OfPage(r) == intent[r].content = None

\* Only the agent's calls overlap; an open call that does not is the last of its intent.
Quiet ==
    /\ \A r \in crowded : r \in Sent /\ ~OfPage(r)
    /\ \A r \in Sent \ crowded : call[r] = "open" =>
          \A s \in Sent : intent[s] = intent[r] /\ s # r => call[s] # "open" /\ s < r

Matched == \A r, s \in Sent : asks[r].key = asks[s].key <=> intent[r] = intent[s]

\* The page names its keys after calls it has sent and its intents by number, the
\* tools both by the content.
Named ==
    \A r \in Sent :
        \/ /\ \E q \in Sent : asks[r].key = PageKey(q)
           /\ \E n \in 1..goal.number : intent[r] = PageIntent(n)
        \/ \E p \in Payloads : asks[r].key = AgentKey(p) /\ intent[r] = AgentIntent(p)

\* The page's attempt is open exactly as long as its intent is, and has its key.
GoalHeld ==
    /\ goal.open <=> attempt # None /\ ~attempt.settled
    /\ goal.open => /\ attempt.payload = goal.payload /\ goal.number > 0
                    /\ \A r \in Sent : asks[r].key = attempt.key
                                          <=> intent[r] = PageIntent(goal.number)
    /\ attempt # None => \E q \in Sent : attempt.key = PageKey(q)

\* What is under way belongs to the session it began in, with a busy dialog and no
\* outcome on display.
Working ==
    work # NoWork =>
        /\ work.state \in {"call", "backoff"}
        /\ work.call \in Sent /\ OfPage(work.call)
        /\ work.state = "call" => call[work.call] = "open"
        /\ asks[work.call] = [key |-> work.key, payload |-> work.payload]
        /\ sentIn[work.call] = work.epoch /\ work.epoch <= epoch
        /\ signedIn <=> work.epoch = epoch
        /\ signedIn => submitting
        /\ shown.kind = "none"

OneOpen == \A r \in Sent : call[r] = "open" /\ OfPage(r) => work.state = "call" /\ work.call = r

\* An outcome on display is true of every call of its intent.
Shows ==
    /\ shown.kind = "success" => shown.job \in made /\ intent[shown.job] = shown.intent
    /\ shown.kind = "error" /\ ~shown.retryable =>
          /\ shown.intent.content = None
          /\ \A s \in Sent : intent[s] = shown.intent => Past(s)

Session ==
    /\ \A r \in list : r \in Sent /\ sentIn[r] = epoch
    /\ ~signedIn => list = {} /\ attempt = None /\ dialog = None

IInv == /\ Sorts /\ Served /\ Alone /\ Quiet /\ Matched /\ Named
        /\ GoalHeld /\ Working /\ OneOpen /\ Shows /\ Session

-----------------------------------------------------------------------------
(* The operators.                                                          *)

LEMMA Bounds ==
    /\ MaxCalls \in Nat \ {0} /\ MaxSessions \in Nat \ {0}
    /\ MaxAgentCalls \in Nat /\ MaxRetries \in Nat /\ Requests = 1..MaxCalls
    /\ None \notin Payloads /\ None \notin Attempts /\ None \notin Requests /\ Nothing \notin Demand
    /\ \A r \in Requests : r \in Nat \ {0} /\ PageKey(r) \in Keys
    /\ \A p \in Payloads : AgentKey(p) \in Keys
  BY ClientsAssumption, NoneAssumption

\* Keys and intents are as different as what they are named after.
LEMMA Names ==
    /\ \A q, r : PageKey(q) = PageKey(r) => q = r
    /\ \A m, n : PageIntent(m) = PageIntent(n) => m = n
    /\ \A p, q : AgentKey(p) = AgentKey(q) => p = q
    /\ \A p, q : AgentIntent(p) = AgentIntent(q) => p = q
    /\ \A q, p : p # None => PageKey(q) # AgentKey(p) /\ PageIntent(q) # AgentIntent(p)
    /\ \A n, p : PageIntent(n).content = None /\ AgentIntent(p).content = p
  BY DEF PageKey, AgentKey, PageIntent, AgentIntent

\* An error after which the outcome is open is one after which the page sends the
\* same key again and no agent is blamed (isRetryable of frontend/src/api.ts,
\* to_error of src/mcp/backend.rs).
LEMMA OpenOutcomes ==
    ASSUME NEW e \in Unsettled \cup Transport
    PROVE  SendsAgain(e) /\ ~(e \in AppErrors /\ BlamesAgent(e))
<1>1. Unsettled = {"GatewayTimeout", "ServiceUnavailable", "BadGateway", "IdempotencyConflict"}
  <2>1. DOMAIN FromExchange \ {"not_ready"} = {"timeout", "no_connection", "http_error", "unreadable"}
    BY DEF FromExchange
  <2>2. /\ FromCups[FromExchange["timeout"]] = "GatewayTimeout"
        /\ FromCups[FromExchange["no_connection"]] = "ServiceUnavailable"
        /\ FromCups[FromExchange["http_error"]] = "BadGateway"
        /\ FromCups[FromExchange["unreadable"]] = "BadGateway"
    BY DEF FromCups, FromExchange
  <2>. QED BY <2>1, <2>2 DEF Unsettled
<1>2. /\ {"GatewayTimeout", "ServiceUnavailable", "BadGateway", "IdempotencyConflict"} \subseteq AppErrors
      /\ "network" \notin AppErrors /\ "timeout" \notin AppErrors
  BY DEF AppErrors, Status
<1>3. /\ Status["GatewayTimeout"] = 504 /\ Status["ServiceUnavailable"] = 503
      /\ Status["BadGateway"] = 502 /\ Status["IdempotencyConflict"] = 409
      /\ Status["FileNotFound"] = 404
  BY DEF Status
<1>4. SendsAgain(e)
  BY <1>1, <1>2, <1>3 DEF SendsAgain, IsRetryable, Transport
<1>5. CASE e = "BadGateway"
  BY <1>3, <1>4, <1>5 DEF BlamesAgent, ErrorKind
<1>6. CASE e \in {"GatewayTimeout", "ServiceUnavailable", "IdempotencyConflict"}
  BY <1>3, <1>4, <1>6 DEF BlamesAgent, TellsToRepeat, Code
<1>7. CASE e \in Transport
  BY <1>2, <1>4, <1>7 DEF Transport
<1>. QED BY <1>1, <1>4, <1>5, <1>6, <1>7

\* So an error that settles the matter is a refusal the service sent.
LEMMA FinalIsRefusal ==
    ASSUME NEW r, NEW e, Reads(r, e),
           ~SendsAgain(e) \/ (e \in AppErrors /\ BlamesAgent(e))
    PROVE  r \in denied
  BY OpenOutcomes DEF Reads

LEMMA SentFinite == IsFiniteSet(Sent) /\ Count \in Nat
<1>1. IsFiniteSet(1..MaxCalls) /\ Sent \in SUBSET (1..MaxCalls)
  BY Bounds, FS_Interval DEF Sent
<1>. QED BY <1>1, FS_Subset, FS_CardinalityType DEF Count

LEMMA ServiceVars ==
    UNCHANGED vars <=> UNCHANGED <<asks, trying, refused, made, current, kept, told, denied, over>>
  BY DEF vars, tryVars, keyVars, answerVars

\* One call more is sent.
LEMMA Sending ==
    ASSUME Sorts, Left > 0, NEW key, NEW payload, NEW i, Send(Next1, key, payload, i)
    PROVE  /\ Next1 \in Requests /\ Next1 \notin Sent /\ Next1 = Count + 1
           /\ Sent' = Sent \cup {Next1} /\ Count' = Count + 1 /\ Sent' = 1..Count'
           /\ call' = [call EXCEPT ![Next1] = "open"]
           /\ asks' = [asks EXCEPT ![Next1] = [key |-> key, payload |-> payload]]
           /\ intent' = [intent EXCEPT ![Next1] = i]
           /\ sentIn' = [sentIn EXCEPT ![Next1] = epoch]
           /\ UNCHANGED <<refused, made, current, kept, told, denied, over>>
           /\ key \in Keys => trying' = trying
<1>1. Count \in Nat /\ Next1 = Count + 1 /\ Count < MaxCalls
  BY SentFinite, Bounds DEF Next1, Left, Count
<1>2. Next1 \in Requests /\ Next1 \notin Sent
  BY <1>1, Bounds DEF Sorts
<1>3. /\ call' = [call EXCEPT ![Next1] = "open"]
      /\ asks' = [asks EXCEPT ![Next1] = [key |-> key, payload |-> payload]]
      /\ intent' = [intent EXCEPT ![Next1] = i] /\ sentIn' = [sentIn EXCEPT ![Next1] = epoch]
      /\ UNCHANGED <<refused, made, current, kept, told, denied, over>>
      /\ key \in Keys => trying' = trying
  BY DEF Send, Ask, keyVars, answerVars
<1>4. call \in [Requests -> {"none", "open", "closed", "blamed"}]
  BY DEF Sorts, ClientsTypeOK
<1>5. Sent' = Sent \cup {Next1}
  BY <1>2, <1>3, <1>4 DEF Sent
<1>6. Count' = Count + 1
  <2>1. Cardinality(Sent \cup {Next1}) = Cardinality(Sent) + 1
    BY <1>2, SentFinite, FS_AddElement
  <2>. QED BY <1>5, <2>1 DEF Count
<1>7. Sent' = 1..Count'
  BY <1>1, <1>5, <1>6 DEF Sorts
<1>. QED BY <1>1, <1>2, <1>3, <1>5, <1>6, <1>7

\* A call that ends was sent before.
LEMMA Ending ==
    ASSUME Sorts, NEW r \in Sent, NEW c \in {"closed", "blamed"}, call' = [call EXCEPT ![r] = c]
    PROVE  /\ Sent' = Sent /\ Count' = Count
           /\ call' \in [Requests -> {"none", "open", "closed", "blamed"}]
           /\ \A s \in Requests : call'[s] = "open" => call[s] = "open" /\ s # r
<1>1. call \in [Requests -> {"none", "open", "closed", "blamed"}] /\ r \in Requests /\ call[r] # "none"
  BY DEF Sorts, ClientsTypeOK, Sent
<1>2. Sent' = Sent
  BY <1>1 DEF Sent
<1>. QED BY <1>1, <1>2 DEF Count

\* What is left of the service's side when a client hangs up, or reads an answer.
LEMMA Hanging ==
    ASSUME Served, NEW r \in Sent,
           HangsUp(r) \/ Leave(r) \/ (\E e : Reads(r, e)) \/ \E j : ReadsJob(r, j)
    PROVE  /\ UNCHANGED <<asks, trying, refused, made, current, kept, told, denied>>
           /\ over' = over \cup {r}
<1>1. ASSUME Leave(r) PROVE UNCHANGED <<asks, trying, refused, made, current, kept, told, denied>>
                            /\ over' = over \cup {r}
  BY <1>1 DEF Leave, Ends, tryVars, keyVars
<1>2. ASSUME r \in over, UNCHANGED vars
      PROVE  UNCHANGED <<asks, trying, refused, made, current, kept, told, denied>>
             /\ over' = over \cup {r}
  BY <1>2, ServiceVars
<1>3. HangsUp(r) => Leave(r) \/ (r \in over /\ UNCHANGED vars)
  BY DEF HangsUp
<1>4. \A e : Reads(r, e) => HangsUp(r) \/ (r \in over /\ UNCHANGED vars)
  BY DEF Reads, Served, Parts
<1>5. \A j : ReadsJob(r, j) => r \in over /\ UNCHANGED vars
  BY DEF ReadsJob
<1>. QED BY <1>1, <1>2, <1>3, <1>4, <1>5

Calls == Served /\ Alone /\ Quiet /\ Matched /\ Named

\* Nothing of the calls depends on anything but the calls and the service.
LEMMA CallsStand ==
    ASSUME Calls, Sent' = Sent, goal'.number = goal.number,
           UNCHANGED <<asks, trying, refused, made, current, told, denied, over, call, crowded, intent>>
    PROVE  Calls'
<1>1. Served'
  BY DEF Calls, Served, Parts, Standing, OneTry, Answers, HungUp
<1>2. Alone' /\ Quiet'
  BY DEF Calls, Alone, Past, Quiet, OfPage
<1>3. Matched' /\ Named'
  BY DEF Calls, Matched, Named
<1>. QED BY <1>1, <1>2, <1>3 DEF Calls

LEMMA CallEnds ==
    ASSUME Sorts, Calls, NEW r \in Sent, NEW c \in {"closed", "blamed"},
           call' = [call EXCEPT ![r] = c], goal'.number = goal.number,
           UNCHANGED <<asks, trying, refused, made, current, told, denied, crowded, intent>>,
           over' = over \cup {r}
    PROVE  Calls'
<1>1. /\ Sent' = Sent
      /\ \A s \in Requests : call'[s] = "open" <=> call[s] = "open" /\ s # r
  <2>1. call \in [Requests -> {"none", "open", "closed", "blamed"}] /\ r \in Requests
    BY DEF Sorts, ClientsTypeOK, Sent
  <2>. QED BY <2>1, Ending
<1>2. Sent \subseteq Requests
  BY DEF Sent
<1>3. Parts' /\ Standing' /\ OneTry' /\ Answers'
  BY <1>1 DEF Calls, Served, Parts, Standing, OneTry, Answers
<1>4. HungUp'
  BY <1>1, <1>2 DEF Calls, Served, HungUp
<1>5. Alone'
  BY <1>1 DEF Calls, Alone, Past
<1>6. Quiet'
  BY <1>1, <1>2 DEF Calls, Quiet, OfPage
<1>7. Matched' /\ Named'
  BY <1>1 DEF Calls, Matched, Named
<1>. QED BY <1>3, <1>4, <1>5, <1>6, <1>7 DEF Calls, Served

\* What the page shows stays true while the service's side stands, or calls end.
LEMMA ShowsStand ==
    ASSUME Shows, Sent' = Sent, over \subseteq over',
           UNCHANGED <<asks, trying, made, current, intent, shown>>
    PROVE  Shows'
  BY DEF Shows, Past

-----------------------------------------------------------------------------
(* The session, the dialog, the tools that read.                           *)

LEMMA ShowingNothing ==
    ASSUME shown' = NoEnd
    PROVE  shown'.kind = "none" /\ Shows'
  BY DEF NoEnd, Shows

LEMMA NoEndType ==
    NoEnd \in [kind : {"none", "success", "error"}, intent : Intents,
               job : 0..MaxCalls, retryable : BOOLEAN]
  BY Bounds DEF NoEnd, Intents, PageIntent

LEMMA NoWorkType ==
    NoWork \in [state : {"none", "call", "backoff"}, payload : Payloads \cup {None},
                key : Keys \cup {None}, failures : 0..MaxRetries,
                epoch : 0..2 * MaxSessions, call : 0..MaxCalls]
  BY Bounds DEF NoWork

\* What is left after the page forgot everything.
LEMMA Forgetting ==
    ASSUME IInv, signedIn, Forgotten
    PROVE  /\ epoch' = epoch + 1 /\ ~signedIn' /\ goal'.number = goal.number
           /\ epoch' \in 0..2 * MaxSessions /\ shown'.kind = "none"
           /\ goal' \in [number : 0..MaxCalls, payload : Payloads \cup {None}, open : BOOLEAN]
           /\ GoalHeld' /\ Shows' /\ Session'
<1>1. goal \in [number : 0..MaxCalls, payload : Payloads \cup {None}, open : BOOLEAN]
  BY DEF IInv, Sorts, ClientsTypeOK
<1>2. /\ epoch' = epoch + 1 /\ signedIn' = FALSE /\ goal' = [goal EXCEPT !.open = FALSE]
      /\ attempt' = None /\ dialog' = None /\ list' = {} /\ shown' = NoEnd
  BY DEF Forgotten
<1>3. goal'.number = goal.number /\ ~goal'.open
      /\ goal' \in [number : 0..MaxCalls, payload : Payloads \cup {None}, open : BOOLEAN]
  BY <1>1, <1>2
<1>4. GoalHeld'
  BY <1>2, <1>3 DEF GoalHeld
<1>5. Shows' /\ shown'.kind = "none"
  BY <1>2, ShowingNothing
<1>6. Session'
  BY <1>2 DEF Session
<1>7. epoch' \in 0..2 * MaxSessions
  BY <1>2, Bounds DEF IInv, Sorts, ClientsTypeOK
<1>. QED BY <1>2, <1>3, <1>4, <1>5, <1>6, <1>7

LEMMA SignInKeeps == ASSUME IInv, SignIn PROVE IInv'
<1>. USE DEF IInv
<1>1. /\ ~signedIn /\ work = NoWork /\ epoch + 2 <= 2 * MaxSessions
      /\ signedIn' = TRUE /\ epoch' = epoch + 1
      /\ UNCHANGED <<asks, trying, refused, made, current, told, denied, over>>
      /\ UNCHANGED <<call, crowded, intent, sentIn, attempt, dialog, submitting, shown, list,
                     goal, work, touched>>
  BY ServiceVars DEF SignIn, printVars
<1>2. Sent' = Sent /\ Count' = Count
  BY <1>1 DEF Sent, Count
<1>3. epoch' \in 0..2 * MaxSessions /\ epoch' < 2 * MaxSessions
  BY <1>1, Bounds DEF Sorts, ClientsTypeOK
<1>4. ClientsTypeOK'
  BY <1>1, <1>3 DEF Sorts, ClientsTypeOK
<1>5. Sorts'
  BY <1>1, <1>2, <1>3, <1>4 DEF Sorts
<1>6. Calls' /\ Shows'
  BY <1>1, <1>2, CallsStand, ShowsStand DEF Calls
<1>7. GoalHeld' /\ OneOpen' /\ Working' /\ Session'
  BY <1>1, <1>2 DEF GoalHeld, OneOpen, OfPage, Working, Session
<1>. QED BY <1>5, <1>6, <1>7 DEF Calls

LEMMA SignOutKeeps == ASSUME IInv, SignOut PROVE IInv'
<1>. USE DEF IInv
<1>1. /\ signedIn /\ Forgotten
      /\ UNCHANGED <<asks, trying, refused, made, current, told, denied, over>>
      /\ UNCHANGED <<call, crowded, intent, sentIn, work, touched>>
  BY ServiceVars DEF SignOut
<1>2. Sent' = Sent /\ Count' = Count
  BY <1>1 DEF Sent, Count
<1>3. ClientsTypeOK'
  BY <1>1, Forgetting, NoEndType DEF Sorts, ClientsTypeOK, Forgotten
<1>4. Sorts'
  BY <1>1, <1>2, <1>3, Forgetting DEF Sorts
<1>5. Calls'
  BY <1>1, <1>2, Forgetting, CallsStand DEF Calls
<1>6. Working'
  <2>1. work # NoWork => work.epoch # epoch + 1
    BY DEF Working, Sorts, ClientsTypeOK
  <2>. QED BY <1>1, <1>2, <2>1, Forgetting DEF Working, OfPage, Sorts, ClientsTypeOK
<1>7. OneOpen'
  BY <1>1, <1>2 DEF OneOpen, OfPage
<1>. QED BY <1>1, <1>4, <1>5, <1>6, <1>7, Forgetting DEF Calls

LEMMA AbortKeeps == ASSUME IInv, AbortSubmission PROVE IInv'
<1>. USE DEF IInv
<1>1. /\ ~signedIn /\ work # NoWork /\ work' = NoWork
      /\ UNCHANGED <<crowded, intent, sentIn, signedIn, epoch, attempt, dialog, submitting,
                     shown, list, goal, touched>>
  BY DEF AbortSubmission, printVars, sessionVars
<1>2. work.call \in Sent
  BY <1>1 DEF Working
<1>3. /\ UNCHANGED <<asks, trying, refused, made, current, told, denied>>
      /\ over \subseteq over'
      /\ Sent' = Sent /\ Count' = Count
      /\ call' \in [Requests -> {"none", "open", "closed", "blamed"}]
      /\ \A s \in Requests : call'[s] = "open" =>
            call[s] = "open" /\ (work.state = "call" => s # work.call)
      /\ Calls'
  <2>1. CASE work.state = "call"
    <3>1. call' = [call EXCEPT ![work.call] = "closed"] /\ HangsUp(work.call)
      BY <2>1 DEF AbortSubmission
    <3>2. /\ UNCHANGED <<asks, trying, refused, made, current, told, denied>>
          /\ over' = over \cup {work.call}
      BY <1>2, <3>1, Hanging
    <3>3. Calls'
      BY <1>1, <1>2, <3>1, <3>2, CallEnds DEF Calls
    <3>. QED BY <1>2, <3>1, <3>2, <3>3, Ending
  <2>2. CASE work.state # "call"
    <3>1. UNCHANGED <<asks, trying, refused, made, current, told, denied, over, call>>
      BY <2>2, ServiceVars DEF AbortSubmission
    <3>2. Sent' = Sent /\ Count' = Count
      BY <3>1 DEF Sent, Count
    <3>3. Calls'
      BY <1>1, <3>1, <3>2, CallsStand DEF Calls
    <3>. QED BY <2>2, <3>1, <3>2, <3>3 DEF Sorts, ClientsTypeOK
  <2>. QED BY <2>1, <2>2
<1>4. ClientsTypeOK'
  BY <1>1, <1>3, NoWorkType DEF Sorts, ClientsTypeOK
<1>5. Sorts'
  BY <1>1, <1>3, <1>4 DEF Sorts
<1>6. OneOpen'
  <2>1. ASSUME NEW s \in Sent', call'[s] = "open", OfPage(s)' PROVE FALSE
    <3>1. s \in Sent /\ s \in Requests /\ OfPage(s) /\ call[s] = "open"
      BY <1>1, <1>3, <2>1 DEF Sent, OfPage
    <3>. QED BY <1>3, <2>1, <3>1 DEF OneOpen
  <2>. QED BY <2>1 DEF OneOpen
<1>7. Shows'
  BY <1>1, <1>3, ShowsStand
<1>8. GoalHeld' /\ Working' /\ Session'
  BY <1>1, <1>3 DEF GoalHeld, Working, Session
<1>. QED BY <1>3, <1>5, <1>6, <1>7, <1>8 DEF Calls

LEMMA JobToolKeeps == ASSUME IInv, NEW j, JobTool(j) PROVE IInv'
<1>. USE DEF IInv
<1>1. /\ j \in made /\ touched' = touched \cup {j}
      /\ UNCHANGED <<asks, trying, refused, made, current, told, denied, over>>
      /\ UNCHANGED <<call, crowded, intent, sentIn, signedIn, epoch, attempt, dialog,
                     submitting, shown, list, goal, work>>
  BY ServiceVars DEF JobTool, printVars, sessionVars
<1>2. Sent' = Sent /\ Count' = Count
  BY <1>1 DEF Sent, Count
<1>3. ClientsTypeOK'
  BY <1>1 DEF Sorts, ClientsTypeOK
<1>4. Sorts'
  BY <1>1, <1>2, <1>3 DEF Sorts
<1>5. Calls' /\ Shows'
  BY <1>1, <1>2, CallsStand, ShowsStand DEF Calls
<1>6. GoalHeld' /\ OneOpen' /\ Working' /\ Session'
  BY <1>1, <1>2 DEF GoalHeld, OneOpen, OfPage, Working, Session
<1>. QED BY <1>4, <1>5, <1>6 DEF Calls

\* The dialog opens or closes while nothing is under way.
LEMMA DialogKeeps ==
    ASSUME IInv,
           \/ \E p \in Payloads : Confirm(p)
           \/ \E r \in Requests : Reprint(r)
           \/ CancelConfirm
    PROVE  IInv'
<1>. USE DEF IInv
<1>t. /\ goal \in [number : 0..MaxCalls, payload : Payloads \cup {None}, open : BOOLEAN]
      /\ dialog \in Payloads \cup {None} /\ attempt \in Attempts \cup {None}
  BY DEF Sorts, ClientsTypeOK
<1>1. /\ UNCHANGED <<asks, trying, refused, made, current, told, denied, over>>
      /\ UNCHANGED <<call, crowded, intent, sentIn, signedIn, epoch, submitting, work, list,
                     touched>>
      /\ shown' \in {shown, NoEnd}
  BY ServiceVars DEF Confirm, Reprint, CancelConfirm, sessionVars
<1>2. /\ dialog' \in Payloads \cup {None} /\ (dialog' # None => signedIn)
      /\ \/ attempt' = attempt /\ goal' = goal
         \/ attempt' = None /\ goal' = [goal EXCEPT !.open = FALSE] /\ signedIn
  <2>1. ASSUME NEW r \in Requests, Reprint(r)
        PROVE  dialog' \in Payloads /\ attempt' = None /\ goal' = [goal EXCEPT !.open = FALSE] /\ signedIn
    <3>1. r \in Sent /\ asks[r] \in Demand
      BY <2>1 DEF Reprint, Session, Sorts, Sent
    <3>. QED BY <2>1, <3>1 DEF Reprint, Demand
  <2>2. ASSUME (\E p \in Payloads : Confirm(p)) \/ CancelConfirm
        PROVE  /\ dialog' \in Payloads \cup {None} /\ (dialog' # None => signedIn)
               /\ attempt' = attempt /\ goal' = goal
    BY <2>2 DEF Confirm, CancelConfirm
  <2>. QED BY <2>1, <2>2
<1>3. Sent' = Sent /\ Count' = Count
  BY <1>1 DEF Sent, Count
<1>4. /\ goal' \in [number : 0..MaxCalls, payload : Payloads \cup {None}, open : BOOLEAN]
      /\ goal'.number = goal.number /\ attempt' \in Attempts \cup {None}
      /\ shown' \in [kind : {"none", "success", "error"}, intent : Intents,
                     job : 0..MaxCalls, retryable : BOOLEAN]
  BY <1>t, <1>1, <1>2, NoEndType DEF Sorts, ClientsTypeOK
<1>5. ClientsTypeOK'
  BY <1>1, <1>2, <1>4 DEF Sorts, ClientsTypeOK
<1>6. Sorts'
  BY <1>1, <1>3, <1>4, <1>5 DEF Sorts
<1>7. Calls'
  BY <1>1, <1>3, <1>4, CallsStand DEF Calls
<1>8. GoalHeld'
  <2>1. CASE attempt' = attempt /\ goal' = goal
    BY <1>1, <1>3, <2>1 DEF GoalHeld
  <2>2. CASE attempt' = None /\ goal' = [goal EXCEPT !.open = FALSE]
    <3>1. ~goal'.open
      BY <1>t, <2>2
    <3>. QED BY <2>2, <3>1 DEF GoalHeld
  <2>. QED BY <1>2, <2>1, <2>2
<1>9. Shows' /\ (shown.kind = "none" => shown'.kind = "none")
  BY <1>1, <1>3, ShowingNothing, ShowsStand
<1>10. OneOpen' /\ Working' /\ Session'
  BY <1>1, <1>2, <1>3, <1>9 DEF OneOpen, OfPage, Working, Session
<1>. QED BY <1>6, <1>7, <1>8, <1>9, <1>10 DEF Calls
-----------------------------------------------------------------------------
(* Steps that send a call.                                                 *)

\* The call may have a key and an intent of its own, or those of an earlier one.
LEMMA SendingKeeps ==
    ASSUME IInv, Left > 0, NEW key \in Keys, NEW payload \in Payloads, NEW i \in Intents,
           Send(Next1, key, payload, i),
           i.content = None => Overlapping(i) = {},
           goal'.number \in Nat, goal.number <= goal'.number,
           \A s \in Sent : asks[s].key = key <=> intent[s] = i,
           \/ (\E q \in Sent \cup {Next1} : key = PageKey(q))
                 /\ \E n \in 1..goal'.number : i = PageIntent(n)
           \/ \E p \in Payloads : key = AgentKey(p) /\ i = AgentIntent(p)
    PROVE  /\ Calls'
           /\ crowded' \subseteq Requests
           /\ asks' \in [Requests -> Demand \cup {Nothing}]
           /\ \A r \in Requests : asks'[r] \in Demand <=> r \in Sent'
           /\ call' \in [Requests -> {"none", "open", "closed", "blamed"}]
           /\ intent' \in [Requests -> Intents]
           /\ sentIn' \in [Requests -> 0..2 * MaxSessions]
           /\ \A r \in Sent : /\ asks'[r] = asks[r] /\ intent'[r] = intent[r]
                              /\ sentIn'[r] = sentIn[r] /\ call'[r] = call[r]
           /\ asks'[Next1] = [key |-> key, payload |-> payload]
           /\ intent'[Next1] = i /\ sentIn'[Next1] = epoch /\ call'[Next1] = "open"
<1>. USE DEF IInv
<1>t. /\ call \in [Requests -> {"none", "open", "closed", "blamed"}]
      /\ asks \in [Requests -> Demand \cup {Nothing}]
      /\ intent \in [Requests -> Intents] /\ sentIn \in [Requests -> 0..2 * MaxSessions]
      /\ epoch \in 0..2 * MaxSessions /\ Sent \subseteq Requests /\ Sent = 1..Count
      /\ goal.number \in Nat
  BY Bounds DEF Sorts, ClientsTypeOK, Sent
<1>1. /\ Next1 \in Requests /\ Next1 \notin Sent /\ Sent' = Sent \cup {Next1}
      /\ call' = [call EXCEPT ![Next1] = "open"]
      /\ asks' = [asks EXCEPT ![Next1] = [key |-> key, payload |-> payload]]
      /\ intent' = [intent EXCEPT ![Next1] = i]
      /\ sentIn' = [sentIn EXCEPT ![Next1] = epoch]
      /\ UNCHANGED <<trying, refused, made, current, told, denied, over>>
  BY Sending
<1>2. PICK new \in Requests : new = Next1
  BY <1>1
<1>3. [key |-> key, payload |-> payload] \in Demand
  BY DEF Demand
<1>4. /\ \A r \in Sent : /\ asks'[r] = asks[r] /\ intent'[r] = intent[r]
                         /\ sentIn'[r] = sentIn[r] /\ call'[r] = call[r]
      /\ asks'[new] = [key |-> key, payload |-> payload]
      /\ intent'[new] = i /\ sentIn'[new] = epoch /\ call'[new] = "open"
  BY <1>t, <1>1, <1>2
<1>5. /\ asks' \in [Requests -> Demand \cup {Nothing}]
      /\ call' \in [Requests -> {"none", "open", "closed", "blamed"}]
      /\ intent' \in [Requests -> Intents]
      /\ sentIn' \in [Requests -> 0..2 * MaxSessions]
  BY <1>t, <1>1, <1>3
<1>6. \A r \in Requests : asks'[r] \in Demand <=> r \in Sent'
  BY <1>1, <1>2, <1>3, <1>4 DEF Sorts
<1>7. Served'
  <2>1. Parts' /\ HungUp'
    BY <1>1, <1>2, <1>4 DEF Served, Parts, HungUp
  <2>2. Standing'
    BY <1>1, <1>4 DEF Served, Parts, Standing
  <2>3. OneTry'
    <3>1. \A r \in trying : r \in Sent /\ asks'[r] = asks[r]
      BY <1>4 DEF Served, Parts
    <3>2. ASSUME NEW r \in trying
          PROVE  /\ current[asks'[r].key] = {}
                 /\ \A s \in trying : asks'[s].key = asks'[r].key => s = r
      BY <3>1 DEF Served, OneTry
    <3>. QED BY <1>1, <3>2 DEF OneTry
  <2>4. Answers'
    <3>1. ASSUME NEW r \in Requests, told[r] \in Requests
          PROVE  told[r] \in made /\ asks'[told[r]] = asks'[r]
      <4>1. told[r] \in made /\ asks[told[r]] = asks[r] /\ told[r] \in Sent
        BY <3>1 DEF Served, Parts, Answers
      <4>2. r \in Sent
        BY <3>1, <4>1 DEF Sorts
      <4>. QED BY <1>4, <4>1, <4>2
    <3>. QED BY <1>1, <3>1 DEF Answers
  <2>. QED BY <2>1, <2>2, <2>3, <2>4 DEF Served
<1>n. new \in Nat /\ \A s \in Sent : s \in Nat /\ s < new
  <2>1. Count \in Nat /\ new = Count + 1
    BY <1>2, SentFinite, Sending
  <2>. QED BY <1>t, <2>1
<1>c. crowded' = IF Overlapping(i) = {} THEN crowded ELSE crowded \cup Overlapping(i) \cup {new}
  BY <1>2 DEF Send
<1>o. \A s : s \in Overlapping(i) <=> s \in Sent /\ call[s] = "open" /\ intent[s] = i
  BY DEF Overlapping
<1>11. Alone'
  <2>1. ASSUME NEW r \in (trying \cup refused) \ crowded, NEW s \in Sent',
               asks'[s].key = asks'[r].key, s < r
        PROVE  s \in over /\ s \notin trying /\ s \notin current[asks'[s].key]
    <3>1. r \in Sent
      BY <2>1 DEF Served, Parts
    <3>2. s \in Sent
      BY <1>1, <1>2, <1>n, <2>1, <3>1
    <3>. QED BY <1>4, <2>1, <3>1, <3>2 DEF Alone, Past
  <2>2. crowded \subseteq crowded'
    BY <1>c
  <2>. QED BY <1>1, <2>1, <2>2 DEF Alone, Past
<1>12. Quiet'
  <2>1. ASSUME NEW r \in crowded' PROVE r \in Sent' /\ ~(OfPage(r))'
    <3>1. CASE r \in crowded
      BY <1>1, <1>4, <3>1 DEF Quiet, OfPage
    <3>2. CASE r \notin crowded
      <4>1. Overlapping(i) # {} /\ (r \in Overlapping(i) \/ r = new)
        BY <1>c, <2>1, <3>2
      <4>2. r \in Sent' /\ intent'[r] = i
        BY <1>1, <1>2, <1>4, <1>o, <4>1
      <4>. QED BY <4>1, <4>2 DEF OfPage
    <3>. QED BY <3>1, <3>2
  <2>2. ASSUME NEW r \in Sent' \ crowded', call'[r] = "open",
               NEW s \in Sent', intent'[s] = intent'[r], s # r
        PROVE  call'[s] # "open" /\ s < r
    <3>1. CASE r \in Sent /\ s \in Sent
      <4>1. r \notin crowded
        BY <1>c, <2>2
      <4>. QED BY <1>4, <2>2, <3>1, <4>1 DEF Quiet
    <3>2. CASE r \in Sent /\ s = new
      <4>1. r \in Overlapping(i)
        BY <1>4, <1>o, <2>2, <3>2
      <4>. QED BY <1>c, <2>2, <4>1
    <3>3. CASE r = new /\ s \in Sent
      <4>1. s \notin Overlapping(i)
        BY <1>c, <2>2, <3>3
      <4>2. intent[s] = i /\ call'[s] = call[s]
        BY <1>4, <2>2, <3>3
      <4>. QED BY <1>n, <1>o, <3>3, <4>1, <4>2
    <3>. QED BY <1>1, <1>2, <2>2, <3>1, <3>2, <3>3
  <2>. QED BY <2>1, <2>2 DEF Quiet
<1>13. crowded' \subseteq Requests
  BY <1>1, <1>12 DEF Quiet, Sent
<1>8. asks'[new].key = key
  BY <1>4
<1>9. Matched'
  <2>1. ASSUME NEW r \in Sent', NEW s \in Sent'
        PROVE  asks'[r].key = asks'[s].key <=> intent'[r] = intent'[s]
    BY <1>1, <1>2, <1>4, <1>8 DEF Matched
  <2>. QED BY <2>1 DEF Matched
<1>10. Named'
  <2>1. ASSUME NEW r \in Sent
        PROVE  \/ /\ \E q \in Sent' : asks'[r].key = PageKey(q)
                  /\ \E n \in 1..goal'.number : intent'[r] = PageIntent(n)
               \/ \E p \in Payloads : asks'[r].key = AgentKey(p) /\ intent'[r] = AgentIntent(p)
    <3>1. 1..goal.number \subseteq 1..goal'.number
      BY <1>t
    <3>. QED BY <1>1, <1>4, <3>1 DEF Named
  <2>2. \/ /\ \E q \in Sent' : asks'[new].key = PageKey(q)
           /\ \E n \in 1..goal'.number : intent'[new] = PageIntent(n)
        \/ \E p \in Payloads : asks'[new].key = AgentKey(p) /\ intent'[new] = AgentIntent(p)
    BY <1>1, <1>2, <1>4, <1>8
  <2>. QED BY <1>1, <1>2, <2>1, <2>2 DEF Named
<1>. QED BY <1>2, <1>4, <1>5, <1>6, <1>7, <1>9, <1>10, <1>11, <1>12, <1>13 DEF Calls

\* The page's submission takes the key of its open attempt with the intent, or a
\* new key with a new intent.
LEMMA SubmitKeeps == ASSUME IInv, Submit PROVE IInv'
<1>. USE DEF IInv
<1>a. PICK a : a = ResolveAttempt(attempt, dialog, Next1)
  OBVIOUS
<1>g. PICK g : g = NextGoal(dialog)
  OBVIOUS
<1>t. /\ goal \in [number : 0..MaxCalls, payload : Payloads \cup {None}, open : BOOLEAN]
      /\ dialog \in Payloads \cup {None} /\ attempt \in Attempts \cup {None}
      /\ epoch \in 0..2 * MaxSessions
  BY DEF Sorts, ClientsTypeOK
<1>1. /\ signedIn /\ dialog \in Payloads /\ ~submitting /\ Left > MaxRetries
      /\ attempt' = a /\ submitting' = TRUE /\ shown' = NoEnd /\ goal' = g
      /\ Send(Next1, a.key, dialog, PageIntent(g.number))
      /\ work' = [state |-> "call", payload |-> dialog, key |-> a.key, failures |-> 0,
                  epoch |-> epoch, call |-> Next1]
      /\ UNCHANGED <<signedIn, epoch, dialog, list, touched>>
  BY <1>a, <1>g, <1>t DEF Submit, sessionVars
<1>2. work = NoWork
  BY <1>1 DEF Working
<1>3. /\ Left > 0 /\ Next1 \in Requests /\ Next1 = Count + 1 /\ Next1 \notin Sent
      /\ Sent' = Sent \cup {Next1} /\ Count' = Count + 1 /\ Sent' = 1..Count'
      /\ UNCHANGED <<made, current, told>>
      /\ Count \in Nat /\ Next1 \in 0..MaxCalls
  <2>1. Left > 0
    BY <1>1, Bounds, SentFinite DEF Left, Count
  <2>2. Next1 \in Requests /\ UNCHANGED <<made, current, told>>
    BY <1>1, <2>1, Sending
  <2>. QED BY <1>1, <2>1, <2>2, Sending, SentFinite, Bounds
\* What has been sent is named after calls before this one.
<1>4. \A s \in Sent : asks[s].key # PageKey(Next1) /\ intent[s] # PageIntent(goal.number + 1)
  <2>1. ASSUME NEW s \in Sent PROVE asks[s].key # PageKey(Next1) /\ intent[s] # PageIntent(goal.number + 1)
    <3>1. CASE /\ \E q \in Sent : asks[s].key = PageKey(q)
               /\ \E n \in 1..goal.number : intent[s] = PageIntent(n)
      BY <1>t, <1>3, <3>1, Names, Bounds
    <3>2. CASE \E p \in Payloads : asks[s].key = AgentKey(p) /\ intent[s] = AgentIntent(p)
      BY <3>2, Names, Bounds
    <3>. QED BY <3>1, <3>2 DEF Named
  <2>. QED BY <2>1
\* The attempt and the intent the call is sent for.
<1>5. /\ a \in Attempts /\ ~a.settled /\ a.payload = dialog
      /\ \E q \in Sent \cup {Next1} : a.key = PageKey(q)
      /\ g \in [number : 0..MaxCalls, payload : Payloads \cup {None}, open : BOOLEAN]
      /\ g.open /\ g.payload = dialog /\ g.number \in 1..(Count + 1) /\ goal.number <= g.number
      /\ \A s \in Sent : asks[s].key = a.key <=> intent[s] = PageIntent(g.number)
  <2>1. CASE goal.open /\ goal.payload = dialog
    <3>1. /\ attempt # None /\ ~attempt.settled /\ attempt.payload = goal.payload /\ goal.number > 0
          /\ \A s \in Sent : asks[s].key = attempt.key <=> intent[s] = PageIntent(goal.number)
      BY <2>1 DEF GoalHeld
    <3>2. \E q \in Sent : attempt.key = PageKey(q)
      BY <3>1 DEF GoalHeld
    <3>3. a = attempt /\ g = goal
      BY <2>1, <3>1, <1>a, <1>g DEF ResolveAttempt, NextGoal
    <3>4. goal.number \in 1..(Count + 1)
      BY <1>t, <1>3, <3>1 DEF Sorts
    <3>. QED BY <1>t, <2>1, <3>1, <3>2, <3>3, <3>4
  <2>2. CASE ~(goal.open /\ goal.payload = dialog)
    <3>1. ~(attempt # None /\ ~attempt.settled /\ attempt.payload = dialog)
      BY <2>2 DEF GoalHeld
    <3>2. a = [key |-> PageKey(Next1), payload |-> dialog, settled |-> FALSE]
      BY <1>a, <3>1 DEF ResolveAttempt, FreshAttempt
    <3>3. g = [number |-> goal.number + 1, payload |-> dialog, open |-> TRUE]
      BY <1>g, <2>2 DEF NextGoal
    <3>4. PageKey(Next1) \in Keys
      BY <1>3, Bounds
    <3>5. /\ goal.number + 1 \in 1..(Count + 1) /\ goal.number + 1 \in 0..MaxCalls
          /\ goal.number <= goal.number + 1
      BY <1>t, <1>3, Bounds DEF Sorts
    <3>6. a \in Attempts /\ ~a.settled /\ a.payload = dialog /\ a.key = PageKey(Next1)
      BY <1>1, <3>2, <3>4 DEF Attempts
    <3>7. /\ g \in [number : 0..MaxCalls, payload : Payloads \cup {None}, open : BOOLEAN]
          /\ g.open /\ g.payload = dialog /\ g.number = goal.number + 1
      BY <1>1, <3>3, <3>5
    <3>. QED BY <1>4, <3>5, <3>6, <3>7
  <2>. QED BY <2>1, <2>2
<1>6. PageIntent(g.number) \in Intents
  BY <1>5 DEF Intents, PageIntent
<1>7. /\ Calls'
      /\ crowded' \subseteq Requests
      /\ asks' \in [Requests -> Demand \cup {Nothing}]
      /\ \A r \in Requests : asks'[r] \in Demand <=> r \in Sent'
      /\ call' \in [Requests -> {"none", "open", "closed", "blamed"}]
      /\ intent' \in [Requests -> Intents]
      /\ sentIn' \in [Requests -> 0..2 * MaxSessions]
      /\ \A r \in Sent : /\ asks'[r] = asks[r] /\ intent'[r] = intent[r]
                         /\ sentIn'[r] = sentIn[r] /\ call'[r] = call[r]
      /\ asks'[Next1] = [key |-> a.key, payload |-> dialog]
      /\ intent'[Next1] = PageIntent(g.number) /\ sentIn'[Next1] = epoch /\ call'[Next1] = "open"
  <2>1. a.key \in Keys /\ goal'.number \in Nat /\ g.number \in 1..goal'.number
    BY <1>1, <1>5, Bounds DEF Attempts
  <2>2. Overlapping(PageIntent(g.number)) = {}
    BY <1>2, Names DEF Overlapping, OneOpen, OfPage, NoWork
  <2>. QED BY <1>1, <1>3, <1>5, <1>6, <2>1, <2>2, SendingKeeps
<1>8. ClientsTypeOK'
  <2>1. work' \in [state : {"none", "call", "backoff"}, payload : Payloads \cup {None},
                   key : Keys \cup {None}, failures : 0..MaxRetries,
                   epoch : 0..2 * MaxSessions, call : 0..MaxCalls]
    BY <1>t, <1>1, <1>3, <1>5, Bounds DEF Attempts
  <2>. QED BY <1>1, <1>3, <1>5, <1>7, <2>1, NoEndType DEF Sorts, ClientsTypeOK
<1>9. Sorts'
  <2>1. goal'.number <= Count'
    BY <1>1, <1>3, <1>5
  <2>. QED BY <1>1, <1>3, <1>7, <1>8, <2>1 DEF Sorts
<1>10. GoalHeld'
  <2>1. goal'.open /\ attempt' # None /\ ~attempt'.settled /\ attempt'.payload = goal'.payload
        /\ goal'.number > 0
    BY <1>1, <1>5, Bounds
  <2>2. \A r \in Sent' : asks'[r].key = attempt'.key <=> intent'[r] = PageIntent(goal'.number)
    BY <1>1, <1>3, <1>5, <1>7
  <2>. QED BY <1>1, <1>3, <1>5, <2>1, <2>2 DEF GoalHeld
<1>11. Working'
  <2>1. work'.call = Next1 /\ work'.key = a.key /\ work'.payload = dialog /\ work'.state = "call"
        /\ work'.epoch = epoch
    BY <1>1
  <2>2. shown'.kind = "none" /\ intent'[Next1].content = None
    BY <1>1, <1>7, Names, ShowingNothing
  <2>3. (OfPage(work.call))'
    BY <2>1, <2>2 DEF OfPage
  <2>. QED BY <1>t, <1>1, <1>3, <1>7, <2>1, <2>2, <2>3 DEF Working
<1>12. OneOpen'
  <2>1. ASSUME NEW r \in Sent', call'[r] = "open", OfPage(r)' PROVE r = Next1
    <3>1. CASE r \in Sent
      BY <1>2, <1>7, <2>1, <3>1 DEF OneOpen, OfPage, NoWork
    <3>. QED BY <1>3, <3>1
  <2>2. work'.state = "call" /\ work'.call = Next1
    BY <1>1
  <2>. QED BY <2>1, <2>2 DEF OneOpen
<1>13. Shows' /\ Session'
  BY <1>1, <1>3, <1>7, ShowingNothing DEF Session
<1>. QED BY <1>7, <1>9, <1>10, <1>11, <1>12, <1>13 DEF Calls

\* A retry sends the same key for the same intent.
LEMMA ResumeKeeps == ASSUME IInv, Resume PROVE IInv'
<1>. USE DEF IInv
<1>1. /\ work.state = "backoff" /\ signedIn /\ Left > 0
      /\ Send(Next1, work.key, work.payload, intent[work.call])
      /\ work' = [work EXCEPT !.state = "call", !.call = Next1]
      /\ UNCHANGED <<signedIn, epoch, attempt, dialog, submitting, shown, list, goal, touched>>
  BY DEF Resume, sessionVars, printVars
<1>2. /\ work # NoWork /\ work.call \in Sent /\ OfPage(work.call) /\ work.epoch = epoch
      /\ asks[work.call] = [key |-> work.key, payload |-> work.payload]
      /\ submitting /\ shown.kind = "none"
  <2>1. work # NoWork
    BY <1>1 DEF NoWork
  <2>. QED BY <1>1, <2>1 DEF Working
<1>3. /\ Next1 \in Requests /\ Next1 = Count + 1 /\ Next1 \notin Sent
      /\ Sent' = Sent \cup {Next1} /\ Count' = Count + 1 /\ Sent' = 1..Count'
      /\ UNCHANGED <<made, current, told>>
      /\ Count \in Nat /\ Next1 \in 0..MaxCalls
  BY <1>1, Sending, SentFinite, Bounds
<1>4. work.key \in Keys /\ work.payload \in Payloads /\ intent[work.call] \in Intents
  BY <1>2 DEF Sorts, ClientsTypeOK, Demand, Sent
<1>5. \A s \in Sent : asks[s].key = work.key <=> intent[s] = intent[work.call]
  BY <1>2 DEF Matched
<1>6. /\ \E q \in Sent : work.key = PageKey(q)
      /\ \E n \in 1..goal.number : intent[work.call] = PageIntent(n)
  BY <1>2, Names, Bounds DEF Named, OfPage
<1>7. /\ Calls'
      /\ crowded' \subseteq Requests
      /\ asks' \in [Requests -> Demand \cup {Nothing}]
      /\ \A r \in Requests : asks'[r] \in Demand <=> r \in Sent'
      /\ call' \in [Requests -> {"none", "open", "closed", "blamed"}]
      /\ intent' \in [Requests -> Intents]
      /\ sentIn' \in [Requests -> 0..2 * MaxSessions]
      /\ \A r \in Sent : /\ asks'[r] = asks[r] /\ intent'[r] = intent[r]
                         /\ sentIn'[r] = sentIn[r] /\ call'[r] = call[r]
      /\ asks'[Next1] = [key |-> work.key, payload |-> work.payload]
      /\ intent'[Next1] = intent[work.call] /\ sentIn'[Next1] = epoch /\ call'[Next1] = "open"
  <2>1. goal.number \in Nat /\ goal' = goal /\ goal.number <= goal.number
    BY <1>1, Bounds DEF Sorts, ClientsTypeOK
  <2>2. Overlapping(intent[work.call]) = {}
    BY <1>1, <1>2 DEF Overlapping, OneOpen, OfPage
  <2>. QED BY <1>1, <1>3, <1>4, <1>5, <1>6, <2>1, <2>2, SendingKeeps
<1>8. /\ work'.call = Next1 /\ work'.state = "call" /\ work'.key = work.key
      /\ work'.payload = work.payload /\ work'.epoch = work.epoch
      /\ work' \in [state : {"none", "call", "backoff"}, payload : Payloads \cup {None},
                    key : Keys \cup {None}, failures : 0..MaxRetries,
                    epoch : 0..2 * MaxSessions, call : 0..MaxCalls]
  BY <1>1, <1>3 DEF Sorts, ClientsTypeOK
<1>9. Sorts'
  <2>1. ClientsTypeOK'
    BY <1>1, <1>3, <1>7, <1>8 DEF Sorts, ClientsTypeOK
  <2>2. goal'.number <= Count'
    BY <1>1, <1>3, Bounds DEF Sorts, ClientsTypeOK
  <2>. QED BY <1>1, <1>3, <1>7, <2>1, <2>2 DEF Sorts
<1>10. GoalHeld'
  <2>1. ASSUME goal.open, NEW r \in Sent'
        PROVE  asks'[r].key = attempt.key <=> intent'[r] = PageIntent(goal.number)
    BY <1>2, <1>3, <1>7, <2>1 DEF GoalHeld
  <2>. QED BY <1>1, <1>3, <2>1 DEF GoalHeld
<1>11. Working'
  <2>1. (OfPage(work.call))'
    BY <1>2, <1>7, <1>8 DEF OfPage
  <2>. QED BY <1>1, <1>2, <1>3, <1>7, <1>8, <2>1 DEF Working, Sorts, ClientsTypeOK
<1>12. OneOpen'
  <2>1. ASSUME NEW r \in Sent', call'[r] = "open", OfPage(r)' PROVE r = Next1
    <3>1. CASE r \in Sent
      BY <1>1, <1>7, <2>1, <3>1 DEF OneOpen, OfPage
    <3>. QED BY <1>3, <3>1
  <2>. QED BY <1>8, <2>1 DEF OneOpen
<1>13. Shows' /\ Session'
  BY <1>1, <1>2, <1>3, <1>7 DEF Shows, Session
<1>. QED BY <1>7, <1>9, <1>10, <1>11, <1>12, <1>13 DEF Calls

\* The tools derive key and intent from the content.
LEMMA PrintDocumentKeeps == ASSUME IInv, NEW p \in Payloads, PrintDocument(p) PROVE IInv'
<1>. USE DEF IInv
<1>1. /\ Left > 0 /\ Send(Next1, AgentKey(p), p, AgentIntent(p))
      /\ UNCHANGED <<signedIn, epoch, attempt, dialog, submitting, shown, list, goal,
                     work, touched>>
  BY DEF PrintDocument, sessionVars, printVars
<1>2. /\ Next1 \in Requests /\ Next1 = Count + 1 /\ Next1 \notin Sent
      /\ Sent' = Sent \cup {Next1} /\ Count' = Count + 1 /\ Sent' = 1..Count'
      /\ UNCHANGED <<made, current, told>>
      /\ Count \in Nat
  BY <1>1, Sending, SentFinite
<1>3. AgentKey(p) \in Keys /\ AgentIntent(p) \in Intents
  BY Bounds DEF AgentIntent, Intents
<1>4. \A s \in Sent : asks[s].key = AgentKey(p) <=> intent[s] = AgentIntent(p)
  <2>1. ASSUME NEW s \in Sent PROVE asks[s].key = AgentKey(p) <=> intent[s] = AgentIntent(p)
    <3>1. CASE /\ \E q \in Sent : asks[s].key = PageKey(q)
               /\ \E n \in 1..goal.number : intent[s] = PageIntent(n)
      BY <3>1, Names, Bounds
    <3>2. CASE \E q \in Payloads : asks[s].key = AgentKey(q) /\ intent[s] = AgentIntent(q)
      BY <3>2, Names
    <3>. QED BY <3>1, <3>2 DEF Named
  <2>. QED BY <2>1
<1>5. /\ Calls'
      /\ crowded' \subseteq Requests
      /\ asks' \in [Requests -> Demand \cup {Nothing}]
      /\ \A r \in Requests : asks'[r] \in Demand <=> r \in Sent'
      /\ call' \in [Requests -> {"none", "open", "closed", "blamed"}]
      /\ intent' \in [Requests -> Intents]
      /\ sentIn' \in [Requests -> 0..2 * MaxSessions]
      /\ \A r \in Sent : /\ asks'[r] = asks[r] /\ intent'[r] = intent[r]
                         /\ sentIn'[r] = sentIn[r] /\ call'[r] = call[r]
      /\ asks'[Next1] = [key |-> AgentKey(p), payload |-> p]
      /\ intent'[Next1] = AgentIntent(p) /\ sentIn'[Next1] = epoch /\ call'[Next1] = "open"
  <2>1. goal.number \in Nat /\ goal' = goal /\ goal.number <= goal.number
    BY <1>1, Bounds DEF Sorts, ClientsTypeOK
  <2>2. AgentIntent(p).content # None
    BY Names, Bounds
  <2>. QED BY <1>1, <1>3, <1>4, <2>1, <2>2, SendingKeeps
<1>6. Sorts'
  <2>1. ClientsTypeOK'
    BY <1>1, <1>2, <1>5 DEF Sorts, ClientsTypeOK
  <2>2. goal'.number <= Count'
    BY <1>1, <1>2, Bounds DEF Sorts, ClientsTypeOK
  <2>. QED BY <1>1, <1>2, <1>5, <2>1, <2>2 DEF Sorts
<1>7. GoalHeld'
  <2>1. ASSUME goal.open, NEW r \in Sent'
        PROVE  asks'[r].key = attempt.key <=> intent'[r] = PageIntent(goal.number)
    <3>1. CASE r \in Sent
      BY <1>5, <2>1, <3>1 DEF GoalHeld
    <3>2. CASE r = Next1
      <4>1. \E q \in Sent : attempt.key = PageKey(q)
        BY <2>1 DEF GoalHeld
      <4>2. /\ asks'[r].key = AgentKey(p) /\ intent'[r] = AgentIntent(p)
            /\ PageIntent(goal.number) # AgentIntent(p)
        BY <1>5, <3>2, Names, Bounds
      <4>3. attempt.key # AgentKey(p)
        BY <4>1, Names, Bounds
      <4>. QED BY <4>2, <4>3
    <3>. QED BY <1>2, <3>1, <3>2
  <2>. QED BY <1>1, <1>2, <2>1 DEF GoalHeld
<1>8. Working'
  <2>1. work # NoWork => (OfPage(work.call))'
    BY <1>1, <1>5 DEF Working, OfPage
  <2>. QED BY <1>1, <1>2, <1>5, <2>1 DEF Working
<1>9. OneOpen'
  <2>1. ASSUME NEW r \in Sent', call'[r] = "open", OfPage(r)' PROVE r \in Sent
    BY <1>2, <1>5, <2>1, Names, Bounds DEF OfPage
  <2>. QED BY <1>1, <1>5, <2>1 DEF OneOpen, OfPage
<1>10. Shows'
  <2>1. ASSUME NEW s \in Sent', intent'[s] = shown.intent, shown.intent.content = None
        PROVE  s \in Sent
    BY <1>2, <1>5, <2>1, Names, Bounds
  <2>2. ASSUME NEW s \in Sent, Past(s) PROVE Past(s)'
    <3>1. asks'[s] = asks[s] /\ asks[s].key \in Keys
      BY <1>5 DEF Sorts, Demand, Sent
    <3>2. UNCHANGED <<trying, current, over>>
      BY <1>1, <1>3, Sending
    <3>. QED BY <2>2, <3>1, <3>2 DEF Past
  <2>3. \A s \in Sent : intent'[s] = intent[s]
    BY <1>5
  <2>. QED BY <1>1, <1>2, <2>1, <2>2, <2>3 DEF Shows, Served, Parts
<1>11. Session'
  BY <1>1, <1>2, <1>5 DEF Session
<1>. QED BY <1>5, <1>6, <1>7, <1>8, <1>9, <1>10, <1>11 DEF Calls
-----------------------------------------------------------------------------
(* Steps of the service.                                                   *)

\* What the clients know of themselves stands; what is past stays past.
LEMMA ServiceFrame ==
    ASSUME IInv, UNCHANGED clientVars, asks' = asks, made \subseteq made',
           told' \in [Requests -> Requests \cup {None}],
           current' \in [Keys -> SUBSET Requests],
           Served', Alone', \A s \in Sent : Past(s) => Past(s)'
    PROVE  IInv'
<1>. USE DEF IInv
<1>1. UNCHANGED <<call, crowded, intent, sentIn, signedIn, epoch, attempt, dialog, submitting,
                  shown, list, goal, work, touched>>
  BY DEF clientVars, sessionVars, printVars
<1>2. Sent' = Sent /\ Count' = Count
  BY <1>1 DEF Sent, Count
<1>3. ClientsTypeOK'
  BY <1>1 DEF Sorts, ClientsTypeOK
<1>4. Sorts'
  BY <1>1, <1>2, <1>3 DEF Sorts
<1>5. Quiet' /\ Matched' /\ Named' /\ GoalHeld'
  BY <1>1, <1>2 DEF Quiet, OfPage, Matched, Named, GoalHeld
<1>6. Working' /\ OneOpen' /\ Session'
  BY <1>1, <1>2 DEF Working, OneOpen, OfPage, Session
<1>7. Shows'
  BY <1>1, <1>2 DEF Shows
<1>. QED BY <1>4, <1>5, <1>6, <1>7

LEMMA CallsKnown ==
    ASSUME IInv
    PROVE  /\ \A s \in Sent : s \in Requests /\ asks[s].key \in Keys /\ s \in Nat
           /\ current \in [Keys -> SUBSET Requests]
           /\ told \in [Requests -> Requests \cup {None}]
           /\ \A s \in trying : current[asks[s].key] = {}
  BY Bounds DEF IInv, Sorts, Demand, Sent, Served, OneTry

LEMMA MakeJobKeeps == ASSUME IInv, NEW r \in Requests, MakeJob(r), UNCHANGED clientVars PROVE IInv'
<1>. USE DEF IInv
<1>k. PICK k : k = asks[r].key
  OBVIOUS
<1>1. /\ r \in trying /\ r \in Sent /\ k \in Keys
      /\ trying' = trying \ {r} /\ made' = made \cup {r}
      /\ current[k] = {} /\ current' = [current EXCEPT ![k] = {r}]
      /\ UNCHANGED <<asks, refused, kept, told, denied, over, call, crowded, intent>>
  BY <1>k, CallsKnown DEF MakeJob, answerVars, Served, Parts, clientVars
<1>2. Sent' = Sent
  BY <1>1 DEF Sent
<1>3. /\ current'[k] = {r} /\ \A q \in Keys \ {k} : current'[q] = current[q]
      /\ current' \in [Keys -> SUBSET Requests]
  BY <1>1, CallsKnown
<1>4. Parts'
  BY <1>1, <1>2 DEF Served, Parts
<1>5. Standing'
  <2>1. ASSUME NEW q \in Keys, NEW j \in current'[q]
        PROVE  j \in made' /\ asks[j].key = q /\ current'[q] = {j}
    BY <1>k, <1>1, <1>3, <2>1 DEF Served, Standing
  <2>. QED BY <1>1, <2>1 DEF Standing
<1>6. OneTry'
  <2>1. ASSUME NEW s \in trying \ {r}
        PROVE  asks[s].key \in Keys /\ asks[s].key # k
    BY <1>k, <1>1, <2>1, CallsKnown DEF Served, Parts, OneTry
  <2>. QED BY <1>1, <1>3, <2>1 DEF Served, OneTry
<1>7. Answers' /\ HungUp'
  BY <1>1, <1>2 DEF Served, Answers, HungUp
<1>8. ASSUME NEW s \in Sent, Past(s) PROVE Past(s)'
  <2>1. s # r
    BY <1>1, <1>8 DEF Past
  <2>2. asks[s].key \in Keys
    BY CallsKnown
  <2>. QED BY <1>1, <1>3, <1>8, <2>1, <2>2 DEF Past
<1>9. Alone'
  <2>1. (trying' \cup refused') \ crowded' \subseteq (trying \cup refused) \ crowded
    BY <1>1
  <2>. QED BY <1>1, <1>2, <1>8, <2>1 DEF Alone
<1>. QED BY <1>1, <1>3, <1>4, <1>5, <1>6, <1>7, <1>8, <1>9, CallsKnown, ServiceFrame DEF Served

LEMMA RefuseKeeps == ASSUME IInv, NEW r \in Requests, Refuse(r), UNCHANGED clientVars PROVE IInv'
<1>. USE DEF IInv
<1>1. /\ r \in trying /\ trying' = trying \ {r} /\ refused' = refused \cup {r}
      /\ UNCHANGED <<asks, made, current, told, denied, over, call, crowded, intent>>
  BY DEF Refuse, keyVars, answerVars, clientVars
<1>2. Sent' = Sent
  BY <1>1 DEF Sent
<1>3. Served'
  BY <1>1, <1>2 DEF Served, Parts, Standing, OneTry, Answers, HungUp
<1>4. Alone' /\ \A s \in Sent : Past(s) => Past(s)'
  BY <1>1, <1>2 DEF Alone, Past
<1>. QED BY <1>1, <1>3, <1>4, CallsKnown, ServiceFrame

\* A call is answered.
LEMMA AnswerKeeps ==
    ASSUME IInv, NEW r \in Requests, Open(r), UNCHANGED clientVars,
           UNCHANGED <<asks, trying, refused, made>>, over' = over \cup {r},
           denied' \subseteq denied \cup (refused \cap {r}),
           current' \in [Keys -> SUBSET Requests],
           \A k \in Keys : current'[k] = {} \/ current'[k] = current[k],
           \/ told' = told
           \/ \E j \in Requests : j \in made /\ asks[j] = asks[r] /\ told' = [told EXCEPT ![r] = j]
    PROVE  IInv'
<1>. USE DEF IInv
<1>1. UNCHANGED <<call, crowded, intent>> /\ Sent' = Sent /\ r \in Sent
  BY Bounds DEF clientVars, Sent, Open, Sorts
<1>2. told' \in [Requests -> Requests \cup {None}]
  BY CallsKnown
<1>3. Parts' /\ HungUp'
  BY <1>1 DEF Served, Parts, HungUp
<1>4. Standing' /\ OneTry'
  <2>1. Standing'
    BY DEF Served, Standing
  <2>2. OneTry'
    BY <1>1, CallsKnown DEF Served, Parts, OneTry
  <2>. QED BY <2>1, <2>2
<1>5. Answers'
  BY CallsKnown DEF Served, Answers
<1>6. \A s \in Sent : Past(s) => Past(s)'
  BY CallsKnown DEF Past
<1>7. Alone'
  BY <1>1, <1>6 DEF Alone
<1>. QED BY <1>2, <1>3, <1>4, <1>5, <1>6, <1>7, ServiceFrame DEF Served

\* A call is tried, or keys retire and nothing else.
LEMMA TryKeeps ==
    ASSUME IInv, NEW S, Retire(S), UNCHANGED clientVars,
           UNCHANGED <<asks, refused, made, told, denied, over>>,
           trying' = trying \/ \E r \in Requests : Try(r, S)
    PROVE  IInv'
<1>. USE DEF IInv
<1>1. UNCHANGED <<call, crowded, intent>> /\ Sent' = Sent
  BY DEF clientVars, Sent
<1>2. /\ \A k \in Keys : current'[k] = IF k \in S THEN {} ELSE current[k]
      /\ current' \in [Keys -> SUBSET Requests]
  BY CallsKnown DEF Retire
<1>3. Standing' /\ Answers' /\ HungUp'
  BY <1>1, <1>2 DEF Served, Standing, Answers, HungUp
<1>4. CASE trying' = trying
  <2>1. Parts'
    BY <1>1, <1>4 DEF Served, Parts
  <2>2. OneTry'
    BY <1>2, <1>4, CallsKnown DEF Served, Parts, OneTry
  <2>3. \A s \in Sent : Past(s) => Past(s)'
    BY <1>2, <1>4, CallsKnown DEF Past
  <2>4. Alone'
    BY <1>1, <1>4, <2>3 DEF Alone
  <2>. QED BY <1>2, <1>3, <2>1, <2>2, <2>3, <2>4, CallsKnown, ServiceFrame DEF Served
<1>5. ASSUME NEW r \in Requests, Try(r, S) PROVE IInv'
  <2>1. /\ r \notin over /\ r \notin trying \cup refused \cup made
        /\ r \in Sent /\ asks[r].key \in Keys
        /\ current[asks[r].key] = {} \/ asks[r].key \in S
        /\ \A s \in trying : asks[s].key # asks[r].key
        /\ trying' = trying \cup {r}
    BY <1>5, Bounds DEF Try, Open, Sorts
  <2>2. Parts'
    BY <1>1, <2>1 DEF Served, Parts
  <2>3. OneTry'
    <3>1. \A s \in trying' : current'[asks[s].key] = {}
      BY <1>2, <2>1, CallsKnown DEF Served, Parts
    <3>2. \A s, q \in trying' : asks[s].key = asks[q].key => s = q
      BY <2>1 DEF Served, OneTry
    <3>. QED BY <3>1, <3>2 DEF OneTry
  <2>4. \A s \in Sent : Past(s) => Past(s)'
    BY <1>2, <2>1, CallsKnown DEF Past
  <2>5. ASSUME r \notin crowded, NEW s \in Sent, asks[s].key = asks[r].key, s < r
        PROVE  Past(s)'
    <3>1. call[r] = "open" /\ s # r /\ intent[s] = intent[r]
      BY <2>1, <2>5, CallsKnown DEF Served, HungUp, Matched
    <3>2. s \in over
      BY <2>1, <2>5, <3>1 DEF Served, HungUp, Quiet
    <3>3. s \notin trying' /\ current'[asks[s].key] = {}
      BY <1>2, <2>1, <2>5, <3>1
    <3>. QED BY <3>2, <3>3 DEF Past
  <2>6. Alone'
    <3>1. ASSUME NEW q \in (trying' \cup refused) \ crowded, NEW s \in Sent,
                 asks[s].key = asks[q].key, s < q
          PROVE  Past(s)'
      BY <2>1, <2>4, <2>5, <3>1 DEF Alone
    <3>. QED BY <1>1, <3>1 DEF Alone
  <2>. QED BY <1>2, <1>3, <2>2, <2>3, <2>4, <2>6, CallsKnown, ServiceFrame DEF Served
<1>. QED BY <1>4, <1>5

LEMMA ServiceKeeps == ASSUME IInv, Service, UNCHANGED clientVars PROVE IInv'
<1>1. CASE \E r \in Requests : MakeJob(r) \/ Refuse(r)
  BY <1>1, MakeJobKeeps, RefuseKeeps
<1>2. ASSUME NEW r \in Requests, Deny(r) PROVE IInv'
  <2>1. /\ Open(r) /\ UNCHANGED <<asks, trying, refused, made, current, told>>
        /\ over' = over \cup {r} /\ denied' \subseteq denied \cup (refused \cap {r})
    BY <1>2 DEF Deny, tryVars, keyVars
  <2>. QED BY <2>1, CallsKnown, AnswerKeeps
<1>3. ASSUME NEW k \in Keys, Keep(k) PROVE IInv'
  <2>1. UNCHANGED <<asks, trying, refused, made, current, told, denied, over, call, crowded, intent>>
    BY <1>3 DEF Keep, tryVars, answerVars, clientVars
  <2>2. Sent' = Sent
    BY <2>1 DEF Sent
  <2>3. Served' /\ Alone' /\ \A s \in Sent : Past(s) => Past(s)'
    BY <2>1, <2>2 DEF IInv, Served, Parts, Standing, OneTry, Answers, HungUp, Alone, Past
  <2>. QED BY <2>1, <2>3, CallsKnown, ServiceFrame
<1>4. CASE Decide
  <2>1. PICK S \in SUBSET kept :
           /\ Retire(S)
           /\ \/ UNCHANGED <<trying, answerVars>>
              \/ \E r \in Requests : Try(r, S) /\ UNCHANGED answerVars
              \/ /\ \E r \in Requests : Ends(r) \/ \E j \in Requests : Tell(r, j)
                 /\ UNCHANGED trying
           /\ UNCHANGED <<asks, refused, made>>
    BY <1>4 DEF Decide
  <2>2. CASE UNCHANGED <<trying, answerVars>> \/ \E r \in Requests : Try(r, S) /\ UNCHANGED answerVars
    BY <2>1, <2>2, TryKeeps DEF answerVars
  <2>3. ASSUME NEW r \in Requests, Ends(r) \/ (\E j \in Requests : Tell(r, j)), UNCHANGED trying
        PROVE  IInv'
    <3>1. /\ \A k \in Keys : current'[k] = {} \/ current'[k] = current[k]
          /\ current' \in [Keys -> SUBSET Requests]
      BY <2>1, CallsKnown DEF Retire
    <3>2. /\ Open(r) /\ over' = over \cup {r} /\ denied' = denied
          /\ \/ told' = told
             \/ \E j \in Requests : j \in made /\ asks[j] = asks[r] /\ told' = [told EXCEPT ![r] = j]
      BY <2>3 DEF Ends, Tell
    <3>. QED BY <2>1, <2>3, <3>1, <3>2, AnswerKeeps
  <2>. QED BY <2>1, <2>2, <2>3
<1>. QED BY <1>1, <1>2, <1>3, <1>4 DEF Service
-----------------------------------------------------------------------------
(* Steps that end a call.                                                  *)

\* The page's call has ended, and with it, or until its retry, nothing of the page
\* is open.
LEMMA PageEnding ==
    ASSUME IInv, work.state = "call", call' = [call EXCEPT ![work.call] = "closed"],
           UNCHANGED <<crowded, intent>>, goal'.number = goal.number,
           \/ HangsUp(work.call) \/ Leave(work.call)
           \/ (\E e : Reads(work.call, e)) \/ \E j : ReadsJob(work.call, j)
    PROVE  /\ work # NoWork /\ work.call \in Sent /\ work.call \in Requests
           /\ UNCHANGED <<asks, trying, refused, made, current, told, denied>>
           /\ over' = over \cup {work.call}
           /\ Calls'
           /\ Sent' = Sent /\ Count' = Count
           /\ call' \in [Requests -> {"none", "open", "closed", "blamed"}]
           /\ OneOpen'
<1>. USE DEF IInv
<1>1. work # NoWork
  BY DEF NoWork
<1>2. work.call \in Sent /\ work.call \in Requests
  BY <1>1 DEF Working, Sent
<1>3. /\ Sent' = Sent /\ Count' = Count
      /\ call' \in [Requests -> {"none", "open", "closed", "blamed"}]
      /\ \A s \in Requests : call'[s] = "open" => call[s] = "open" /\ s # work.call
  BY <1>2, Ending
<1>4. ASSUME NEW s \in Sent', call'[s] = "open", OfPage(s)' PROVE FALSE
  <2>1. s \in Sent /\ s \in Requests /\ OfPage(s) /\ call[s] = "open" /\ s # work.call
    BY <1>3, <1>4 DEF Sent, OfPage
  <2>. QED BY <2>1 DEF OneOpen
<1>5. /\ UNCHANGED <<asks, trying, refused, made, current, told, denied>>
      /\ over' = over \cup {work.call}
  BY <1>2, Hanging
<1>6. Calls'
  BY <1>2, <1>5, CallEnds DEF Calls
<1>. QED BY <1>1, <1>2, <1>3, <1>4, <1>5, <1>6 DEF OneOpen

LEMMA PageToldKeeps == ASSUME IInv, NEW j \in Requests, PageTold(j) PROVE IInv'
<1>. USE DEF IInv
<1>t. /\ goal \in [number : 0..MaxCalls, payload : Payloads \cup {None}, open : BOOLEAN]
      /\ attempt \in Attempts \cup {None} /\ intent \in [Requests -> Intents]
      /\ list \subseteq Requests
  BY DEF Sorts, ClientsTypeOK
<1>1. /\ work.state = "call" /\ ReadsJob(work.call, j)
      /\ call' = [call EXCEPT ![work.call] = "closed"] /\ work' = NoWork
      /\ UNCHANGED <<crowded, intent, sentIn, signedIn, epoch, touched>>
      /\ goal'.number = goal.number
  BY <1>t DEF PageTold, WriteSuccess, printVars, sessionVars
<1>2. /\ work # NoWork /\ work.call \in Sent /\ work.call \in Requests
      /\ UNCHANGED <<asks, trying, refused, made, current, told, denied>>
      /\ over' = over \cup {work.call}
      /\ Sent' = Sent /\ Count' = Count /\ OneOpen' /\ Calls'
      /\ call' \in [Requests -> {"none", "open", "closed", "blamed"}]
  BY <1>1, PageEnding
<1>j. j \in made /\ asks[j] = asks[work.call]
  BY <1>1, <1>2 DEF ReadsJob, Served, Answers
<1>3. CASE IsCurrent
  <2>1. /\ list' = list \cup {work.call} /\ attempt' = Settled /\ dialog' = None
        /\ submitting' = FALSE /\ goal' = [goal EXCEPT !.open = FALSE]
        /\ shown' = [kind |-> "success", intent |-> intent[work.call], job |-> j, retryable |-> FALSE]
    BY <1>3 DEF PageTold, WriteSuccess
  <2>2. signedIn /\ sentIn[work.call] = epoch
    BY <1>2, <1>3 DEF IsCurrent, Working
  <2>3. /\ goal' \in [number : 0..MaxCalls, payload : Payloads \cup {None}, open : BOOLEAN]
        /\ goal'.number = goal.number /\ ~goal'.open
    BY <1>t, <2>1
  <2>4. attempt' \in Attempts \cup {None} /\ GoalHeld'
    <3>1. CASE attempt = None
      <4>1. attempt' = None
        BY <2>1, <3>1 DEF Settled
      <4>2. GoalHeld'
        BY <2>3, <4>1 DEF GoalHeld
      <4>. QED BY <4>1, <4>2
    <3>2. CASE attempt # None
      <4>1. attempt' = [attempt EXCEPT !.settled = TRUE] /\ attempt \in Attempts
        BY <1>t, <2>1, <3>2 DEF Settled
      <4>2. attempt' \in Attempts /\ attempt'.settled /\ attempt'.key = attempt.key
        BY <4>1 DEF Attempts
      <4>3. GoalHeld'
        BY <1>2, <2>3, <3>2, <4>2 DEF GoalHeld
      <4>. QED BY <4>2, <4>3
    <3>. QED BY <3>1, <3>2
  <2>7. shown' \in [kind : {"none", "success", "error"}, intent : Intents,
                    job : 0..MaxCalls, retryable : BOOLEAN]
    BY <1>t, <1>2, <2>1, Bounds
  <2>8. ClientsTypeOK'
    BY <1>1, <1>2, <2>1, <2>3, <2>4, <2>7, NoWorkType DEF Sorts, ClientsTypeOK
  <2>9. Sorts'
    BY <1>1, <1>2, <2>3, <2>8 DEF Sorts
  <2>11. intent[j] = intent[work.call]
    BY <1>2, <1>j DEF Matched, Served, Parts
  <2>12. Shows'
    BY <1>1, <1>2, <1>j, <2>1, <2>11 DEF Shows
  <2>13. Session' /\ Working'
    BY <1>1, <1>2, <2>1, <2>2 DEF Session, Working
  <2>. QED BY <1>2, <2>4, <2>9, <2>12, <2>13 DEF Calls
<1>4. CASE ~IsCurrent
  <2>1. UNCHANGED <<attempt, dialog, submitting, shown, list, goal>>
    BY <1>4 DEF PageTold, printVars
  <2>2. ClientsTypeOK'
    BY <1>1, <1>2, <2>1, NoWorkType DEF Sorts, ClientsTypeOK
  <2>3. Sorts'
    BY <1>1, <1>2, <2>1, <2>2 DEF Sorts
  <2>4. Shows'
    BY <1>1, <1>2, <2>1, ShowsStand
  <2>5. GoalHeld' /\ Session' /\ Working'
    BY <1>1, <1>2, <2>1 DEF GoalHeld, Session, Working
  <2>. QED BY <1>2, <2>3, <2>4, <2>5 DEF Calls
<1>. QED BY <1>3, <1>4

LEMMA PageFailsKeeps == ASSUME IInv, NEW e, PageFails(e) PROVE IInv'
<1>. USE DEF IInv
<1>1. /\ work.state = "call" /\ Reads(work.call, e)
      /\ call' = [call EXCEPT ![work.call] = "closed"]
      /\ UNCHANGED <<crowded, intent, sentIn, signedIn, epoch, goal, touched>>
  BY DEF PageFails, sessionVars, printVars
<1>2. /\ work # NoWork /\ work.call \in Sent /\ work.call \in Requests
      /\ UNCHANGED <<asks, trying, refused, made, current, told, denied>>
      /\ over' = over \cup {work.call}
      /\ Sent' = Sent /\ Count' = Count /\ OneOpen' /\ Calls'
      /\ call' \in [Requests -> {"none", "open", "closed", "blamed"}]
  BY <1>1, PageEnding
<1>4. /\ OfPage(work.call) /\ asks[work.call] = [key |-> work.key, payload |-> work.payload]
      /\ sentIn[work.call] = work.epoch /\ work.epoch <= epoch
      /\ signedIn <=> work.epoch = epoch
      /\ signedIn => submitting
      /\ shown.kind = "none"
  BY <1>2 DEF Working
<1>5. /\ call[work.call] = "open" /\ work.call \notin crowded
  BY <1>1, <1>2, <1>4 DEF Working, Quiet
<1>6. CASE work' = [work EXCEPT !.state = "backoff", !.failures = @ + 1] /\ MayRetry(e)
           /\ UNCHANGED printVars
  <2>1. /\ work'.state = "backoff" /\ work'.call = work.call /\ work'.key = work.key
        /\ work'.payload = work.payload /\ work'.epoch = work.epoch
        /\ work' \in [state : {"none", "call", "backoff"}, payload : Payloads \cup {None},
                      key : Keys \cup {None}, failures : 0..MaxRetries,
                      epoch : 0..2 * MaxSessions, call : 0..MaxCalls]
    <3>1. work.failures < MaxRetries
      BY <1>6 DEF MayRetry
    <3>2. work \in [state : {"none", "call", "backoff"}, payload : Payloads \cup {None},
                    key : Keys \cup {None}, failures : 0..MaxRetries,
                    epoch : 0..2 * MaxSessions, call : 0..MaxCalls]
      BY DEF Sorts, ClientsTypeOK
    <3>3. work.failures + 1 \in 0..MaxRetries
      BY <3>1, <3>2, Bounds
    <3>. QED BY <1>6, <3>2, <3>3
  <2>2. UNCHANGED <<attempt, dialog, submitting, shown, list, goal>>
    BY <1>6 DEF printVars
  <2>3. ClientsTypeOK'
    BY <1>1, <1>2, <2>1, <2>2 DEF Sorts, ClientsTypeOK
  <2>4. Sorts' /\ GoalHeld'
    BY <1>1, <1>2, <2>2, <2>3 DEF Sorts, GoalHeld
  <2>5. Working'
    BY <1>1, <1>2, <1>4, <2>1, <2>2 DEF Working, OfPage
  <2>6. Shows' /\ Session'
    BY <1>1, <1>2, <2>2, ShowsStand DEF Session
  <2>. QED BY <1>2, <2>4, <2>5, <2>6 DEF Calls
<1>7. CASE work' = NoWork /\ IsCurrent /\ ~MayRetry(e) /\ submitting' = FALSE
           /\ UNCHANGED <<attempt, dialog, list, goal>>
           /\ shown' = [kind |-> "error", intent |-> intent[work.call], job |-> 0,
                        retryable |-> SendsAgain(e)]
  <2>1. /\ shown'.kind = "error" /\ shown'.intent = intent[work.call]
        /\ shown' \in [kind : {"none", "success", "error"}, intent : Intents,
                       job : 0..MaxCalls, retryable : BOOLEAN]
    <3>1. SendsAgain(e) \in BOOLEAN
      BY DEF SendsAgain, IsRetryable
    <3>2. intent[work.call] \in Intents /\ 0 \in 0..MaxCalls
      BY <1>2, Bounds DEF Sorts, ClientsTypeOK
    <3>3. PICK again \in BOOLEAN : again = SendsAgain(e)
      BY <3>1
    <3>4. shown' = [kind |-> "error", intent |-> intent[work.call], job |-> 0, retryable |-> again]
      BY <1>7, <3>3
    <3>. QED BY <3>2, <3>4
  <2>2. shown'.retryable <=> SendsAgain(e)
    BY <1>7, Zenon
  <2>3. ClientsTypeOK'
    BY <1>1, <1>2, <1>7, <2>1, NoWorkType DEF Sorts, ClientsTypeOK
  <2>4. Sorts' /\ GoalHeld'
    BY <1>1, <1>2, <1>7, <2>3 DEF Sorts, GoalHeld
  <2>5. ASSUME ~shown'.retryable, NEW s \in Sent, intent[s] = intent[work.call] PROVE Past(s)'
    <3>1. work.call \in denied
      BY <1>1, <2>2, <2>5, FinalIsRefusal
    <3>2. /\ work.call \in refused /\ work.call \in over /\ work.call \notin trying
          /\ work.call \notin made
      BY <3>1 DEF Served, Parts
    <3>3. Past(work.call)
      BY <1>2, <3>2, CallsKnown DEF Past, Served, Standing
    <3>4. s # work.call => s < work.call
      BY <1>2, <1>5, <2>5 DEF Quiet
    <3>5. s # work.call => Past(s)
      BY <1>2, <1>5, <2>5, <3>2, <3>4 DEF Alone, Matched
    <3>6. Past(s)
      BY <3>3, <3>5
    <3>. QED BY <1>2, <3>6 DEF Past
  <2>6. Shows'
    BY <1>1, <1>2, <1>4, <2>1, <2>5 DEF Shows, OfPage
  <2>7. Session' /\ Working'
    BY <1>1, <1>2, <1>7 DEF Session, Working
  <2>. QED BY <1>2, <2>4, <2>6, <2>7 DEF Calls
<1>8. CASE work' = NoWork /\ UNCHANGED printVars
  <2>1. UNCHANGED <<attempt, dialog, submitting, shown, list, goal>>
    BY <1>8 DEF printVars
  <2>2. ClientsTypeOK'
    BY <1>1, <1>2, <1>8, <2>1, NoWorkType DEF Sorts, ClientsTypeOK
  <2>3. Sorts' /\ GoalHeld'
    BY <1>1, <1>2, <2>1, <2>2 DEF Sorts, GoalHeld
  <2>4. Shows' /\ Session' /\ Working'
    BY <1>1, <1>2, <1>4, <1>8, <2>1, ShowsStand DEF Session, Working
  <2>. QED BY <1>2, <2>3, <2>4 DEF Calls
<1>. QED BY <1>6, <1>7, <1>8 DEF PageFails

LEMMA PageUnauthorizedKeeps == ASSUME IInv, PageUnauthorized PROVE IInv'
<1>. USE DEF IInv
<1>1. /\ work.state = "call" /\ Leave(work.call)
      /\ call' = [call EXCEPT ![work.call] = "closed"] /\ work' = NoWork
      /\ UNCHANGED <<crowded, intent, sentIn, touched>>
  BY DEF PageUnauthorized
<1>0. IsCurrent => signedIn /\ Forgotten
  BY <1>1 DEF IsCurrent, Working, PageUnauthorized, NoWork
<1>2. /\ work # NoWork /\ work.call \in Sent /\ work.call \in Requests
      /\ UNCHANGED <<asks, trying, refused, made, current, told, denied>>
      /\ over' = over \cup {work.call}
      /\ Sent' = Sent /\ Count' = Count /\ OneOpen' /\ Calls'
      /\ call' \in [Requests -> {"none", "open", "closed", "blamed"}]
  <2>1. goal'.number = goal.number
    BY <1>0, Forgetting DEF PageUnauthorized, printVars
  <2>. QED BY <1>1, <2>1, PageEnding
<1>3. Working'
  BY <1>1 DEF Working
<1>4. CASE IsCurrent
  <2>1. signedIn /\ Forgotten
    BY <1>0, <1>4
  <2>2. ClientsTypeOK'
    BY <1>1, <1>2, <2>1, Forgetting, NoEndType, NoWorkType DEF Sorts, ClientsTypeOK, Forgotten
  <2>3. Sorts'
    BY <1>1, <1>2, <2>1, <2>2, Forgetting DEF Sorts
  <2>. QED BY <1>2, <1>3, <2>1, <2>3, Forgetting DEF Calls
<1>5. CASE ~IsCurrent
  <2>1. UNCHANGED <<signedIn, epoch, attempt, dialog, submitting, shown, list, goal>>
    BY <1>5 DEF PageUnauthorized, sessionVars, printVars
  <2>2. ClientsTypeOK'
    BY <1>1, <1>2, <2>1, NoWorkType DEF Sorts, ClientsTypeOK
  <2>3. Sorts' /\ GoalHeld'
    BY <1>1, <1>2, <2>1, <2>2 DEF Sorts, GoalHeld
  <2>4. Shows' /\ Session'
    BY <1>1, <1>2, <2>1, ShowsStand DEF Session
  <2>. QED BY <1>2, <1>3, <2>3, <2>4 DEF Calls
<1>. QED BY <1>4, <1>5

\* A call of the agent ends, with an answer or an error.
LEMMA AgentKeeps ==
    ASSUME IInv, NEW r \in Requests,
           (\E j \in Requests : AgentTold(r, j)) \/ (\E e : AgentFails(r, e))
    PROVE  IInv'
<1>. USE DEF IInv
<1>c. PICK c \in {"closed", "blamed"} : call' = [call EXCEPT ![r] = c]
  BY DEF AgentTold, AgentFails
<1>1. /\ r \in Sent /\ call[r] = "open" /\ ~OfPage(r)
      /\ (\E e : Reads(r, e)) \/ (\E j : ReadsJob(r, j))
      /\ UNCHANGED <<crowded, intent, sentIn, signedIn, epoch, attempt, dialog, submitting,
                     shown, list, goal, work, touched>>
  BY DEF AgentTold, AgentFails, OfAgent, OfPage, Sent, sessionVars, printVars
<1>2. /\ Sent' = Sent /\ Count' = Count
      /\ call' \in [Requests -> {"none", "open", "closed", "blamed"}]
      /\ \A s \in Requests : call'[s] = "open" => call[s] = "open" /\ s # r
  BY <1>c, <1>1, Ending
<1>3. /\ UNCHANGED <<asks, trying, refused, made, current, told, denied>>
      /\ over' = over \cup {r}
  BY <1>1, Hanging
<1>4. ClientsTypeOK'
  BY <1>1, <1>2, <1>3 DEF Sorts, ClientsTypeOK
<1>5. Sorts' /\ GoalHeld'
  BY <1>1, <1>2, <1>3, <1>4 DEF Sorts, GoalHeld
<1>6. Calls'
  BY <1>c, <1>1, <1>3, CallEnds DEF Calls
<1>7. OneOpen'
  BY <1>1, <1>2 DEF OneOpen, OfPage, Sent
<1>8. Shows'
  BY <1>1, <1>2, <1>3, ShowsStand
<1>9. Working'
  <2>1. work # NoWork => work.call # r /\ work.call \in Requests /\ call'[work.call] = call[work.call]
    BY <1>c, <1>1 DEF Working, Sent, Sorts, ClientsTypeOK
  <2>. QED BY <1>1, <1>2, <1>3, <2>1 DEF Working, OfPage
<1>10. Session'
  BY <1>1, <1>2 DEF Session
<1>. QED BY <1>5, <1>6, <1>7, <1>8, <1>9, <1>10 DEF Calls
-----------------------------------------------------------------------------
(* The theorems.                                                           *)

LEMMA ClientsStart == ClientsInit => IInv
<1>. SUFFICES ASSUME ClientsInit PROVE IInv
  OBVIOUS
<1>1. Sent = {} /\ Count = 0 /\ 1..0 = {}
  <2>1. Sent = {}
    BY DEF ClientsInit, Sent
  <2>. QED BY <2>1, FS_EmptySet DEF Count
<1>2. ClientsTypeOK
  <2>1. 0 \in 0..2 * MaxSessions /\ 0 \in 0..MaxCalls
    BY Bounds
  <2>2. PageIntent(0) \in Intents
    BY <2>1 DEF Intents, PageIntent
  <2>3. /\ call \in [Requests -> {"none", "open", "closed", "blamed"}]
        /\ intent \in [Requests -> Intents]
        /\ sentIn \in [Requests -> 0..2 * MaxSessions]
    BY <2>1, <2>2 DEF ClientsInit
  <2>4. goal \in [number : 0..MaxCalls, payload : Payloads \cup {None}, open : BOOLEAN]
    BY <2>1 DEF ClientsInit
  <2>. QED BY <2>1, <2>3, <2>4, NoEndType, NoWorkType DEF ClientsInit, ClientsTypeOK
<1>3. Sorts
  BY <1>1, <1>2, Bounds DEF ClientsInit, Init, Sorts
<1>s. Served /\ Alone /\ Quiet
  BY <1>1, Bounds
  DEF ClientsInit, Init, Served, Parts, Standing, OneTry, Answers, HungUp, Alone, Quiet
<1>4. goal.open <=> FALSE
  BY DEF ClientsInit
<1>5. Matched /\ Named /\ GoalHeld /\ Working /\ OneOpen /\ Shows /\ Session
  BY <1>1, <1>4, NoEndType
  DEF ClientsInit, Init, Matched, Named, GoalHeld, Working, OneOpen, Shows, NoEnd, Session
<1>. QED BY <1>3, <1>s, <1>5 DEF IInv

LEMMA ClientsStep == ASSUME IInv, [ClientsNext]_allVars PROVE IInv'
<1>1. ASSUME ClientsNext PROVE IInv'
  <2>0. CASE Service /\ UNCHANGED clientVars
    BY <2>0, ServiceKeeps
  <2>1. CASE \E r \in Requests : Reprint(r) \/ JobTool(r)
    BY <2>1, DialogKeeps, JobToolKeeps
  <2>2. CASE SignIn \/ SignOut \/ PageUnauthorized
    BY <2>2, SignInKeeps, SignOutKeeps, PageUnauthorizedKeeps
  <2>3. CASE \E p \in Payloads : Confirm(p) \/ PrintDocument(p)
    BY <2>3, DialogKeeps, PrintDocumentKeeps
  <2>4. CASE CancelConfirm \/ Submit
    BY <2>4, DialogKeeps, SubmitKeeps
  <2>5. CASE PageStep
    BY <2>5, PageToldKeeps, PageFailsKeeps, ResumeKeeps, AbortKeeps DEF PageStep
  <2>6. CASE \E r \in Requests : \/ \E j \in Requests : AgentTold(r, j)
                                 \/ \E e \in Refusals \cup Unsettled \cup Transport : AgentFails(r, e)
    BY <2>6, AgentKeeps
  <2>. QED BY <1>1, <2>0, <2>1, <2>2, <2>3, <2>4, <2>5, <2>6 DEF ClientsNext
<1>2. CASE UNCHANGED allVars
  <2>1. UNCHANGED vars /\ UNCHANGED clientVars
    BY <1>2 DEF allVars
  <2>2. /\ UNCHANGED <<asks, trying, refused, made, current, told, denied, over>>
        /\ UNCHANGED <<call, crowded, intent, goal>> /\ Sent' = Sent
    BY <2>1, ServiceVars DEF clientVars, printVars, Sent
  <2>3. Calls'
    BY <1>2, <2>2, CallsStand DEF IInv, Calls
  <2>4. \A s \in Sent : Past(s) => Past(s)'
    BY <2>2 DEF Past
  <2>. QED BY <2>1, <2>2, <2>3, <2>4, CallsKnown, ServiceFrame DEF Calls
<1>. QED BY <1>1, <1>2

\* The page, its session and the tools keep their types, a key stands for an intent
\* throughout, and for one job of it or none, whatever the service prints, refuses,
\* keeps, forgets and answers.
THEOREM ClientsInvariant == ClientsSpec => []IInv
  BY ClientsStart, ClientsStep, PTL DEF ClientsSpec

\* At most one standing job per logical attempt, however the page, its user or an
\* agent repeats it (resolveAttempt of frontend/src/idempotency.ts, print_document
\* of src/mcp/tools.rs).
THEOREM OneJobPerIntentCorrect == ClientsSpec => []OneJobPerIntent
<1>1. IInv => OneJobPerIntent
  <2>. SUFFICES ASSUME IInv, NEW r \in made, NEW s \in made, intent[r] = intent[s],
                       Stands(r), Stands(s)
                PROVE  r = s
    BY DEF OneJobPerIntent
  <2>1. asks[r].key = asks[s].key /\ asks[r].key \in Keys
    BY CallsKnown DEF IInv, Matched, Served, Parts
  <2>. QED BY <2>1 DEF IInv, Served, Standing, Stands
<1>. QED BY <1>1, ClientsInvariant, PTL

\* A success the page shows is a job of the attempt it was shown for (print.ts with
\* the reducer of state.ts).
THEOREM SuccessIsNewCorrect == ClientsSpec => []SuccessIsNew
<1>1. IInv => SuccessIsNew
  BY DEF IInv, Shows, SuccessIsNew
<1>. QED BY <1>1, ClientsInvariant, PTL

\* A final error is final (isRetryable of frontend/src/api.ts): no job of the attempt
\* stands, nor will one while the page shows the error.
THEOREM FinalErrorMeansNoJobCorrect == ClientsSpec => []FinalErrorMeansNoJob
<1>1. IInv => FinalErrorMeansNoJob
  BY DEF IInv, Shows, Past, Served, Parts, Stands, FinalErrorMeansNoJob
<1>. QED BY <1>1, ClientsInvariant, PTL

\* What the page shows is of this session (isSessionEpochCurrent of
\* frontend/src/api.ts).
THEOREM ShowsThisSessionCorrect == ClientsSpec => []ShowsThisSession
<1>1. IInv => ShowsThisSession
  BY DEF IInv, Session, ShowsThisSession
<1>. QED BY <1>1, ClientsInvariant, PTL

\* An agent that is told the mistake is its own has printed nothing with that call,
\* nor, if its calls do not overlap, with one whose job stands (to_error of
\* src/mcp/backend.rs).
THEOREM BlameIsDeservedCorrect == ClientsSpec => BlameIsDeserved
<1>1. ASSUME IInv, ClientsNext, NEW r \in Requests, call[r] = "open", call'[r] = "blamed"
      PROVE  /\ r \notin made
             /\ r \in crowded \/ \A j \in made : intent[j] = intent[r] => ~Stands(j)
  <2>. USE DEF IInv
  <2>0. call \in [Requests -> {"none", "open", "closed", "blamed"}]
    BY <1>1 DEF Sorts, ClientsTypeOK
  <2>1. PICK s, e : s \in Requests /\ AgentFails(s, e)
    <3>1. ASSUME \E q \in Requests, c \in {"open", "closed"} : call' = [call EXCEPT ![q] = c]
          PROVE  FALSE
      BY <1>1, <2>0, <3>1
    <3>2. ASSUME UNCHANGED call PROVE FALSE
      BY <1>1, <3>2
    <3>3. /\ ~(Service /\ UNCHANGED clientVars)
          /\ ~(\E q \in Requests : Reprint(q) \/ JobTool(q))
      BY <3>2 DEF Reprint, JobTool, clientVars
    <3>4. ~(SignIn \/ SignOut \/ CancelConfirm \/ \E p \in Payloads : Confirm(p))
      BY <3>2 DEF SignIn, SignOut, CancelConfirm, Confirm
    <3>5. work.state = "call" => work.call \in Requests
      BY <1>1 DEF Working, NoWork, Sent
    <3>6. ~PageUnauthorized /\ ~AbortSubmission
      BY <3>1, <3>2, <3>5 DEF PageUnauthorized, AbortSubmission
    <3>7. ASSUME NEW i, PageTold(i) \/ PageFails(i) PROVE FALSE
      BY <3>1, <3>5, <3>7 DEF PageTold, PageFails
    <3>8. ASSUME NEW key, NEW payload, NEW i, Left > 0, Send(Next1, key, payload, i) PROVE FALSE
      <4>1. Next1 \in Requests
        BY <1>1, <3>8, Sending
      <4>2. call' = [call EXCEPT ![Next1] = "open"]
        BY <3>8 DEF Send
      <4>. QED BY <3>1, <4>1, <4>2
    <3>9. ~Submit
      <4>1. Left > MaxRetries => Left > 0
        BY Bounds, SentFinite DEF Left, Count
      <4>. QED BY <3>8, <4>1 DEF Submit
    <3>10. ~Resume /\ \A p \in Payloads : ~PrintDocument(p)
      BY <3>8 DEF Resume, PrintDocument
    <3>11. ASSUME NEW q \in Requests, NEW i \in Requests, AgentTold(q, i) PROVE FALSE
      BY <3>1, <3>11 DEF AgentTold
    <3>. QED BY <1>1, <3>3, <3>4, <3>6, <3>7, <3>9, <3>10, <3>11 DEF ClientsNext, PageStep
  <2>2. r \in denied
    <3>1. call' = [call EXCEPT ![s] = IF e \in AppErrors /\ BlamesAgent(e) THEN "blamed" ELSE "closed"]
          /\ Reads(s, e)
      BY <2>1 DEF AgentFails
    <3>2. s = r /\ e \in AppErrors /\ BlamesAgent(e)
      BY <1>1, <2>0, <3>1
    <3>. QED BY <3>1, <3>2, FinalIsRefusal
  <2>3. r \in refused /\ r \notin made /\ r \in Sent
    BY <1>1, <2>2 DEF Served, Parts
  <2>4. ASSUME r \notin crowded, NEW j \in made, intent[j] = intent[r] PROVE ~Stands(j)
    <3>1. j \in Sent /\ j # r /\ asks[j].key = asks[r].key
      BY <1>1, <2>3, <2>4 DEF Served, Parts, Matched
    <3>2. j < r
      BY <1>1, <2>3, <2>4, <3>1 DEF Quiet
    <3>. QED BY <1>1, <2>3, <2>4, <3>1, <3>2 DEF Alone, Past, Stands
  <2>. QED BY <2>3, <2>4
<1>2. IInv /\ [ClientsNext]_allVars =>
        [\A r \in Requests : call[r] = "open" /\ call'[r] = "blamed"
            => /\ r \notin made
               /\ r \in crowded
                  \/ \A j \in made : intent[j] = intent[r] => ~Stands(j)]_allVars
  BY <1>1
<1>. QED BY <1>2, ClientsInvariant, PTL DEF ClientsSpec, BlameIsDeserved

-----------------------------------------------------------------------------
(* The tools and the names of the printers.                                *)

LEMMA Gluing ==
    ASSUME NEW A, NEW x, NEW y
    PROVE  /\ \A s \in Seq(A) : s \in Seq(A \cup {x, y})
           /\ <<x>> \in Seq(A \cup {x, y}) /\ <<x, y>> \in Seq(A \cup {x, y})
<1>. DEFINE B == A \cup {x, y}
<1>1. A \subseteq B /\ x \in B /\ y \in B
  OBVIOUS
<1>. HIDE DEF B
<1>2. \A s \in Seq(A) : s \in Seq(B)
  BY <1>1, SeqMonotonic
<1>3. <<x>> \in Seq(B) /\ <<x, y>> \in Seq(B)
  BY <1>1
<1>. QED BY <1>2, <1>3 DEF B

\* A job id with the device's prefix and only digits after it is one of the device:
\* a longer name would put its own dash where a digit has to be.
LEMMA LocalJob ==
    ASSUME NEW j, NEW p \in Payloads, asks[j].payload = p, EnsureLocalJob(JobId(j))
    PROVE  p.printer = Device
<1>. DEFINE n  == Name[p.printer]
            d  == Name[Device]
            id == JobId(j)
            S  == STRING \cup {"-", JobNumber[j]}
<1>1. n \in Seq(S) /\ d \in Seq(S) /\ <<"-", JobNumber[j]>> \in Seq(S) /\ <<"-">> \in Seq(S)
  BY NamesAssumption, Gluing
<1>. HIDE DEF S
<1>2. /\ Len(n) \in Nat /\ Len(d) \in Nat
      /\ id = n \o <<"-", JobNumber[j]>>
  BY <1>1 DEF JobId
<1>. HIDE DEF id
<1>3. /\ id \in Seq(S) /\ Len(id) = Len(n) + 2
      /\ \A k \in 1..Len(n) : id[k] = n[k]
      /\ id[Len(n) + 1] = "-"
  BY <1>1, <1>2
<1>4. /\ Prefix \in Seq(S) /\ Len(Prefix) = Len(d) + 1
      /\ \A k \in 1..Len(d) : Prefix[k] = d[k]
  BY <1>1, <1>2 DEF Prefix
<1>. HIDE DEF n, d
<1>5. /\ Len(id) > Len(Prefix) /\ SubSeq(id, 1, Len(Prefix)) = Prefix
      /\ \A m \in DOMAIN Rest(id) : Rest(id)[m] \in Digits
  BY DEF EnsureLocalJob, HasPrefix, id
<1>6. Len(d) <= Len(n)
  BY <1>2, <1>3, <1>4, <1>5
<1>7. \A k \in 1..Len(d) : n[k] = d[k]
  <2>. SUFFICES ASSUME NEW k \in 1..Len(d) PROVE n[k] = d[k]
    OBVIOUS
  <2>1. SubSeq(id, 1, Len(Prefix))[k] = id[k]
    BY <1>2, <1>3, <1>4, <1>5
  <2>. QED BY <1>2, <1>3, <1>4, <1>5, <1>6, <2>1
<1>8. CASE Len(d) < Len(n)
  <2>. DEFINE m == Len(n) - Len(d)
  <2>1. /\ Rest(id) = SubSeq(id, Len(Prefix) + 1, Len(id))
        /\ m \in 1..(Len(id) - Len(Prefix))
    BY <1>2, <1>3, <1>4, <1>8 DEF Rest
  <2>2. /\ DOMAIN Rest(id) = 1..(Len(id) - Len(Prefix))
        /\ Rest(id)[m] = id[Len(Prefix) + m]
    <3>1. \A k \in (Len(Prefix) + 1)..Len(id) : id[k] \in S
      BY <1>2, <1>3, <1>4, ElementOfSeq
    <3>2. /\ SubSeq(id, Len(Prefix) + 1, Len(id)) \in Seq(S)
          /\ Len(Rest(id)) = Len(id) - (Len(Prefix) + 1) + 1
          /\ \A k \in 1..(Len(id) - (Len(Prefix) + 1) + 1) :
                Rest(id)[k] = id[(Len(Prefix) + 1) + k - 1]
      <4>1. Len(Prefix) + 1 \in Int /\ Len(id) \in Int /\ Len(Prefix) + 1 <= Len(id)
        BY <1>2, <1>3, <1>4, <1>5
      <4>. QED BY <2>1, <3>1, <4>1, SubSeqProperties
    <3>3. Rest(id)[m] = id[Len(Prefix) + m] /\ Len(Rest(id)) = Len(id) - Len(Prefix)
      <4>1. /\ (Len(Prefix) + 1) + m - 1 = Len(Prefix) + m
            /\ Len(id) - (Len(Prefix) + 1) + 1 = Len(id) - Len(Prefix)
        BY <1>2, <1>3, <1>4
      <4>2. m \in 1..(Len(id) - (Len(Prefix) + 1) + 1)
        BY <2>1, <4>1
      <4>. HIDE DEF m
      <4>3. Rest(id)[m] = id[(Len(Prefix) + 1) + m - 1]
        BY <3>2, <4>2, Zenon
      <4>. QED BY <3>2, <4>1, <4>3
    <3>. QED BY <2>1, <3>2, <3>3, LenProperties
  <2>3. Len(Prefix) + m = Len(n) + 1
    BY <1>2, <1>4
  <2>4. "-" \in Digits
    BY <1>3, <1>5, <2>1, <2>2, <2>3
  <2>. QED BY <2>4 DEF Digits
<1>9. CASE Len(d) = Len(n)
  <2>1. n = d
    BY <1>1, <1>2, <1>7, <1>9, SeqEqual
  <2>. QED BY <2>1, NamesAssumption DEF n, d
<1>. QED BY <1>2, <1>6, <1>8, <1>9

\* What a call asked for stands.
LEMMA AsksStand ==
    ASSUME IInv, ClientsNext, NEW j \in made
    PROVE  asks'[j] = asks[j]
<1>. USE DEF IInv
<1>1. SUFFICES ASSUME asks' # asks PROVE asks'[j] = asks[j]
  OBVIOUS
<1>0. ~UNCHANGED vars /\ ~Service
  BY <1>1 DEF vars, Service, MakeJob, Refuse, Deny, Keep, Decide
<1>2. \A r, e, i : ~HangsUp(r) /\ ~Leave(r) /\ ~Reads(r, e) /\ ~ReadsJob(r, i)
  BY <1>0, <1>1 DEF HangsUp, Leave, Reads, ReadsJob
<1>3. ~(\E r \in Requests : Reprint(r) \/ JobTool(r))
  BY <1>0 DEF Reprint, JobTool
<1>4. ~(SignIn \/ SignOut \/ PageUnauthorized \/ CancelConfirm \/ \E p \in Payloads : Confirm(p))
  BY <1>0, <1>2 DEF SignIn, SignOut, PageUnauthorized, CancelConfirm, Confirm
<1>5. /\ \A i : ~PageTold(i) /\ ~PageFails(i)
      /\ ~AbortSubmission
      /\ \A r, i : ~AgentTold(r, i) /\ ~AgentFails(r, i)
  BY <1>0, <1>2 DEF PageTold, PageFails, AbortSubmission, AgentTold, AgentFails
<1>6. PICK key, payload, i : Left > 0 /\ Send(Next1, key, payload, i)
  <2>1. Left > MaxRetries => Left > 0
    BY Bounds, SentFinite DEF Left, Count
  <2>2. Submit \/ Resume \/ \E p \in Payloads : PrintDocument(p)
    BY <1>0, <1>3, <1>4, <1>5 DEF ClientsNext, PageStep
  <2>. QED BY <2>1, <2>2 DEF Submit, Resume, PrintDocument
<1>7. Next1 \notin Sent /\ asks' = [asks EXCEPT ![Next1] = [key |-> key, payload |-> payload]]
  BY <1>6, Sending
<1>8. j \in Sent /\ asks \in [Requests -> Demand \cup {Nothing}]
  BY DEF Served, Parts, Sorts
<1>. QED BY <1>7, <1>8

\* No tool touches a job of another device (ensure_local_job of src/mcp/tools.rs),
\* however the printers are named.
THEOREM StaysOnDeviceCorrect == ClientsSpec => []StaysOnDevice
<1>1. ClientsInit => StaysOnDevice
  BY DEF ClientsInit, StaysOnDevice
<1>2. ASSUME IInv, StaysOnDevice, [ClientsNext]_allVars PROVE StaysOnDevice'
  <2>. SUFFICES ASSUME NEW j \in touched' PROVE asks'[j].payload.printer = Device
    BY DEF StaysOnDevice
  <2>0. touched \subseteq made
    BY <1>2 DEF IInv, Sorts, ClientsTypeOK
  <2>1. CASE UNCHANGED allVars
    BY <1>2, <2>1 DEF allVars, vars, clientVars, StaysOnDevice
  <2>2. CASE ClientsNext /\ j \in touched
    BY <1>2, <2>0, <2>2, AsksStand DEF StaysOnDevice
  <2>3. CASE ClientsNext /\ j \notin touched
    <3>1. PICK q \in Requests : JobTool(q)
      <4>1. touched' # touched
        BY <2>3
      <4>2. ~(Service /\ UNCHANGED clientVars) /\ ~(\E r \in Requests : Reprint(r))
        BY <4>1 DEF Reprint, clientVars
      <4>3. ~(SignIn \/ SignOut \/ PageUnauthorized \/ CancelConfirm \/ Submit)
        BY <4>1 DEF SignIn, SignOut, PageUnauthorized, CancelConfirm, Submit
      <4>4. \A p : ~Confirm(p) /\ ~PrintDocument(p)
        BY <4>1 DEF Confirm, PrintDocument
      <4>5. /\ \A i : ~PageTold(i) /\ ~PageFails(i)
            /\ ~AbortSubmission /\ ~Resume
            /\ \A r, i : ~AgentTold(r, i) /\ ~AgentFails(r, i)
        BY <4>1 DEF PageTold, PageFails, AbortSubmission, Resume, AgentTold, AgentFails
      <4>. QED BY <2>3, <4>2, <4>3, <4>4, <4>5 DEF ClientsNext, PageStep
    <3>2. /\ j = q /\ j \in made /\ EnsureLocalJob(JobId(j)) /\ asks' = asks
      BY <2>3, <3>1 DEF JobTool, vars
    <3>3. asks[j].payload \in Payloads
      BY <1>2, <3>2 DEF IInv, Served, Parts, Sorts, Demand, Sent
    <3>. QED BY <3>2, <3>3, LocalJob
  <2>. QED BY <1>2, <2>1, <2>2, <2>3
<1>. QED BY <1>1, <1>2, ClientsInvariant, PTL DEF ClientsSpec

-----------------------------------------------------------------------------
(* The composition.                                                        *)

\* The composition keeps nothing of the service out: each of its steps, the end of a
\* key's retention included, is one of the composition, whatever the clients are at.
LEMMA WholeService == Service /\ UNCHANGED clientVars => ClientsNext
  BY DEF ClientsNext

\* The clients are clients of PrintOnce: what they do of its business is to ask and
\* to hang up, so every behaviour with them is one of PrintOnce, and each step that
\* is not theirs is one its service takes alone.  With WholeService, what
\* PrintSubmission implements (ServesAsPrintOnce) is all they build on.
THEOREM ClientsOfPrintOnce ==
    ASSUME Demand \subseteq Demands
    PROVE  /\ ClientsSpec => Spec
           /\ ClientsSpec => [][(Service /\ UNCHANGED clientVars) \/ Client \/ UNCHANGED vars]_allVars
<1>0. ClientsInit => Init
  BY DEF ClientsInit
<1>1. ASSUME IInv, NEW r \in Requests, HangsUp(r) \/ Leave(r) \/ (\E e : Reads(r, e)) \/ \E j : ReadsJob(r, j)
      PROVE  Client \/ UNCHANGED vars
  BY <1>1 DEF HangsUp, Reads, ReadsJob, Client
<1>2. ASSUME IInv, ClientsNext, ~(Service /\ UNCHANGED clientVars) PROVE Client \/ UNCHANGED vars
  <2>1. ASSUME NEW key \in Keys, NEW payload \in Payloads, NEW i,
               Left > 0, Send(Next1, key, payload, i)
        PROVE  Client
    <3>1. Next1 \in Requests
      BY <1>2, <2>1, Sending DEF IInv
    <3>2. [key |-> key, payload |-> payload] \in Demands
      BY DEF Demand
    <3>3. Ask(Next1, [key |-> key, payload |-> payload])
      BY <2>1 DEF Send
    <3>. QED BY <3>1, <3>2, <3>3 DEF Client
  <2>2. ASSUME Submit PROVE Client
    <3>1. PICK a : a = ResolveAttempt(attempt, dialog, Next1)
      OBVIOUS
    <3>2. Left > MaxRetries /\ dialog # None /\ Send(Next1, a.key, dialog, PageIntent(NextGoal(dialog).number))
      BY <2>2, <3>1 DEF Submit
    <3>3. Left > 0
      BY <3>2, Bounds, SentFinite DEF Left, Count
    <3>4. Next1 \in Requests /\ dialog \in Payloads
      BY <1>2, <3>2, <3>3, Sending DEF IInv, Sorts, ClientsTypeOK
    <3>5. a.key \in Keys
      BY <1>2, <3>1, <3>4, Bounds
      DEF ResolveAttempt, FreshAttempt, IInv, Sorts, ClientsTypeOK, Attempts
    <3>. QED BY <2>1, <3>2, <3>3, <3>4, <3>5
  <2>3. ASSUME Resume PROVE Client
    <3>1. Left > 0 /\ Send(Next1, work.key, work.payload, intent[work.call]) /\ work # NoWork
      BY <2>3 DEF Resume, NoWork
    <3>2. work.key \in Keys /\ work.payload \in Payloads
      BY <1>2, <3>1 DEF IInv, Working, Sorts, Demand, Sent
    <3>. QED BY <2>1, <3>1, <3>2
  <2>4. ASSUME NEW p \in Payloads, PrintDocument(p) PROVE Client
    BY <2>1, <2>4, Bounds DEF PrintDocument
  <2>5. work.state = "call" => work.call \in Requests
    BY <1>2 DEF IInv, Working, NoWork, Sent
  <2>6. ASSUME PageUnauthorized \/ AbortSubmission \/ (\E j : PageTold(j)) \/ (\E e : PageFails(e))
        PROVE  Client \/ UNCHANGED vars
    BY <1>1, <1>2, <2>5, <2>6, ServiceVars DEF PageUnauthorized, AbortSubmission, PageTold, PageFails
  <2>7. ASSUME NEW r \in Requests, (\E j : AgentTold(r, j)) \/ (\E e : AgentFails(r, e))
        PROVE  Client \/ UNCHANGED vars
    BY <1>1, <1>2, <2>7 DEF AgentTold, AgentFails
  <2>8. (\E r \in Requests : Reprint(r) \/ JobTool(r)) => UNCHANGED vars
    BY DEF Reprint, JobTool
  <2>9. SignIn \/ SignOut \/ CancelConfirm \/ (\E p \in Payloads : Confirm(p)) => UNCHANGED vars
    BY DEF SignIn, SignOut, CancelConfirm, Confirm
  <2>. QED BY <1>2, <2>2, <2>3, <2>4, <2>6, <2>7, <2>8, <2>9 DEF ClientsNext, PageStep
<1>3. IInv /\ [ClientsNext]_allVars =>
        [(Service /\ UNCHANGED clientVars) \/ Client \/ UNCHANGED vars]_allVars
  BY <1>2
<1>4. ((Service /\ UNCHANGED clientVars) \/ Client \/ UNCHANGED vars) \/ UNCHANGED allVars => [Next]_vars
  BY DEF Next, allVars
<1>. QED BY <1>0, <1>3, <1>4, ClientsInvariant, PTL DEF ClientsSpec, Spec
=============================================================================
