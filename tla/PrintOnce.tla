------------------------------ MODULE PrintOnce ------------------------------
(***************************************************************************)
(* What POST /api/print promises its clients, without saying how: one      *)
(* print at a time is tried for a key, and a second one only when the      *)
(* first made no job or its job's retention is over; a job's outcome is    *)
(* kept for replay before it may be forgotten; whoever is told of a job is *)
(* told of one that was printed for the same key and the same payload; and *)
(* a refusal is the end of a try that printed nothing.                     *)
(*                                                                         *)
(* Service holds the steps of the service, Client those of its clients.    *)
(***************************************************************************)
CONSTANTS Requests, Keys, Demands, Nothing, None

VARIABLES asks,     \* request -> what it asks for
          trying,   \* the requests a print is being tried for
          refused,  \* those whose try ended without a job
          made,     \* those whose try made a job; they name the jobs
          current,  \* key -> the job it stands for, {} before and after
          kept,     \* the keys whose outcome is kept for replay
          told,     \* request -> the job its client was told of
          denied,   \* the requests told that their try was refused
          over      \* the requests whose call is over, however it ended

tryVars    == <<trying, refused, made>>
keyVars    == <<current, kept>>
answerVars == <<told, denied, over>>
vars       == <<asks, tryVars, keyVars, answerVars>>

Init == /\ asks = [r \in Requests |-> Nothing]
        /\ trying = {} /\ refused = {} /\ made = {}
        /\ current = [k \in Keys |-> {}]
        /\ kept = {}
        /\ told = [r \in Requests |-> None]
        /\ denied = {} /\ over = {}

Open(r) == asks[r] # Nothing /\ r \notin over

-----------------------------------------------------------------------------
(* The clients.  A request without a key is tried as it arrives.           *)
Ask(r, d) == /\ asks[r] = Nothing
             /\ asks' = [asks EXCEPT ![r] = d]
             /\ trying' = IF d.key \in Keys THEN trying ELSE trying \cup {r}
             /\ UNCHANGED <<refused, made, keyVars, answerVars>>

\* The call of r is over and r was told nothing.
Ends(r) == /\ Open(r)
           /\ over' = over \cup {r}
           /\ UNCHANGED <<told, denied>>

\* The client hangs up; what is tried for it goes on.
Leave(r) == Ends(r) /\ UNCHANGED <<asks, tryVars, keyVars>>

-----------------------------------------------------------------------------
(* The service: what it tries to print.                                    *)

\* With the retention of the keys in S just over.
Try(r, S) ==
    LET k == asks[r].key IN
    /\ Open(r)
    /\ r \notin trying \cup refused \cup made
    /\ k \in Keys
    /\ current[k] = {} \/ k \in S
    /\ \A s \in trying : asks[s].key # k
    /\ trying' = trying \cup {r}

MakeJob(r) ==
    LET k == asks[r].key IN
    /\ r \in trying
    /\ trying' = trying \ {r}
    /\ made' = made \cup {r}
    /\ IF k \in Keys THEN /\ current[k] = {}
                          /\ current' = [current EXCEPT ![k] = {r}]
                     ELSE UNCHANGED current
    /\ UNCHANGED <<asks, refused, kept, answerVars>>

Refuse(r) == /\ r \in trying
             /\ trying' = trying \ {r}
             /\ refused' = refused \cup {r}
             /\ UNCHANGED <<asks, made, keyVars, answerVars>>

Keep(k) == /\ k \notin kept
           /\ current[k] # {}
           /\ kept' = kept \cup {k}
           /\ UNCHANGED <<asks, tryVars, current, answerVars>>

\* The retention of the keys in S ended.
Retire(S) == /\ S \subseteq kept
             /\ kept' = kept \ S
             /\ current' = [k \in Keys |-> IF k \in S THEN {} ELSE current[k]]

-----------------------------------------------------------------------------
(* The service: what it answers.                                           *)
Tell(r, j) == /\ Open(r)
              /\ j \in made
              /\ asks[j] = asks[r]
              /\ told' = [told EXCEPT ![r] = j]
              /\ over' = over \cup {r}
              /\ UNCHANGED denied

Deny(r) == /\ Open(r)
           /\ r \in refused
           /\ denied' = denied \cup {r}
           /\ over' = over \cup {r}
           /\ UNCHANGED <<asks, tryVars, keyVars, told>>

\* A decision, or an answer, may come in the very step that retires keys.
Decide ==
    \E S \in SUBSET kept :
        /\ Retire(S)
        /\ \/ UNCHANGED <<trying, answerVars>>
           \/ \E r \in Requests : Try(r, S) /\ UNCHANGED answerVars
           \/ /\ \E r \in Requests : Ends(r) \/ \E j \in Requests : Tell(r, j)
              /\ UNCHANGED trying
        /\ UNCHANGED <<asks, refused, made>>

Client  == \E r \in Requests : Leave(r) \/ \E d \in Demands : Ask(r, d)
Service == \/ \E r \in Requests : MakeJob(r) \/ Refuse(r) \/ Deny(r)
           \/ \E k \in Keys : Keep(k)
           \/ Decide

Next == Client \/ Service

Spec == Init /\ [][Next]_vars
=============================================================================
