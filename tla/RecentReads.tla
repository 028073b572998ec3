----------------------------- MODULE RecentReads -----------------------------
(***************************************************************************)
(* What whoever reads the printers is promised, without saying how: one    *)
(* list, as CUPS gave it at one moment, with options read at that moment   *)
(* or later; not too long ago; not from before a refresh; and never older  *)
(* than what anybody has been given already.                               *)
(***************************************************************************)
EXTENDS Naturals

CONSTANTS Requests, Printers,
          Versions,  \* 0..n: the printers change from each to the next
          Present,   \* version -> the printers there are
          Bound,     \* a version is not read longer than this after it was replaced
          Nothing, Failed

VARIABLES world,     \* the version the printers are in
          gone,      \* version -> time since it was replaced
          marks,     \* the versions in which a refresh cut off all that came before
          given      \* request -> {}, or what it was given

vars == <<world, gone, marks, given>>

Init == /\ world = 0
        /\ gone = [v \in Versions |-> 0]
        /\ marks = {}
        /\ given = [r \in Requests |-> {}]

\* What may be read if the list was given in version v.
Views(v) ==
    {[p \in Printers |-> IF p \in Present[v] THEN [state |-> v, options |-> options[p]]
                         ELSE [state |-> Nothing, options |-> Nothing]] :
        options \in {f \in [Printers -> {Failed} \cup v..world] :
                        \A p \in Printers : f[p] # Failed => p \in Present[f[p]]}}

Dates(view) == {view[p].state : p \in Printers} \cup {view[p].options : p \in Printers}

Follows(view, earlier) ==
    view = earlier \/ \A v \in Dates(view) \cap Versions, w \in Dates(earlier) \cap Versions : w <= v

Read(r) ==
    /\ given[r] = {}
    /\ \E v \in Versions : \E view \in Views(v) :
          /\ v <= world
          /\ gone[v] <= Bound
          /\ \A m \in marks : m <= v
          /\ \A q \in Requests : \A earlier \in given[q] : Follows(view, earlier)
          /\ given' = [given EXCEPT ![r] = {view}]
    /\ UNCHANGED <<world, gone, marks>>

Mark == /\ marks' = marks \cup {world}
        /\ UNCHANGED <<world, gone, given>>

Change == /\ world + 1 \in Versions
          /\ world' = world + 1
          /\ UNCHANGED <<gone, marks, given>>

Tick == /\ gone' = [v \in Versions |->
                      IF v < world /\ gone[v] <= Bound THEN gone[v] + 1 ELSE gone[v]]
        /\ UNCHANGED <<world, marks, given>>

Next == Change \/ Tick \/ Mark \/ \E r \in Requests : Read(r)

Spec == Init /\ [][Next]_vars
=============================================================================
