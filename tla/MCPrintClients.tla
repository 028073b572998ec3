--------------------------- MODULE MCPrintClients ---------------------------
(* An instance of PrintClients for TLC: a file, and two printers of which   *)
(* the name of one begins like the name of the other.                      *)
EXTENDS PrintClients, TLC

CONSTANTS f, lp, lp2

Contents == [file : {f}, printer : {lp, lp2}]
Calls == 1..MaxCalls
ClientKeys == {PageKey(r) : r \in Calls} \cup {AgentKey(p) : p \in Contents}
Asked == [key : ClientKeys, payload : Contents]

\* The characters of "lp" stand for themselves; "lp-2" is lp, "-", 2.
Names == (lp :> <<"lp">>) @@ (lp2 :> <<"lp", "-", "2">>)
=============================================================================
