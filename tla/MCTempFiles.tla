---------------------------- MODULE MCTempFiles ----------------------------
(* Instances of TempFiles for TLC. *)
EXTENDS TempFiles, TLC

CONSTANTS u1, u2, u3

\* A document that is converted, and two uploads that race for one ticket.
DocAndTickets == (u1 :> "doc") @@ (u2 :> "ticket") @@ (u3 :> "ticket")

OneByteEach == [u \in Uploads |-> 1]
=============================================================================
