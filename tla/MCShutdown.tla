----------------------------- MODULE MCShutdown -----------------------------
(* Instances of Shutdown for TLC, with the times a configuration gives.    *)
EXTENDS Shutdown, Configuration, TLC

CONSTANTS k1, p1

\* The same print asked for again and again.
Retries == {[key |-> k1, payload |-> p1]}

\* A tick is fifteen seconds.
Seconds(ticks) == 15 * ticks
Plain == [s \in Settings |-> Unset]
            @@ [token |-> Text, addr |-> Unset, cups_uri |-> Text, public_base_url |-> Blank]

Environments ==
    {[Plain EXCEPT !.idempotency_ttl = Seconds(Ttl), !.shutdown_timeout = s] :
        s \in {Seconds(1), Seconds(4), 0, Garbage}}
Accepted == {FromEnv(e) : e \in Environments} \ {Refused}

Budgets == {c.shutdown_timeout \div 15 : c \in Accepted}

\* The other times are those of the configurations, too.
ASSUME \A c \in Accepted : /\ c.ipp_timeout = Seconds(IppTimeout)
                           /\ c.idempotency_ttl = Seconds(Ttl)
=============================================================================
