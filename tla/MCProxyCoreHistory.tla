------------------------- MODULE MCProxyCoreHistory -------------------------
(* ProxyCore with two history variables, for properties that relate a state  *)
(* to the StopProxy before it.                                               *)
EXTENDS MCProxyCore

VARIABLES
    dirty,      \* some handler was counted when STATS was last reset
    inFlight    \* sessions that could still fail a dial when the tables of
                \* penalties were last cleared

\* Sessions with a handler that has not finished connecting, or that may still
\* accept one.
Connecting ==
    {k \in Sessions :
        \/ Listening(k)
        \/ \E h \in Handlers : hsession[h] = k /\ hpc[h] \in {"accepted", "connecting"}}

HInit == Init /\ dirty = FALSE /\ inFlight = {}

HNext ==
    /\ Next
    /\ dirty' = IF \E c \in Callers : fpc[c] = "reset" /\ fpc'[c] = "clear"
                THEN Counted # {} ELSE dirty
    /\ inFlight' = IF \E c \in Callers : fpc[c] = "clear" /\ fpc'[c] = "idle"
                   THEN Connecting ELSE inFlight

HSpec == HInit /\ [][HNext]_<<vars, dirty, inFlight>>

\* When the latest reset found no counted handler, the counter is exact: it is
\* the number of handlers at work, whatever sessions they belong to.
ActiveExact == dirty \/ active = Cardinality(Counted)

\* A session is only ever punished for the dials of an earlier one (blacklisted
\* or cooled-down targets) if that one was still connecting a client when
\* StopProxy cleared the tables.
StalePenaltiesWereInFlight ==
    \A k \in penalties \cup cooldowns : k = last \/ k \in inFlight
=============================================================================
