-------------------------- MODULE ClientRouteHistory --------------------------
(* ClientRoute with a memory of which routes each client has met, and of when *)
(* a key last lost a direct connection.                                       *)
EXTENDS ClientRoute, Sequences, TLC

CONSTANTS c1, c2, k1, k2

ClientsTwo == {c1, c2}
KeysOne == {k1}
KeysTwo == {k1, k2}

Sym == Permutations(ClientsTwo)

\* Each is kept as long as a property asks about it.
VARIABLES
    answers,    \* client -> which dials of its latest round were redirects
    direct,     \* clients that lost the direct route: a round, or two sends
    shunned,    \* clients that found their key blacklisted
    cloudflare, \* clients that asked cfproxy_acquire_ws, or met it switched off
    tcpTried,   \* clients that tried a TCP connection
    lastFail    \* key -> the latest handshake among the clients that lost a round or
                \* a connection of that key, or -1

hvars == <<answers, direct, shunned, cloudflare, tcpTried, lastFail>>

HInit ==
    /\ Init
    /\ answers = [c \in Clients |-> <<>>]
    /\ direct = {} /\ shunned = {} /\ cloudflare = {} /\ tcpTried = {}
    /\ lastFail = [k \in Keys |-> -1]

Entered(p) == {c \in Clients : pc[c] # p /\ pc'[c] = p}
Left(p) == {c \in Clients : pc[c] = p /\ pc'[c] # p}
Dialled(c) == pc[c] = "dial" /\ (dom'[c] # dom[c] \/ pc'[c] = "failed")
\* Clients whose routes no property asks about any more.
Settled == Entered("done") \cup Entered("bridge_ws")
LostRound ==
    Left("failed") \cup (Left("init") \cap Entered("dial"))

HNext ==
    /\ Next
    /\ answers' = [c \in Clients |->
          IF c \in Entered("dial") \cup Entered("init") \cup Left("failed") THEN <<>>
          ELSE IF Dialled(c) THEN Append(answers[c], allRedirects[c] => allRedirects'[c])
          ELSE answers[c]]
    /\ direct' = (direct \cup Left("failed") \cup (Left("init") \cap Entered("fallback")))
                   \ Settled
    /\ shunned' = (shunned \cup {c \in Left("route") : key[c] \in blacklist}) \ Settled
    /\ cloudflare' = (cloudflare \cup Entered("cf") \cup {c \in Left("fallback") : ~cfEnabled})
                       \ Settled
    /\ tcpTried' = (tcpTried \cup {c \in Left("tcp") : key[c] \in Known})
                     \ Entered("bridge_tcp")
    /\ lastFail' = [k \in Keys |->
          LET lost == {now[c] : c \in {d \in LostRound : key[d] = k}}
          IN  CHOOSE t \in lost \cup {lastFail[k]} :
                 \A u \in lost \cup {lastFail[k]} : u <= t]

HSpec == HInit /\ [][HNext]_<<vars, hvars>>

\* docs/README.md: "falling back to plain TCP when WebSocket is unavailable".  A
\* client tries TCP only after it lost the direct route, or the route was
\* unknown or blacklisted for it, and after Cloudflare failed it or was off; and
\* no client is sent away while a route is left: one that had a valid handshake
\* and never reached a bridge has tried TCP, or has no address for it.
RoutesInOrder ==
    [][\A c \in Clients :
          /\ pc[c] \in {"tcp", "tcpinit", "bridge_tcp"} =>
                /\ c \in direct \cup shunned \/ key[c] \notin Configured
                /\ c \in cloudflare
          /\ pc[c] \notin {"handshake", "bridge_ws", "bridge_tcp"} /\ c \in Entered("done")
                => c \in tcpTried' \/ key[c] \notin Known]_<<vars, hvars>>

\* A key is blacklisted only by a client to which every domain of ws_domains
\* answered with a redirect in one and the same round: one time-out or reset
\* among them must not take WebSocket away from the data centre for the rest
\* of the session.
BlacklistJustified ==
    [][\A k \in blacklist' \ blacklist :
          \E c \in Clients : key[c] = k /\ answers[c] = <<TRUE, TRUE>>]_<<vars, hvars>>

\* A dial is rushed (the short timeout) only if a client of the same key lost a
\* connection or a round, and shook hands less than Cooldown before: the memory
\* is neither shared between keys nor kept for ever.
RushedHasReason ==
    \A c \in Clients :
        pc[c] = "pool" /\ ws_timeout[c] = "short" =>
            /\ lastFail[key[c]] >= 0
            /\ now[c] < lastFail[key[c]] + Cooldown

=============================================================================
