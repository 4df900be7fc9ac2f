---------------------------- MODULE MCCfDomains ----------------------------
(* CfDomains with small sets and three history variables, for properties    *)
(* about the writes that have overtaken each other.                         *)
EXTENDS CfDomains, TLC

CONSTANTS c1, r1, r2, def, f1, f2, own, typed, dc1

MCClients == {c1}
MCRefreshers == {r1, r2}
MCNames == {def, f1, f2, own, typed}
MCDefaults == {def}
MCDownloads == {{f1}}
MCCaches == {{def, f2}}
MCRaw == {typed}
MCDcOf == [c \in MCClients |-> dc1]
\* The user types his domain in another spelling than normalize_cf_domain's.
NormalTyped == [n \in MCNames |-> IF n = typed THEN own ELSE n]
MCDCs == {dc1}

Sym == Permutations(MCRefreshers)

VARIABLES
    apart,      \* the lists differ for good, until one writer sets both
    overtaken,  \* refreshers between their writes whose first has been replaced
    late,       \* clients whose domains come from an older list
    strays      \* data centres whose preference such a client has set

HInit == Init /\ apart = FALSE /\ overtaken = {} /\ late = {} /\ strays = {}

Stored == {r \in Refreshers : rpc[r] = "stored"}

HNext ==
    /\ Next
    /\ overtaken' =
          IF domains' # domains THEN Stored \cap {r \in Refreshers : rpc'[r] = "stored"}
          ELSE {r \in overtaken : rpc'[r] = "stored"}
    /\ apart' =
          IF \E i \in Callers : ipc[i] = "loaded" /\ ipc'[i] # "loaded" THEN FALSE
          ELSE IF ipc["start"] = "idle" /\ ipc'["start"] = "configured"
               THEN apart \/ domains' # domains
          ELSE IF \E r \in Refreshers : rpc[r] = "stored" /\ rpc'[r] = "balanced"
               THEN \E r \in overtaken : rpc'[r] = "balanced"
          ELSE apart
    /\ late' =
          {c \in Clients :
              /\ cpc'[c] = "dialling"
              /\ c \in late \/ listed' # listed \/ (cpc[c] = "ordering" /\ DcOf[c] \in strays)}
    /\ strays' =
          IF listed' # listed THEN {}
          ELSE {dc \in DCs :
                  IF \E c \in Clients : cpc[c] = "dialling" /\ cpc'[c] = "idle" /\ DcOf[c] = dc
                                        /\ preferred' # preferred
                  THEN \E c \in late : cpc'[c] = "idle" /\ DcOf[c] = dc
                  ELSE dc \in strays}

HSpec == HInit /\ [][HNext]_<<vars, apart, overtaken, late, strays>>

-----------------------------------------------------------------------------
(* Properties *)

\* The list the user sees is the list that is dialled, except while a refresh
\* is between its two writes, after a SetCfProxyConfig until StartProxy, and
\* after a refresh that another writer overtook between the two.
ListsAgree == domains = listed \/ apart \/ Stored # {}

\* A domain that has been taken off the list is preferred only if a client put
\* it there whose dials began before: the change itself leaves none behind.
PreferredIsListed ==
    \A dc \in DCs \ strays :
        preferred[dc] \in listed \cup {Normal[d] : d \in listed} \cup {None}

=============================================================================
