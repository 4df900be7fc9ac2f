---------------------------- MODULE CfDomainsProofs ----------------------------
(***************************************************************************)
(* Theorems about CfDomains, for any number of clients, refreshes, domains  *)
(* and data centres: the user's own domain, the two copies of the list, and *)
(* the preferences of the data centres.                                     *)
(***************************************************************************)
EXTENDS MCCfDomains, TLAPS

\* Every writer of CFPROXY tests or sets the user's domain under the same lock.
THEOREM UserOwnsListHolds == Spec => []UserOwnsList
<1>1. Init => UserOwnsList
  BY DEF Init, UserOwnsList
<1>2. ASSUME UserOwnsList, [Next]_vars
      PROVE  UserOwnsList'
  <2>1. ASSUME NEW u \in Raw \cup {None}, SetCfProxyConfig(u)
        PROVE  UserOwnsList'
    BY <2>1 DEF SetCfProxyConfig, UserOwnsList
  <2>2. ASSUME NEW i \in Callers, InitStores(i)
        PROVE  UserOwnsList'
    BY <2>2 DEF InitStores, InitList, UserOwnsList
  <2>3. ASSUME NEW r \in Refreshers, RefreshStores(r)
        PROVE  UserOwnsList'
    BY <1>2, <2>3 DEF RefreshStores, UserOwnsList
  <2>4. CASE UNCHANGED <<user, domains>>
    BY <1>2, <2>4 DEF UserOwnsList
  <2>5. CASE \/ StartRefused \/ StartRuns \/ StartFails \/ StopProxy \/ FileAges
             \/ \E i \in Callers : InitLoads(i)
             \/ UNCHANGED vars
    BY <2>4, <2>5 DEF StartRefused, StartRuns, StartFails, StopProxy, FileAges,
                      InitLoads, vars, cfg
  <2>6. ASSUME NEW r \in Refreshers,
               \/ RefreshCfProxyDomains(r) \/ RefreshAsks(r)
               \/ \E list \in Downloads : Fetched(r, list)
               \/ FetchFails(r) \/ RefreshBalances(r) \/ RefreshSaves(r)
        PROVE  UNCHANGED <<user, domains>>
    BY <2>6 DEF RefreshCfProxyDomains, RefreshAsks, Fetched, FetchFails,
                RefreshBalances, RefreshSaves, cfg
  <2>7. ASSUME NEW c \in Clients, ClientStep(c)
        PROVE  UNCHANGED <<user, domains>>
    BY <2>7 DEF ClientStep, AcquireBegins, AcquireOrders, AcquireEnds, AcquireFails, cfg
  <2>. QED
    BY <1>2, <2>1, <2>2, <2>3, <2>4, <2>5, <2>6, <2>7, Zenon
       DEF Next, InitStep, RefreshStep
<1>. QED  BY <1>1, <1>2, PTL DEF Spec

-----------------------------------------------------------------------------
(* The two copies of the list.                                               *)

ListTypes ==
    /\ ipc \in [Callers -> {"idle", "configured", "loaded", "binding"}]
    /\ rpc \in [Refreshers -> {"none", "asking", "fetching", "fetched", "stored", "balanced"}]
    /\ rlist \in [Refreshers -> SUBSET Names]

\* What a refresh has stored is still there unless it has been overtaken.
ListsInv ==
    /\ ListTypes
    /\ ListsAgree
    /\ \A r \in Stored \ overtaken : domains = rlist[r]

\* What the history variables see of a step.
Stays ==
    /\ \A i \in Callers : ipc[i] = "loaded" => ipc'[i] = "loaded"
    /\ ipc["start"] = "idle" => ipc'["start"] # "configured"

\* A step that is about neither copy and about no refresh between its writes.
Quiet ==
    /\ UNCHANGED <<domains, listed>>
    /\ Stays
    /\ \A r \in Refreshers : /\ rpc[r] = "stored" <=> rpc'[r] = "stored"
                             /\ rpc[r] = "stored" => rlist'[r] = rlist[r]

LEMMA QuietKeeps ==
    ASSUME ListsInv, ListTypes', HNext, Quiet
    PROVE  ListsInv'
<1>1. apart' = apart
  BY DEF HNext, Quiet, Stays
<1>2. Stored' = Stored /\ overtaken' = {r \in overtaken : rpc'[r] = "stored"}
  BY DEF HNext, Quiet, Stored
<1>3. \A r \in Stored \ overtaken' : r \notin overtaken /\ rlist'[r] = rlist[r]
  BY <1>2 DEF Stored, Quiet
<1>. QED  BY <1>1, <1>2, <1>3 DEF ListsInv, ListsAgree, Quiet

\* The writes that do not let both copies agree at once are remembered: the
\* list stored by a refresh is still there, or the refresh is overtaken.
LEMMA Overtakes ==
    ASSUME ListsInv, HNext, NEW r \in Stored' \ overtaken', r \in Stored, rlist'[r] = rlist[r]
    PROVE  domains' = domains /\ domains' = rlist'[r]
  BY DEF ListsInv, HNext, Stored

LEMMA ConfigKeeps ==
    ASSUME ListsInv, ListTypes', HNext, NEW u \in Raw \cup {None}, SetCfProxyConfig(u)
    PROVE  ListsInv'
<1>1. /\ rpc' = rpc /\ rlist' = rlist /\ listed' = listed
      /\ ipc["start"] = "idle" /\ ipc'["start"] = "configured"
      /\ \A i \in Callers : ipc[i] = "loaded" => ipc'[i] = "loaded"
  BY DEF SetCfProxyConfig, ListsInv, ListTypes, refreshers, balancer, Callers
<1>2. apart' = (apart \/ domains' # domains)
  BY <1>1 DEF HNext
<1>3. Stored' = Stored
  BY <1>1 DEF Stored
<1>4. ListsAgree'
  BY <1>1, <1>2, <1>3 DEF ListsInv, ListsAgree
<1>. QED  BY <1>1, <1>3, <1>4, Overtakes DEF ListsInv

LEMMA InitKeeps ==
    ASSUME ListsInv, ListTypes', HNext, NEW i \in Callers, InitStores(i)
    PROVE  ListsInv'
<1>1. /\ rpc' = rpc /\ rlist' = rlist /\ domains' = InitList(i) /\ listed' = InitList(i)
      /\ ipc[i] = "loaded" /\ ipc'[i] # "loaded"
  BY DEF InitStores, UpdateList, ListsInv, ListTypes, refreshers, balancer
<1>2. ListsAgree' /\ Stored' = Stored
  BY <1>1 DEF ListsAgree, Stored
<1>. QED  BY <1>1, <1>2, Overtakes DEF ListsInv

LEMMA StoreKeeps ==
    ASSUME ListsInv, ListTypes', HNext, NEW r \in Refreshers, RefreshStores(r)
    PROVE  ListsInv'
<1>1. rpc[r] = "fetched" /\ ipc' = ipc /\ listed' = listed
  BY DEF RefreshStores, callers, balancer
<1>2. CASE user # None
  <2>1. /\ domains' = domains /\ rpc'[r] = "none"
        /\ \A q \in Refreshers \ {r} : rpc'[q] = rpc[q] /\ rlist'[q] = rlist[q]
    BY <1>2 DEF RefreshStores, Quit, ListsInv, ListTypes
  <2>2. Quiet
    BY <1>1, <2>1 DEF Quiet, Stays
  <2>. QED  BY <2>2, QuietKeeps
<1>3. CASE user = None
  <2>1. /\ domains' = rlist[r] /\ rlist' = rlist /\ rpc'[r] = "stored"
        /\ \A q \in Refreshers \ {r} : rpc'[q] = rpc[q]
    BY <1>3 DEF RefreshStores, ListsInv, ListTypes
  <2>2. r \in Stored' /\ Stored' = Stored \cup {r} /\ ListsAgree'
    BY <2>1 DEF Stored, ListsAgree
  <2>3. \A q \in Stored' \ overtaken' : domains' = rlist'[q]
    BY <2>1, <2>2, Overtakes
  <2>. QED  BY <2>2, <2>3 DEF ListsInv
<1>. QED  BY <1>2, <1>3

LEMMA BalanceKeeps ==
    ASSUME ListsInv, ListTypes', HNext, NEW r \in Refreshers, RefreshBalances(r)
    PROVE  ListsInv'
<1>1. /\ rpc[r] = "stored" /\ rpc'[r] = "balanced" /\ domains' = domains /\ ipc' = ipc
      /\ rlist' = rlist /\ listed' = rlist[r]
      /\ \A q \in Refreshers \ {r} : rpc'[q] = rpc[q]
  BY DEF RefreshBalances, UpdateList, ListsInv, ListTypes, cfg, callers, balancer
<1>2. apart' = (\E q \in overtaken : rpc'[q] = "balanced")
  BY <1>1 DEF HNext
<1>3. r \in overtaken => apart'
  BY <1>1, <1>2
<1>4. r \notin overtaken => domains = rlist[r]
  BY <1>1 DEF ListsInv, Stored
<1>5. ListsAgree'
  BY <1>1, <1>3, <1>4 DEF ListsAgree
<1>6. Stored' = Stored \ {r}
  BY <1>1 DEF Stored
<1>. QED  BY <1>1, <1>5, <1>6, Overtakes DEF ListsInv

\* The actions that write neither copy.
Elsewhere ==
    \/ StartRefused \/ StartRuns \/ StartFails \/ StopProxy \/ FileAges
    \/ \E i \in Callers : InitLoads(i)
    \/ \E r \in Refreshers :
          \/ RefreshCfProxyDomains(r) \/ RefreshAsks(r)
          \/ \E list \in Downloads : Fetched(r, list)
          \/ FetchFails(r) \/ RefreshSaves(r)
    \/ \E c \in Clients : ClientStep(c)

LEMMA ElsewhereQuiet ==
    ASSUME ListTypes, Elsewhere
    PROVE  Quiet
<1>1. CASE StartRefused \/ StartFails
  BY <1>1 DEF StartRefused, StartFails, ListTypes, Quiet, Stays, cfg, balancer,
              refreshers, Callers
<1>2. CASE StartRuns
  BY <1>2 DEF StartRuns, Stale, Ask, ListTypes, Quiet, Stays, cfg, balancer,
              refreshers, Callers
<1>3. CASE StopProxy \/ FileAges
  BY <1>3 DEF StopProxy, FileAges, Quiet, Stays, cfg, balancer, callers, refreshers
<1>4. ASSUME NEW i \in Callers, InitLoads(i)
      PROVE  Quiet
  BY <1>4 DEF InitLoads, InitBegins, ListTypes, Quiet, Stays, cfg, balancer, refreshers
<1>5. ASSUME NEW r \in Refreshers,
             \/ RefreshCfProxyDomains(r) \/ RefreshAsks(r)
             \/ \E list \in Downloads : Fetched(r, list)
             \/ FetchFails(r) \/ RefreshSaves(r)
      PROVE  Quiet
  BY <1>5 DEF RefreshCfProxyDomains, Ask, RefreshAsks, Fetched, FetchFails, RefreshSaves,
              Quit, ListTypes, Quiet, Stays, cfg, balancer, callers
<1>6. ASSUME NEW c \in Clients, ClientStep(c)
      PROVE  Quiet
  BY <1>6 DEF ClientStep, AcquireBegins, AcquireOrders, AcquireEnds, AcquireFails,
              Quiet, Stays, cfg, balancer, callers, refreshers
<1>. QED  BY <1>1, <1>2, <1>3, <1>4, <1>5, <1>6, Zenon DEF Elsewhere

\* The types of the steps.
LEMMA ListTypesStep ==
    ASSUME ListTypes, Next, NameAssumption
    PROVE  ListTypes'
<1>1. CASE UNCHANGED <<ipc, rpc, rlist>>
  BY <1>1 DEF ListTypes
<1>2. CASE \E u \in Raw \cup {None} : SetCfProxyConfig(u)
  BY <1>2 DEF SetCfProxyConfig, ListTypes, refreshers
<1>3. CASE StartRefused \/ StartFails \/ StopProxy \/ FileAges
  BY <1>3 DEF StartRefused, StartFails, StopProxy, FileAges, callers, refreshers, ListTypes
<1>4. CASE StartRuns
  BY <1>4 DEF StartRuns, Stale, Ask, refreshers, ListTypes
<1>5. ASSUME NEW i \in Callers, InitStep(i)
      PROVE  ListTypes'
  BY <1>5 DEF InitStep, InitLoads, InitBegins, InitStores, refreshers, ListTypes
<1>6. ASSUME NEW r \in Refreshers, RefreshCfProxyDomains(r) \/ RefreshStep(r)
      PROVE  ListTypes'
  <2>1. \A list \in Downloads : list \cup Defaults \in SUBSET Names
    BY NameAssumption
  <2>2. CASE \E list \in Downloads : Fetched(r, list)
    BY <2>1, <2>2 DEF Fetched, ListTypes, callers
  <2>3. CASE RefreshCfProxyDomains(r) \/ RefreshAsks(r) \/ FetchFails(r)
    BY <2>3 DEF RefreshCfProxyDomains, Ask, RefreshAsks, FetchFails, Quit, ListTypes, callers
  <2>4. CASE RefreshStores(r) \/ RefreshBalances(r) \/ RefreshSaves(r)
    BY <2>4 DEF RefreshStores, RefreshBalances, RefreshSaves, Quit, ListTypes, callers
  <2>. QED  BY <1>6, <2>2, <2>3, <2>4 DEF RefreshStep
<1>7. ASSUME NEW c \in Clients, ClientStep(c)
      PROVE  ListTypes'
  BY <1>1, <1>7 DEF ClientStep, AcquireBegins, AcquireOrders, AcquireEnds, AcquireFails,
                    callers, refreshers
<1>. QED  BY <1>2, <1>3, <1>4, <1>5, <1>6, <1>7, Zenon DEF Next

LEMMA ListsStep ==
    ASSUME ListsInv, HNext
    PROVE  ListsInv'
<1>1. ListTypes' /\ Next
  BY ListTypesStep, NameAssumption DEF ListsInv, HNext
<1>2. CASE Elsewhere
  BY <1>1, <1>2, ElsewhereQuiet, QuietKeeps DEF ListsInv
<1>3. CASE \E u \in Raw \cup {None} : SetCfProxyConfig(u)
  BY <1>1, <1>3, ConfigKeeps
<1>4. CASE \E i \in Callers : InitStores(i)
  BY <1>1, <1>4, InitKeeps
<1>5. CASE \E r \in Refreshers : RefreshStores(r)
  BY <1>1, <1>5, StoreKeeps
<1>6. CASE \E r \in Refreshers : RefreshBalances(r)
  BY <1>1, <1>6, BalanceKeeps
<1>. QED
  BY <1>1, <1>2, <1>3, <1>4, <1>5, <1>6, Zenon DEF Next, InitStep, RefreshStep, Elsewhere

\* The copies of the list differ only between the writes of a refresh, after a
\* SetCfProxyConfig, and after a refresh that was overtaken, for any number of
\* refreshes in flight.
THEOREM ListsAgreeHolds == HSpec => []ListsAgree
<1>1. HInit => ListsInv
  BY DEF HInit, Init, ListsInv, ListTypes, ListsAgree, Stored
<1>2. ListsInv /\ [HNext]_<<vars, apart, overtaken, late, strays>> => ListsInv'
  <2>1. CASE UNCHANGED <<vars, apart, overtaken, late, strays>>
    BY <2>1 DEF ListsInv, ListTypes, ListsAgree, Stored, vars, cfg, balancer, callers,
                refreshers
  <2>. QED  BY <2>1, ListsStep
<1>3. ListsInv => ListsAgree
  BY DEF ListsInv
<1>. QED  BY <1>1, <1>2, <1>3, PTL DEF HSpec

-----------------------------------------------------------------------------
(* The preferences of the data centres.                                      *)

\* Wherever a list is kept, it is a list of names.
Spelled ==
    /\ user \in Raw \cup {None}
    /\ file \in SUBSET Names /\ listed \in SUBSET Names
    /\ cached \in [Callers -> SUBSET Names]
    /\ rlist \in [Refreshers -> SUBSET Names]

\* The names that may be preferred: those of the list, as they are and normalised.
InReach == listed \cup {Normal[d] : d \in listed}

\* A client that is not late dials what the list in force allows it to prefer.
PreferInv ==
    /\ Spelled
    /\ preferred = [dc \in DCs |-> preferred[dc]]
    /\ cpc = [c \in Clients |-> cpc[c]] /\ dials = [c \in Clients |-> dials[c]]
    /\ PreferredIsListed
    /\ \A c \in Clients \ late : cpc[c] = "dialling" => dials[c] \subseteq InReach \ {None}

LEMMA ListChanges ==
    ASSUME NEW list, UpdateList(list)
    PROVE  listed' \in {listed, list}
  BY DEF UpdateList, balancer

LEMMA SpelledStep ==
    ASSUME Spelled, Next
    PROVE  Spelled'
<1>. USE DEF Spelled
<1>1. ASSUME NEW u \in Raw \cup {None}, SetCfProxyConfig(u)
      PROVE  Spelled'
  BY <1>1 DEF SetCfProxyConfig, disk, balancer, refreshers
<1>2. CASE StartRefused \/ StartRuns \/ StartFails \/ StopProxy \/ FileAges
  BY <1>2 DEF StartRefused, StartRuns, StartFails, StopProxy, FileAges, Ask,
              cfg, disk, balancer, callers, refreshers
<1>3. ASSUME NEW i \in Callers, InitLoads(i)
      PROVE  Spelled'
  BY <1>3 DEF InitLoads, cfg, disk, balancer, refreshers
<1>4. ASSUME NEW i \in Callers, InitStores(i)
      PROVE  Spelled'
  <2>1. InitList(i) \in SUBSET Names
    BY NameAssumption DEF InitList
  <2>2. listed' \in SUBSET Names
    BY <1>4, <2>1, ListChanges DEF InitStores
  <2>. QED  BY <1>4, <2>2 DEF InitStores, disk, refreshers
<1>5. ASSUME NEW r \in Refreshers, NEW list \in Downloads, Fetched(r, list)
      PROVE  Spelled'
  <2>1. list \cup Defaults \in SUBSET Names
    BY NameAssumption
  <2>. QED  BY <1>5, <2>1 DEF Fetched, cfg, disk, balancer, callers
<1>6. ASSUME NEW r \in Refreshers,
             \/ RefreshCfProxyDomains(r) \/ RefreshAsks(r) \/ FetchFails(r)
             \/ RefreshStores(r)
      PROVE  Spelled'
  BY <1>6 DEF RefreshCfProxyDomains, Ask, RefreshAsks, FetchFails, RefreshStores, Quit,
              cfg, disk, balancer, callers
<1>7. ASSUME NEW r \in Refreshers, RefreshBalances(r)
      PROVE  Spelled'
  <2>1. listed' \in SUBSET Names
    BY <1>7, ListChanges DEF RefreshBalances
  <2>. QED  BY <1>7, <2>1 DEF RefreshBalances, cfg, disk, callers
<1>8. ASSUME NEW r \in Refreshers, RefreshSaves(r)
      PROVE  Spelled'
  BY <1>8 DEF RefreshSaves, Quit, cfg, disk, balancer, callers
<1>9. ASSUME NEW c \in Clients, ClientStep(c)
      PROVE  Spelled'
  BY <1>9 DEF ClientStep, AcquireBegins, AcquireOrders, AcquireEnds, AcquireFails,
              cfg, disk, balancer, callers, refreshers
<1>. QED
  BY <1>1, <1>2, <1>3, <1>4, <1>5, <1>6, <1>7, <1>8, <1>9, Zenon
     DEF Next, InitStep, RefreshStep

\* While the list stays, late clients stay late, and only a client that ends
\* its dials changes who has a stray preference.
LEMMA SameList ==
    ASSUME HNext, listed' = listed
    PROVE  /\ \A c \in Clients \ late' : cpc'[c] = "dialling" =>
                 c \notin late /\ (cpc[c] = "ordering" => DcOf[c] \notin strays)
           /\ \A dc \in DCs \ strays' :
                 IF \E c \in Clients : cpc[c] = "dialling" /\ cpc'[c] = "idle" /\ DcOf[c] = dc
                                       /\ preferred' # preferred
                 THEN \A c \in late : ~(cpc'[c] = "idle" /\ DcOf[c] = dc)
                 ELSE dc \notin strays
<1>1. \A c \in Clients \ late' : cpc'[c] = "dialling" =>
         c \notin late /\ (cpc[c] = "ordering" => DcOf[c] \notin strays)
  BY DEF HNext
<1>2. strays' = {dc \in DCs :
          IF \E c \in Clients : cpc[c] = "dialling" /\ cpc'[c] = "idle" /\ DcOf[c] = dc
                                /\ preferred' # preferred
          THEN \E c \in late : cpc'[c] = "idle" /\ DcOf[c] = dc
          ELSE dc \in strays}
  BY DEF HNext
<1>. QED  BY <1>1, <1>2

\* Clients and balancer stay, or the clients do and the list changes.
LEMMA BalancerKeeps ==
    ASSUME PreferInv, Spelled', HNext, UNCHANGED clients,
           UNCHANGED balancer \/ \E list : UpdateList(list)
    PROVE  PreferInv'
<1>. UNCHANGED <<cpc, dials>>
  BY DEF clients
<1>1. CASE UNCHANGED balancer
  <2>1. UNCHANGED <<listed, preferred>>
    BY <1>1 DEF balancer
  <2>2. PreferredIsListed'
    BY <2>1, SameList DEF PreferInv, PreferredIsListed
  <2>3. \A c \in Clients \ late' : cpc'[c] = "dialling" => dials'[c] \subseteq InReach' \ {None}
    BY <2>1, SameList DEF PreferInv, InReach
  <2>. QED  BY <2>1, <2>2, <2>3 DEF PreferInv
<1>2. ASSUME NEW list, UpdateList(list), ~UNCHANGED balancer
      PROVE  PreferInv'
  <2>1. PICK choice \in [DCs -> list] :
           /\ list # listed /\ listed' = list
           /\ preferred' = [dc \in DCs |-> IF preferred[dc] \in list
                                           THEN preferred[dc] ELSE choice[dc]]
    BY <1>2, Zenon DEF UpdateList
  <2>2. PreferredIsListed'
    BY <2>1 DEF PreferredIsListed
  <2>3. \A c \in Clients \ late' : cpc'[c] # "dialling"
    BY <2>1 DEF HNext
  <2>4. preferred' = [dc \in DCs |-> preferred'[dc]]
    BY <2>1
  <2>. QED  BY <2>2, <2>3, <2>4 DEF PreferInv
<1>. QED  BY <1>1, <1>2

\* A client without a new preference.
LEMMA SamePreference ==
    ASSUME PreferInv, HNext, UNCHANGED balancer
    PROVE  PreferredIsListed'
<1>1. listed' = listed /\ preferred' = preferred
  BY DEF balancer
<1>. QED  BY <1>1, SameList DEF PreferInv, PreferredIsListed

LEMMA OrdersKeeps ==
    ASSUME PreferInv, Spelled', HNext, NEW c \in Clients, AcquireOrders(c)
    PROVE  PreferInv'
<1>1. /\ UNCHANGED balancer /\ listed' = listed /\ preferred' = preferred
      /\ cpc[c] = "ordering"
      /\ cpc' = [cpc EXCEPT ![c] = "dialling"]
      /\ dials' = [dials EXCEPT ![c] = DomainsFor(DcOf[c])]
  BY DEF AcquireOrders, balancer
<1>2. ASSUME NEW e \in Clients \ late', cpc'[e] = "dialling"
      PROVE  dials'[e] \subseteq InReach' \ {None}
  <2>1. e \notin late /\ (cpc[e] = "ordering" => DcOf[e] \notin strays)
    BY <1>1, <1>2, SameList
  <2>2. CASE e = c
    <3>1. DcOf[c] \in DCs \ strays
      BY <1>1, <2>1, <2>2, OtherAssumption
    <3>2. preferred[DcOf[c]] \in InReach \cup {None}
      BY <3>1 DEF PreferInv, PreferredIsListed, InReach
    <3>3. DomainsFor(DcOf[c]) \subseteq InReach \ {None}
      BY <3>2, NameAssumption DEF DomainsFor, InReach, PreferInv, Spelled
    <3>. QED  BY <1>1, <2>2, <3>3 DEF PreferInv, InReach
  <2>3. CASE e # c
    BY <1>1, <1>2, <2>1, <2>3 DEF PreferInv, InReach
  <2>. QED  BY <2>2, <2>3
<1>. QED  BY <1>1, <1>2, SamePreference DEF PreferInv

LEMMA EndsKeeps ==
    ASSUME PreferInv, Spelled', HNext, NEW c \in Clients, NEW d \in Names, AcquireEnds(c, d)
    PROVE  PreferInv'
<1>1. /\ listed' = listed /\ d \in Dialled(c) /\ cpc[c] = "dialling"
      /\ preferred' = [preferred EXCEPT ![DcOf[c]] = d]
      /\ cpc' = [cpc EXCEPT ![c] = "idle"]
      /\ dials' = [dials EXCEPT ![c] = {}]
  BY DEF AcquireEnds
<1>2. \A e \in Clients \ {c} : cpc'[e] = cpc[e] /\ dials'[e] = dials[e]
  BY <1>1 DEF PreferInv
<1>3. cpc'[c] = "idle" /\ DcOf[c] \in DCs
  BY <1>1, OtherAssumption DEF PreferInv
<1>4. \A e \in Clients \ late' : cpc'[e] = "dialling" => dials'[e] \subseteq InReach' \ {None}
  BY <1>1, <1>2, <1>3, SameList DEF PreferInv, InReach
<1>5. ASSUME NEW dc \in DCs \ strays'
      PROVE  preferred'[dc] \in InReach \cup {None}
  <2>1. CASE preferred' # preferred /\ dc = DcOf[c]
    <3>1. c \notin late
      BY <1>1, <1>3, <1>5, <2>1, SameList
    <3>2. PICK x \in dials[c] : d = Normal[x] /\ d # None
      BY <1>1 DEF Dialled
    <3>3. x \in InReach /\ x # None
      BY <1>1, <3>1, <3>2 DEF PreferInv
    <3>4. CASE x \in listed
      BY <1>1, <1>3, <2>1, <3>2, <3>4 DEF PreferInv, InReach
    <3>5. ASSUME NEW n \in listed, x = Normal[n]
          PROVE  d \in InReach
      <4>1. n \in Names
        BY <3>5 DEF PreferInv, Spelled
      <4>2. Normal[n] # None => Normal[Normal[n]] = Normal[n]
        BY <4>1, SpellingAssumption
      <4>. QED  BY <3>2, <3>3, <3>5, <4>2 DEF InReach
    <3>. QED  BY <1>1, <1>3, <2>1, <3>3, <3>4, <3>5 DEF PreferInv, InReach
  <2>2. CASE ~(preferred' # preferred /\ dc = DcOf[c])
    <3>1. preferred'[dc] = preferred[dc]
      BY <1>1, <1>3, <2>2 DEF PreferInv
    <3>2. ~ \E e \in Clients : cpc[e] = "dialling" /\ cpc'[e] = "idle" /\ DcOf[e] = dc
                               /\ preferred' # preferred
      BY <1>1, <1>2, <2>2
    <3>3. dc \notin strays
      BY <1>1, <1>5, <3>2, SameList
    <3>. QED  BY <3>1, <3>3 DEF PreferInv, PreferredIsListed, InReach
  <2>. QED  BY <2>1, <2>2
<1>6. PreferredIsListed'
  BY <1>1, <1>5 DEF PreferredIsListed, InReach
<1>7. /\ preferred' = [dc \in DCs |-> preferred'[dc]]
      /\ cpc' = [e \in Clients |-> cpc'[e]] /\ dials' = [e \in Clients |-> dials'[e]]
  BY <1>1 DEF PreferInv
<1>. QED  BY <1>4, <1>6, <1>7 DEF PreferInv

LEMMA PreferStep ==
    ASSUME PreferInv, HNext
    PROVE  PreferInv'
<1>1. Spelled' /\ Next
  BY SpelledStep DEF PreferInv, HNext
<1>2. ASSUME NEW c \in Clients, AcquireBegins(c) \/ AcquireFails(c)
      PROVE  PreferInv'
  <2>1. /\ UNCHANGED balancer /\ listed' = listed /\ preferred' = preferred
        /\ cpc' = [cpc EXCEPT ![c] = "ordering"] \/ cpc' = [cpc EXCEPT ![c] = "idle"]
        /\ dials' = dials \/ dials' = [dials EXCEPT ![c] = {}]
    BY <1>2 DEF AcquireBegins, AcquireFails, balancer
  <2>2. \A e \in Clients \ late' : cpc'[e] = "dialling" => dials'[e] \subseteq InReach' \ {None}
    BY <2>1, SameList DEF PreferInv, InReach
  <2>. QED  BY <1>1, <2>1, <2>2, SamePreference DEF PreferInv
<1>3. ASSUME NEW c \in Clients, ClientStep(c)
      PROVE  PreferInv'
  BY <1>1, <1>2, <1>3, OrdersKeeps, EndsKeeps DEF ClientStep
<1>4. CASE UNCHANGED <<clients, balancer>>
  BY <1>1, <1>4, BalancerKeeps
<1>5. ASSUME NEW i \in Callers, InitStep(i)
      PROVE  PreferInv'
  <2>1. UNCHANGED clients
    BY <1>5 DEF InitStep, InitLoads, InitStores
  <2>2. UNCHANGED balancer \/ \E list : UpdateList(list)
    BY <1>5, Zenon DEF InitStep, InitLoads, InitStores
  <2>. QED  BY <1>1, <2>1, <2>2, BalancerKeeps
<1>6. ASSUME NEW r \in Refreshers, RefreshStep(r)
      PROVE  PreferInv'
  <2>1. UNCHANGED clients
    BY <1>6 DEF RefreshStep, RefreshAsks, Fetched, FetchFails, RefreshStores,
                RefreshBalances, RefreshSaves
  <2>2. UNCHANGED balancer \/ \E list : UpdateList(list)
    BY <1>6, Zenon DEF RefreshStep, RefreshAsks, Fetched, FetchFails, RefreshStores,
                       RefreshBalances, RefreshSaves
  <2>. QED  BY <1>1, <2>1, <2>2, BalancerKeeps
<1>7. CASE \/ \E u \in Raw \cup {None} : SetCfProxyConfig(u)
           \/ StartRefused \/ StartRuns \/ StartFails \/ StopProxy \/ FileAges
           \/ \E r \in Refreshers : RefreshCfProxyDomains(r)
  BY <1>4, <1>7, Zenon
     DEF SetCfProxyConfig, StartRefused, StartRuns, StartFails, StopProxy, FileAges,
         RefreshCfProxyDomains
<1>. QED  BY <1>1, <1>3, <1>5, <1>6, <1>7, Zenon DEF Next

\* A domain taken off the list is preferred only where a client put it whose
\* dials began before, for any number of clients, refreshes and data centres
\* and every spelling a user may type.
THEOREM PreferredIsListedHolds == HSpec => []PreferredIsListed
<1>1. HInit => PreferInv
  <2>1. HInit => Spelled
    BY NameAssumption DEF HInit, Init, Spelled
  <2>. QED  BY <2>1 DEF HInit, Init, PreferInv, PreferredIsListed
<1>2. PreferInv /\ [HNext]_<<vars, apart, overtaken, late, strays>> => PreferInv'
  <2>1. CASE UNCHANGED <<vars, apart, overtaken, late, strays>>
    BY <2>1 DEF PreferInv, Spelled, PreferredIsListed, InReach, vars, cfg, disk, balancer,
                callers, refreshers, clients
  <2>. QED  BY <2>1, PreferStep
<1>3. PreferInv => PreferredIsListed
  BY DEF PreferInv
<1>. QED  BY <1>1, <1>2, <1>3, PTL DEF HSpec
-----------------------------------------------------------------------------
(* The types.                                                                *)

\* A list of known spellings leaves every data centre one of them.
LEMMA BalancerTypes ==
    ASSUME TypeOK, NEW list \in SUBSET Names, UpdateList(list)
    PROVE  listed' \in SUBSET Names /\ preferred' \in [DCs -> Names \cup {None}]
  BY DEF TypeOK, UpdateList, balancer

LEMMA DefaultsNamed == Defaults \in SUBSET Names /\ \A u \in Raw : {u} \in SUBSET Names
  BY NameAssumption

LEMMA SessionTypes ==
    ASSUME TypeOK,
           \/ \E u \in Raw \cup {None} : SetCfProxyConfig(u)
           \/ StartRefused \/ StartFails \/ StopProxy \/ FileAges
           \/ \E i \in Callers : InitStep(i)
    PROVE  TypeOK'
<1>1. user' \in Raw \cup {None} /\ domains' \in SUBSET Names
  <2>1. ASSUME NEW u \in Raw \cup {None}, SetCfProxyConfig(u)
        PROVE  user' \in Raw \cup {None} /\ domains' \in SUBSET Names
    BY <2>1, DefaultsNamed DEF TypeOK, SetCfProxyConfig
  <2>2. ASSUME NEW i \in Callers, InitStep(i)
        PROVE  user' \in Raw \cup {None} /\ domains' \in SUBSET Names
    BY <2>2, DefaultsNamed DEF TypeOK, InitStep, InitLoads, InitStores, InitList, cfg
  <2>. QED  BY <2>1, <2>2, Zenon DEF TypeOK, StartRefused, StartFails, StopProxy, FileAges, cfg
<1>2. listed' \in SUBSET Names /\ preferred' \in [DCs -> Names \cup {None}]
  <2>1. ASSUME NEW i \in Callers, InitStores(i)
        PROVE  listed' \in SUBSET Names /\ preferred' \in [DCs -> Names \cup {None}]
    <3>1. InitList(i) \in SUBSET Names /\ UpdateList(InitList(i))
      BY <2>1, DefaultsNamed DEF TypeOK, InitStores, InitList
    <3>. QED  BY <3>1, BalancerTypes
  <2>. QED  BY <2>1, Zenon DEF TypeOK, SetCfProxyConfig, StartRefused, StartFails, StopProxy,
                               FileAges, InitStep, InitLoads, balancer
<1>3. /\ ipc' \in [Callers -> {"idle", "configured", "loaded", "binding"}]
      /\ cached' \in [Callers -> SUBSET Names]
  BY DEF TypeOK, SetCfProxyConfig, StartRefused, StartFails, StopProxy, FileAges,
         InitStep, InitLoads, InitStores, callers
<1>4. /\ cacheDir' \in BOOLEAN /\ fresh' \in BOOLEAN /\ running' \in BOOLEAN
      /\ everRun' \in BOOLEAN /\ file' \in SUBSET Names
  BY Zenon DEF TypeOK, SetCfProxyConfig, StartRefused, StartFails, StopProxy, FileAges,
               InitStep, InitLoads, InitStores, cfg, disk, session
<1>5. UNCHANGED <<refreshers, clients>>
  BY Zenon DEF SetCfProxyConfig, StartRefused, StartFails, StopProxy, FileAges,
               InitStep, InitLoads, InitStores
<1>. QED  BY <1>1, <1>2, <1>3, <1>4, <1>5, Zenon DEF TypeOK, refreshers, clients

LEMMA RefresherTypes ==
    ASSUME TypeOK, StartRuns \/ \E r \in Refreshers : RefreshCfProxyDomains(r) \/ RefreshStep(r)
    PROVE  /\ rpc' \in [Refreshers -> {"none", "asking", "fetching", "fetched",
                                       "stored", "balanced"}]
           /\ rlist' \in [Refreshers -> SUBSET Names]
           /\ left' \in [Refreshers -> 0..Tries]
<1>1. /\ rpc' \in [Refreshers -> {"none", "asking", "fetching", "fetched",
                                  "stored", "balanced"}]
      /\ rlist' \in [Refreshers -> SUBSET Names]
  <2>1. \A list \in Downloads : list \cup Defaults \in SUBSET Names
    BY NameAssumption
  <2>. QED  BY <2>1 DEF TypeOK, StartRuns, RefreshCfProxyDomains, Ask, RefreshStep, RefreshAsks,
                        Fetched, FetchFails, RefreshStores, RefreshBalances, RefreshSaves, Quit, refreshers
<1>2. left' \in [Refreshers -> 0..Tries]
  <2>1. 0 \in 0..Tries /\ 1 \in 0..Tries /\ Tries \in 0..Tries
    BY OtherAssumption
  <2>2. \A r \in Refreshers : left[r] > 1 => left[r] - 1 \in 0..Tries
    BY OtherAssumption DEF TypeOK
  <2>. QED  BY <2>1, <2>2
               DEF TypeOK, StartRuns, RefreshCfProxyDomains, Ask, RefreshStep, RefreshAsks, Fetched,
                   FetchFails, RefreshStores, RefreshBalances, RefreshSaves, Quit, refreshers
<1>. QED  BY <1>1, <1>2

LEMMA RefreshTypes ==
    ASSUME TypeOK, StartRuns \/ \E r \in Refreshers : RefreshCfProxyDomains(r) \/ RefreshStep(r)
    PROVE  TypeOK'
<1>1. listed' \in SUBSET Names /\ preferred' \in [DCs -> Names \cup {None}]
  <2>1. ASSUME NEW r \in Refreshers, RefreshBalances(r)
        PROVE  listed' \in SUBSET Names /\ preferred' \in [DCs -> Names \cup {None}]
    BY <2>1, BalancerTypes DEF TypeOK, RefreshBalances
  <2>. QED  BY <2>1, Zenon DEF TypeOK, StartRuns, RefreshCfProxyDomains, RefreshStep, RefreshAsks,
                               Fetched, FetchFails, RefreshStores, RefreshSaves, balancer
<1>2. /\ user' = user /\ domains' \in SUBSET Names /\ cacheDir' = cacheDir
      /\ file' \in SUBSET Names
  BY DEF TypeOK, StartRuns, RefreshCfProxyDomains, RefreshStep, RefreshAsks, Fetched, FetchFails,
         RefreshStores, RefreshBalances, RefreshSaves, cfg, disk
<1>3. /\ running' \in BOOLEAN /\ everRun' \in BOOLEAN /\ fresh' \in BOOLEAN
  BY Zenon DEF TypeOK, StartRuns, RefreshCfProxyDomains, RefreshStep, RefreshAsks, Fetched,
               FetchFails, RefreshStores, RefreshBalances, RefreshSaves, session, disk
<1>4. /\ ipc' \in [Callers -> {"idle", "configured", "loaded", "binding"}]
      /\ cached' = cached /\ UNCHANGED clients
  BY DEF TypeOK, StartRuns, RefreshCfProxyDomains, RefreshStep, RefreshAsks, Fetched, FetchFails,
         RefreshStores, RefreshBalances, RefreshSaves, callers
<1>. QED  BY <1>1, <1>2, <1>3, <1>4, RefresherTypes, Zenon DEF TypeOK, clients

LEMMA ClientTypes ==
    ASSUME TypeOK, NEW c \in Clients, ClientStep(c)
    PROVE  TypeOK'
<1>1. /\ cpc' \in [Clients -> {"idle", "ordering", "dialling"}]
      /\ dials' \in [Clients -> SUBSET Names]
  <2>1. DomainsFor(DcOf[c]) \in SUBSET Names
    BY OtherAssumption DEF TypeOK, DomainsFor
  <2>. QED  BY <2>1 DEF TypeOK, ClientStep, AcquireBegins, AcquireOrders, AcquireEnds, AcquireFails
<1>2. listed' = listed /\ preferred' \in [DCs -> Names \cup {None}]
  BY DEF TypeOK, ClientStep, AcquireBegins, AcquireOrders, AcquireEnds, AcquireFails, balancer
<1>3. UNCHANGED <<cfg, disk, session, callers, refreshers>>
  BY Zenon DEF ClientStep, AcquireBegins, AcquireOrders, AcquireEnds, AcquireFails
<1>. QED  BY <1>1, <1>2, <1>3, Zenon DEF TypeOK, cfg, disk, session, callers, refreshers

\* Every list holds only known spellings, and every data centre prefers one of
\* them or none, whoever wrote them: the cache, a download, the user or a
\* client whose dial has succeeded.  A refresh has at most Tries tries left.
THEOREM TypeCorrect == Spec => []TypeOK
<1>1. Init => TypeOK
  <2> SUFFICES ASSUME Init PROVE TypeOK
    OBVIOUS
  <2>1. file \in SUBSET Names /\ left \in [Refreshers -> 0..Tries]
    BY NameAssumption, OtherAssumption DEF Init
  <2>2. /\ cacheDir \in BOOLEAN /\ fresh \in BOOLEAN
        /\ running \in BOOLEAN /\ everRun \in BOOLEAN
    BY Zenon DEF Init
  <2>3. /\ user \in Raw \cup {None} /\ domains \in SUBSET Names /\ listed \in SUBSET Names
        /\ preferred \in [DCs -> Names \cup {None}]
        /\ ipc \in [Callers -> {"idle", "configured", "loaded", "binding"}]
        /\ cached \in [Callers -> SUBSET Names]
        /\ rpc \in [Refreshers -> {"none", "asking", "fetching", "fetched",
                                   "stored", "balanced"}]
        /\ rlist \in [Refreshers -> SUBSET Names]
        /\ cpc \in [Clients -> {"idle", "ordering", "dialling"}]
        /\ dials \in [Clients -> SUBSET Names]
    BY DEF Init
  <2>. QED  BY <2>1, <2>2, <2>3, Zenon DEF TypeOK
<1>2. TypeOK /\ [Next]_vars => TypeOK'
  <2>1. CASE UNCHANGED vars
    BY <2>1, Zenon DEF vars, cfg, disk, balancer, session, callers, refreshers, clients, TypeOK
  <2>. QED  BY <2>1, SessionTypes, RefreshTypes, ClientTypes, Zenon DEF Next
<1>. QED  BY <1>1, <1>2, PTL DEF Spec
=============================================================================
