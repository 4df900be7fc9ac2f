------------------------------ MODULE CfDomains ------------------------------
(***************************************************************************)
(* The list of Cloudflare domains (src-wrapper/src/cfproxy.rs, lib.rs and   *)
(* balancer.rs).                                                            *)
(*                                                                         *)
(* The list is kept twice: in CFPROXY, which the exported functions show    *)
(* and a client tests, and in BALANCER, from which a client takes the       *)
(* domains it dials, together with the domain each data centre prefers.     *)
(* Each copy has a lock of its own.  init_cfproxy_domains takes the second  *)
(* inside the first, try_refresh_cfproxy_domains one after the other with   *)
(* a download before them, and SetCfProxyConfig only the first.  A file     *)
(* keeps the list over restarts.                                            *)
(*                                                                         *)
(* A list is the set of its domains: the balancer compares lists sorted and *)
(* hands them out shuffled.  CfproxyConfig.active is written and never read,*)
(* and CFPROXY_ENABLED is ClientRoute's: here a client may always stay away.*)
(***************************************************************************)
EXTENDS Integers, FiniteSets

CONSTANTS Clients,
          Refreshers,   \* the calls of try_refresh_cfproxy_domains in flight
          Names,        \* the spellings of domains
          Raw,          \* those a user may type
          Normal,       \* spelling -> normalize_cf_domain of it, None for ""
          Defaults,     \* default_cfproxy_domains
          Downloads,    \* the lists GitHub may serve, as normalised sets
          Caches,       \* the lists an earlier run may have left in the file
          DCs,          \* those of update_domains_list: 1 to 5 and 203
          DcOf,         \* client -> its data centre
          Tries,        \* the 3 of start_cfproxy_refresh
          None

ASSUME NameAssumption ==
    /\ None \notin Names
    /\ Raw \subseteq Names
    /\ Normal \in [Names -> Names \cup {None}]
    /\ Defaults \subseteq Names /\ Defaults # {}
    /\ Downloads \subseteq (SUBSET Names) \ {{}} /\ Caches \subseteq SUBSET Names
    /\ \A d \in Defaults \cup (UNION Downloads) \cup (UNION Caches) : Normal[d] = d

ASSUME OtherAssumption ==
    /\ Tries \in Nat \ {0}
    /\ DcOf \in [Clients -> DCs]

\* A normalised spelling is left as it is: it ends with ".co.uk", so that
\* decode_cf_domain does not touch it.
ASSUME SpellingAssumption ==
    \A n \in Names : Normal[n] # None => Normal[Normal[n]] = Normal[n]

\* Who calls init_cfproxy_domains: the thread of StartProxy, and the main
\* thread in GetCfProxyDomains.
Callers == {"start", "list"}

VARIABLES
    user,       \* CFPROXY.user_domain, None for ""
    domains,    \* CFPROXY.domains
    cacheDir,   \* CFPROXY.cache_dir is set
    file,       \* the list in the cache file, {} without a file
    fresh,      \* the file is younger than CFPROXY_REFRESH_INTERVAL
    listed,     \* BALANCER.domains
    preferred,  \* BALANCER.dc_to_domain, None for a missing key
    running,    \* STATE holds a session
    everRun,    \* some session has been started
    ipc,        \* caller -> where it is on its way through init_cfproxy_domains
    cached,     \* caller -> what it has read from the cache
    rpc,        \* refresher -> where it is in try_refresh_cfproxy_domains
    rlist,      \* refresher -> `merged`
    left,       \* refresher -> the tries it may still make
    cpc,        \* client -> where it is in cfproxy_acquire_ws
    dials       \* client -> `ordered`, as a set

cfg == <<user, domains, cacheDir>>
disk == <<file, fresh>>
balancer == <<listed, preferred>>
session == <<running, everRun>>
callers == <<ipc, cached>>
refreshers == <<rpc, rlist, left>>
clients == <<cpc, dials>>
vars == <<cfg, disk, balancer, session, callers, refreshers, clients>>

-----------------------------------------------------------------------------

TypeOK ==
    /\ user \in Raw \cup {None}
    /\ domains \in SUBSET Names
    /\ cacheDir \in BOOLEAN
    /\ file \in SUBSET Names /\ fresh \in BOOLEAN
    /\ listed \in SUBSET Names
    /\ preferred \in [DCs -> Names \cup {None}]
    /\ running \in BOOLEAN /\ everRun \in BOOLEAN
    /\ ipc \in [Callers -> {"idle", "configured", "loaded", "binding"}]
    /\ cached \in [Callers -> SUBSET Names]
    /\ rpc \in [Refreshers -> {"none", "asking", "fetching", "fetched",
                               "stored", "balanced"}]
    /\ rlist \in [Refreshers -> SUBSET Names]
    /\ left \in [Refreshers -> 0..Tries]
    /\ cpc \in [Clients -> {"idle", "ordering", "dialling"}]
    /\ dials \in [Clients -> SUBSET Names]

Init ==
    /\ user = None /\ domains = {} /\ cacheDir = FALSE
    /\ file \in {{}} \cup Caches
    /\ fresh \in BOOLEAN /\ (file = {} => ~fresh)
    /\ listed = {}
    /\ preferred = [dc \in DCs |-> None]
    /\ running = FALSE /\ everRun = FALSE
    /\ ipc = [i \in Callers |-> "idle"]
    /\ cached = [i \in Callers |-> {}]
    /\ rpc = [r \in Refreshers |-> "none"]
    /\ rlist = [r \in Refreshers |-> {}]
    /\ left = [r \in Refreshers |-> 0]
    /\ cpc = [c \in Clients |-> "idle"]
    /\ dials = [c \in Clients |-> {}]

-----------------------------------------------------------------------------
(* The balancer.                                                            *)

\* Mutant of UpdateList: the preferences are not checked against the new list.
UpdateListKeepsAll(list) ==
    \/ /\ list = listed
       /\ UNCHANGED balancer
    \/ /\ list # listed
       /\ listed' = list
       /\ \E choice \in [DCs -> list] :
             preferred' = [dc \in DCs |-> IF preferred[dc] # None
                                          THEN preferred[dc] ELSE choice[dc]]

\* update_domains_list: an equal list changes nothing, another one takes the
\* preference from the data centres whose domain is not in it, and they and
\* those without one get any domain of the list.  (No caller passes an empty
\* list.)
UpdateList(list) ==
    \/ /\ list = listed
       /\ UNCHANGED balancer
    \/ /\ list # listed
       /\ listed' = list
       /\ \E choice \in [DCs -> list] :
             preferred' = [dc \in DCs |-> IF preferred[dc] \in list
                                          THEN preferred[dc] ELSE choice[dc]]

\* get_domains_for_dc: the preferred domain even if it is not in the list.
DomainsFor(dc) == ({preferred[dc]} \ {None}) \cup listed

-----------------------------------------------------------------------------
(* The exported functions.                                                  *)

\* NativeProxy.start: SetCfProxyCacheDir and SetCfProxyConfig, of which the
\* second does not tell the balancer, then StartProxy ...
SetCfProxyConfig(u) ==
    /\ ipc["start"] = "idle"
    /\ ipc' = [ipc EXCEPT !["start"] = "configured"]
    /\ cacheDir' = TRUE
    /\ user' = u
    /\ domains' = IF u # None THEN {u} ELSE domains
    /\ UNCHANGED <<disk, balancer, session, cached, refreshers, clients>>

\* ... which returns -1 at once if a session is there ...
StartRefused ==
    /\ ipc["start"] = "configured"
    /\ running
    /\ ipc' = [ipc EXCEPT !["start"] = "idle"]
    /\ UNCHANGED <<cfg, disk, balancer, session, cached, refreshers, clients>>

\* ... and otherwise calls init_cfproxy_domains.  So does GetCfProxyDomains if
\* the list is empty.
InitBegins(i) ==
    \/ i = "start" /\ ipc[i] = "configured" /\ ~running
    \/ i = "list" /\ ipc[i] = "idle" /\ domains = {}

\* load_cfproxy_domains_from_cache, before the lock is taken.
InitLoads(i) ==
    /\ InitBegins(i)
    /\ ipc' = [ipc EXCEPT ![i] = "loaded"]
    /\ cached' = [cached EXCEPT ![i] = IF cacheDir THEN file ELSE {}]
    /\ UNCHANGED <<cfg, disk, balancer, session, refreshers, clients>>

\* What init_cfproxy_domains puts in force.
InitList(i) == IF user # None THEN {user} ELSE cached[i] \cup Defaults

\* Mutant of InitStores: only CFPROXY learns the list.
InitStoresOnce(i) ==
    /\ ipc[i] = "loaded"
    /\ domains' = InitList(i)
    /\ ipc' = [ipc EXCEPT ![i] = IF i = "start" THEN "binding" ELSE "idle"]
    /\ cached' = [cached EXCEPT ![i] = {}]
    /\ UNCHANGED <<user, cacheDir, disk, balancer, session, refreshers,
                   clients>>

\* The rest of init_cfproxy_domains, under the lock of CFPROXY, inside which
\* that of BALANCER is taken.
InitStores(i) ==
    /\ ipc[i] = "loaded"
    /\ domains' = InitList(i)
    /\ UpdateList(InitList(i))
    /\ ipc' = [ipc EXCEPT ![i] = IF i = "start" THEN "binding" ELSE "idle"]
    /\ cached' = [cached EXCEPT ![i] = {}]
    /\ UNCHANGED <<user, cacheDir, disk, session, refreshers, clients>>

Ask(r, tries) ==
    /\ rpc[r] = "none"
    /\ rpc' = [rpc EXCEPT ![r] = "asking"]
    /\ left' = [left EXCEPT ![r] = tries]
    /\ UNCHANGED rlist

\* should_refresh_cfproxy_domains.
Stale == ~(cacheDir /\ file # {} /\ fresh)

\* The port is bound and run_proxy begins: start_cfproxy_refresh.
StartRuns ==
    /\ ipc["start"] = "binding"
    /\ ipc' = [ipc EXCEPT !["start"] = "idle"]
    /\ running' = TRUE /\ everRun' = TRUE
    /\ \/ Stale /\ \E r \in Refreshers : Ask(r, Tries)
       \/ ~Stale /\ UNCHANGED refreshers
    /\ UNCHANGED <<cfg, disk, balancer, cached, clients>>

\* The port is taken: -3.
StartFails ==
    /\ ipc["start"] = "binding"
    /\ ipc' = [ipc EXCEPT !["start"] = "idle"]
    /\ UNCHANGED <<cfg, disk, balancer, session, cached, refreshers, clients>>

StopProxy ==
    /\ running
    /\ running' = FALSE
    /\ UNCHANGED <<cfg, disk, balancer, everRun, callers, refreshers, clients>>

\* RefreshCfProxyDomains blocks its thread on one try.
RefreshCfProxyDomains(r) ==
    /\ Ask(r, 1)
    /\ UNCHANGED <<cfg, disk, balancer, session, callers, clients>>

\* The file reaches the age of the next refresh.
FileAges ==
    /\ fresh
    /\ fresh' = FALSE
    /\ UNCHANGED <<cfg, file, balancer, session, callers, refreshers, clients>>

-----------------------------------------------------------------------------
(* try_refresh_cfproxy_domains.                                             *)

Quit(r) ==
    /\ rpc' = [rpc EXCEPT ![r] = "none"]
    /\ rlist' = [rlist EXCEPT ![r] = {}]
    /\ left' = [left EXCEPT ![r] = 0]

\* With a user's domain there is nothing to refresh.
RefreshAsks(r) ==
    /\ rpc[r] = "asking"
    /\ \/ user # None /\ Quit(r)
       \/ /\ user = None
          /\ rpc' = [rpc EXCEPT ![r] = "fetching"]
          /\ UNCHANGED <<rlist, left>>
    /\ UNCHANGED <<cfg, disk, balancer, session, callers, clients>>

\* The download ends with a list, to which the defaults are added ...
Fetched(r, list) ==
    /\ rpc[r] = "fetching"
    /\ rpc' = [rpc EXCEPT ![r] = "fetched"]
    /\ rlist' = [rlist EXCEPT ![r] = list \cup Defaults]
    /\ UNCHANGED <<cfg, disk, balancer, session, callers, left, clients>>

\* ... or without one; the task of start_cfproxy_refresh sleeps and tries again.
FetchFails(r) ==
    /\ rpc[r] = "fetching"
    /\ \/ left[r] = 1 /\ Quit(r)
       \/ /\ left[r] > 1
          /\ left' = [left EXCEPT ![r] = @ - 1]
          /\ rpc' = [rpc EXCEPT ![r] = "asking"]
          /\ UNCHANGED rlist
    /\ UNCHANGED <<cfg, disk, balancer, session, callers, clients>>

\* Mutant of RefreshStores: the test before the download is enough.
RefreshStoresUnasked(r) ==
    /\ rpc[r] = "fetched"
    /\ domains' = rlist[r]
    /\ rpc' = [rpc EXCEPT ![r] = "stored"]
    /\ UNCHANGED <<user, cacheDir, disk, balancer, session, callers,
                   rlist, left, clients>>

\* Under the lock of CFPROXY the user's domain is tested once more.
RefreshStores(r) ==
    /\ rpc[r] = "fetched"
    /\ \/ user # None /\ Quit(r) /\ UNCHANGED domains
       \/ /\ user = None
          /\ rpc' = [rpc EXCEPT ![r] = "stored"]
          /\ domains' = rlist[r]
          /\ UNCHANGED <<rlist, left>>
    /\ UNCHANGED <<user, cacheDir, disk, balancer, session, callers,
                   clients>>

\* The lock is free again when that of BALANCER is asked for.
RefreshBalances(r) ==
    /\ rpc[r] = "stored"
    /\ UpdateList(rlist[r])
    /\ rpc' = [rpc EXCEPT ![r] = "balanced"]
    /\ UNCHANGED <<cfg, disk, session, callers, rlist, left, clients>>

\* save_cfproxy_domains_to_cache, which may fail without a trace.
RefreshSaves(r) ==
    /\ rpc[r] = "balanced"
    /\ Quit(r)
    /\ \/ cacheDir /\ file' = rlist[r] /\ fresh' = TRUE
       \/ UNCHANGED disk
    /\ UNCHANGED <<cfg, balancer, session, callers, clients>>

-----------------------------------------------------------------------------
(* cfproxy_acquire_ws, as far as it uses the lists.                         *)

\* CFPROXY is read: is there a list at all?  Handlers outlive their session.
AcquireBegins(c) ==
    /\ everRun
    /\ cpc[c] = "idle"
    /\ domains # {}
    /\ cpc' = [cpc EXCEPT ![c] = "ordering"]
    /\ UNCHANGED <<cfg, disk, balancer, session, callers, refreshers, dials>>

\* BALANCER is read: which domains to dial?
AcquireOrders(c) ==
    /\ cpc[c] = "ordering"
    /\ cpc' = [cpc EXCEPT ![c] = "dialling"]
    /\ dials' = [dials EXCEPT ![c] = DomainsFor(DcOf[c])]
    /\ UNCHANGED <<cfg, disk, balancer, session, callers, refreshers>>

\* try_cfproxy_base_domain dials no domain that normalises to nothing.
Dialled(c) == {Normal[d] : d \in dials[c]} \ {None}

\* A dial has succeeded: update_domain_for_dc with the normalised name.
AcquireEnds(c, d) ==
    /\ cpc[c] = "dialling"
    /\ d \in Dialled(c)
    /\ preferred' = [preferred EXCEPT ![DcOf[c]] = d]
    /\ cpc' = [cpc EXCEPT ![c] = "idle"]
    /\ dials' = [dials EXCEPT ![c] = {}]
    /\ UNCHANGED <<cfg, disk, listed, session, callers, refreshers>>

\* Every dial has failed.
AcquireFails(c) ==
    /\ cpc[c] = "dialling"
    /\ cpc' = [cpc EXCEPT ![c] = "idle"]
    /\ dials' = [dials EXCEPT ![c] = {}]
    /\ UNCHANGED <<cfg, disk, balancer, session, callers, refreshers>>

-----------------------------------------------------------------------------

InitStep(i) == InitLoads(i) \/ InitStores(i)

RefreshStep(r) ==
    \/ RefreshAsks(r)
    \/ \E list \in Downloads : Fetched(r, list)
    \/ FetchFails(r)
    \/ RefreshStores(r)
    \/ RefreshBalances(r)
    \/ RefreshSaves(r)

ClientStep(c) ==
    \/ AcquireBegins(c)
    \/ AcquireOrders(c)
    \/ \E d \in Names : AcquireEnds(c, d)
    \/ AcquireFails(c)

Next ==
    \/ \E u \in Raw \cup {None} : SetCfProxyConfig(u)
    \/ StartRefused \/ StartRuns \/ StartFails \/ StopProxy \/ FileAges
    \/ \E i \in Callers : InitStep(i)
    \/ \E r \in Refreshers : RefreshCfProxyDomains(r) \/ RefreshStep(r)
    \/ \E c \in Clients : ClientStep(c)

Spec == Init /\ [][Next]_vars

-----------------------------------------------------------------------------
(* Properties *)

\* A refresh never takes the list away from the user: as long as he has a
\* domain of his own it is the whole list, although a refresh tests for it,
\* downloads for seconds and only then writes.
UserOwnsList == user # None => domains = {user}

=============================================================================
