----------------------------- MODULE IfaaService -----------------------------
(***************************************************************************)
(* The payment service's proxy of the fingerprint HAL (IfaaService.kt).    *)
(* Binder threads serve processCmd; each takes the cached proxy or gets    *)
(* one, links to its death, caches it and only then calls.  The HAL may    *)
(* die and start again; the death recipient clears the cache on a thread   *)
(* of its own.  The HAL's processes are numbered.                          *)
(***************************************************************************)
EXTENDS Naturals

CONSTANTS BinderThreads,
          MaxHalDeaths  \* bound: deaths of the HAL

ASSUME IfaaAssumption == MaxHalDeaths \in Nat

NoProxy == 0

VARIABLES
    hal, halUp,       \* the HAL's process; is it there?
    _fpPayService,    \* the cached proxy
    ipc,              \* per thread: where it is in processCmd
    it,               \* per thread: the proxy it got
    links,            \* per process: links to its death still to be answered
    gap               \* history: processes whose death was told too early

ifaaVars == <<hal, halUp, _fpPayService, ipc, it, links, gap>>

Processes == 1 .. MaxHalDeaths + 1

IfaaInit ==
    /\ hal = 1 /\ halUp = TRUE /\ _fpPayService = NoProxy
    /\ ipc = [t \in BinderThreads |-> "idle"] /\ it = [t \in BinderThreads |-> NoProxy]
    /\ links = [p \in Processes |-> 0] /\ gap = {}

Alive(p) == halUp /\ p = hal
IfaaGoto(t, label) == ipc' = [ipc EXCEPT ![t] = label]

-----------------------------------------------------------------------------
\* The cached proxy, or else ServiceManager's; without either there is no call.
getFpPayService(t) ==
    /\ ipc[t] = "idle"
    /\ IF _fpPayService # NoProxy
         THEN it' = [it EXCEPT ![t] = _fpPayService] /\ IfaaGoto(t, "invoke")
         ELSE halUp /\ it' = [it EXCEPT ![t] = hal] /\ IfaaGoto(t, "link")
    /\ UNCHANGED <<hal, halUp, _fpPayService, links, gap>>

\* Seeded fault: the proxy is cached even if there was nothing left to link to.
CachedUnlinked(alive) == "cache"
\* linkToDeath throws on a dead process, and processCmd returns null.
AfterLink(alive) == IF alive THEN "cache" ELSE "idle"

linkToDeath(t) ==
    /\ ipc[t] = "link"
    /\ IfaaGoto(t, AfterLink(Alive(it[t])))
    /\ links' = IF Alive(it[t]) THEN [links EXCEPT ![it[t]] = @ + 1] ELSE links
    /\ UNCHANGED <<hal, halUp, _fpPayService, it, gap>>

Cache(t) ==
    /\ ipc[t] = "cache"
    /\ _fpPayService' = it[t]
    /\ IfaaGoto(t, "invoke")
    /\ UNCHANGED <<hal, halUp, it, links, gap>>

\* ifaa_invoke_command, on a dead proxy an exception and null: the cache stays.
Invoke(t) ==
    /\ ipc[t] = "invoke" /\ IfaaGoto(t, "idle")
    /\ UNCHANGED <<hal, halUp, _fpPayService, it, links, gap>>

\* The recipient clears the cache, whatever proxy is in it by now; gap notes the
\* processes that a thread has yet to cache.
DeathRecipient == \E p \in Processes :
    /\ links[p] > 0 /\ ~Alive(p)
    /\ links' = [links EXCEPT ![p] = @ - 1]
    /\ _fpPayService' = NoProxy
    /\ gap' = IF \E t \in BinderThreads : it[t] = p /\ ipc[t] = "cache"
                THEN gap \cup {p} ELSE gap
    /\ UNCHANGED <<hal, halUp, ipc, it>>

\* External.
HalDies ==
    /\ halUp /\ halUp' = FALSE
    /\ UNCHANGED <<hal, _fpPayService, ipc, it, links, gap>>

HalStarts ==
    /\ ~halUp /\ hal <= MaxHalDeaths
    /\ hal' = hal + 1 /\ halUp' = TRUE
    /\ UNCHANGED <<_fpPayService, ipc, it, links, gap>>

IfaaNext ==
    \/ \E t \in BinderThreads : getFpPayService(t) \/ linkToDeath(t) \/ Cache(t) \/ Invoke(t)
    \/ DeathRecipient \/ HalDies \/ HalStarts

IfaaSpec == IfaaInit /\ [][IfaaNext]_ifaaVars

-----------------------------------------------------------------------------
\* A dead proxy in the cache is cleared by a recipient that is still to run,
\* unless the HAL died just when a thread had linked to it and not yet cached
\* it: then it may stay for good, and every payment command returns null.
DeadProxyIsCleared ==
    _fpPayService \notin {NoProxy} \cup gap /\ ~Alive(_fpPayService) =>
        links[_fpPayService] > 0
=============================================================================
