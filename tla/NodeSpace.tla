----------------------------- MODULE NodeSpace -----------------------------
(***************************************************************************)
(* The node's space service (src/nodespace/service.go) over its space     *)
(* cache.  The cache is the ocache library, which this repository does    *)
(* not contain; its Get (single flight, reference count), ForEach and GC  *)
(* are modelled from spec section 4.7.  loadSpace, GetSpace and GetStats  *)
(* are modelled from the source.                                          *)
(*                                                                         *)
(* A process asks the cache for a space through GetBegin; the cache step  *)
(* CacheGet either hands out the loaded object, joins a load in flight,   *)
(* or makes the process the loader, which then runs loadSpace.  The       *)
(* result is left in gpc[p] ("ok" or "err") for the process to consume.  *)
(***************************************************************************)
EXTENDS Naturals, FiniteSets

CONSTANTS
    Spaces,         \* space ids
    Removed,        \* spaces whose deletion status is SpaceStatusRemove
    Callers,        \* goroutines serving GetStats
    Procs,          \* every process using the cache (Callers included)
    LoadFaults,     \* whether NewSpace / newNodeSpace / Init may fail
    MaxCalls,       \* bound on the number of GetStats calls
    NoSpace         \* want[p] of a process that has asked for nothing

ASSUME Removed \subseteq Spaces /\ Callers \subseteq Procs
ASSUME LoadFaults \in BOOLEAN /\ MaxCalls \in Nat /\ NoSpace \notin Spaces

VARIABLES
    entry,      \* entry[s]: "none", "loading" or "ready" in the cache
    refs,       \* refs[s]: the cache's reference count of the entry
    closed,     \* closed[s]: Close has been called on the cached object
    gpc,        \* gpc[p]: "idle", "get", "load", "wait", "ok" or "err"
    want,       \* want[p]: the space process p asked for
    spc,        \* spc[c]: GetStats of caller c: "idle", "get" or "using"
    calls       \* number of GetStats calls made so far

cacheVars == <<entry, refs, closed>>
nsVars == <<entry, refs, closed, gpc, want, spc, calls>>

NSTypeOK ==
    /\ entry \in [Spaces -> {"none", "loading", "ready"}]
    /\ refs \in [Spaces -> Nat]
    /\ closed \in [Spaces -> BOOLEAN]
    /\ gpc \in [Procs -> {"idle", "get", "load", "wait", "ok", "err"}]
    /\ want \in [Procs -> Spaces \cup {NoSpace}]
    /\ spc \in [Callers -> {"idle", "get", "using"}]
    /\ calls \in 0..MaxCalls

NSInit ==
    /\ entry = [s \in Spaces |-> "none"]
    /\ refs = [s \in Spaces |-> 0]
    /\ closed = [s \in Spaces |-> FALSE]
    /\ gpc = [p \in Procs |-> "idle"]
    /\ want = [p \in Procs |-> NoSpace]
    /\ spc = [c \in Callers |-> "idle"]
    /\ calls = 0

----------------------------------------------------------------------------
(* The cache (ocache), from the spec.                                      *)

\* spaceCache.Get(ctx, id) is called by process p.
GetBegin(p, s) ==
    /\ gpc[p] = "idle"
    /\ gpc' = [gpc EXCEPT ![p] = "get"]
    /\ want' = [want EXCEPT ![p] = s]

\* Get: a loaded entry is returned with its reference count incremented; an
\* entry being loaded is waited for; a missing entry is loaded by p.
CacheGet(p) ==
    LET s == want[p] IN
    /\ gpc[p] = "get"
    /\ \/ /\ entry[s] = "ready"
          /\ refs' = [refs EXCEPT ![s] = @ + 1]
          /\ gpc' = [gpc EXCEPT ![p] = "ok"]
          /\ UNCHANGED <<entry, closed>>
       \/ /\ entry[s] = "loading"
          /\ gpc' = [gpc EXCEPT ![p] = "wait"]
          /\ UNCHANGED cacheVars
       \/ /\ entry[s] = "none"
          /\ entry' = [entry EXCEPT ![s] = "loading"]
          /\ gpc' = [gpc EXCEPT ![p] = "load"]
          /\ UNCHANGED <<refs, closed>>
    /\ UNCHANGED want

\* The processes waiting on the load of s, the loader included.
Coalesced(p) == {q \in Procs : want[q] = want[p] /\ gpc[q] \in {"load", "wait"}}

\* service.checkDeletionStatus: SpaceStatusRemove is ErrSpaceIsDeleted;
\* ErrUnknownSpaceId and any other status let the load go on.
CheckDeletionStatus(s) == s \notin Removed

\* The loader p runs service.loadSpace: the deletion check, then NewSpace,
\* newNodeSpace and Init, each of which may fail.  The result goes to every
\* coalesced waiter; a failed load is not cached, a successful one is
\* referenced once per waiter.
LoadSpace(p) ==
    LET s == want[p]
        W == Coalesced(p)
    IN  /\ gpc[p] = "load"
        /\ \/ /\ CheckDeletionStatus(s)
              /\ entry' = [entry EXCEPT ![s] = "ready"]
              /\ refs' = [refs EXCEPT ![s] = Cardinality(W)]
              /\ closed' = [closed EXCEPT ![s] = FALSE]
              /\ gpc' = [q \in Procs |-> IF q \in W THEN "ok" ELSE gpc[q]]
           \/ /\ ~CheckDeletionStatus(s) \/ LoadFaults
              /\ entry' = [entry EXCEPT ![s] = "none"]
              /\ gpc' = [q \in Procs |-> IF q \in W THEN "err" ELSE gpc[q]]
              /\ UNCHANGED <<refs, closed>>
        /\ UNCHANGED want

\* The GC sweeper evicts only entries whose reference count is zero; no
\* code of this repository releases a reference it got from the cache, so
\* a loaded space is never evicted and the sweeper has no step here.

----------------------------------------------------------------------------
(* service.GetStats                                                        *)

\* space, getSpaceErr := s.GetSpace(ctx, id)
GetStatsBegin(c, s) ==
    /\ spc[c] = "idle" /\ calls < MaxCalls
    /\ GetBegin(c, s)
    /\ spc' = [spc EXCEPT ![c] = "get"]
    /\ calls' = calls + 1
    /\ UNCHANGED cacheVars

\* Mutant of GetStatsGot: the error of GetSpace is not handled.
GetStatsGotOkOnly(c) ==
    /\ spc[c] = "get" /\ gpc[c] = "ok"
    /\ spc' = [spc EXCEPT ![c] = "using"]
    /\ gpc' = [gpc EXCEPT ![c] = "idle"]
    /\ UNCHANGED <<cacheVars, want, calls>>

\* GetSpace returned: on error GetStats returns it without closing; on
\* success it goes on to space.Storage().
GetStatsGot(c) ==
    /\ spc[c] = "get" /\ gpc[c] \in {"ok", "err"}
    /\ spc' = [spc EXCEPT ![c] = IF gpc[c] = "ok" THEN "using" ELSE "idle"]
    /\ gpc' = [gpc EXCEPT ![c] = "idle"]
    /\ UNCHANGED <<cacheVars, want, calls>>

\* The storage is cast to spaceStorageStats and GetMaxChangeLen read, or
\* ErrDoesntSupportStats returned; either way the deferred space.Close()
\* closes the cached object.  The cache reference is not released.
GetStatsClose(c) ==
    /\ spc[c] = "using"
    /\ closed' = [closed EXCEPT ![want[c]] = TRUE]
    /\ spc' = [spc EXCEPT ![c] = "idle"]
    /\ UNCHANGED <<entry, refs, gpc, want, calls>>

\* The cache's own steps for process p.
CacheStep(p) == (CacheGet(p) \/ LoadSpace(p)) /\ UNCHANGED <<spc, calls>>

NSNext ==
    \/ \E c \in Callers, s \in Spaces : GetStatsBegin(c, s)
    \/ \E c \in Callers : GetStatsGot(c) \/ GetStatsClose(c)
    \/ \E p \in Procs : CacheStep(p)

=============================================================================
