------------------------------ MODULE HotSync ------------------------------
(***************************************************************************)
(* The hot-sync scheduler (hotSync in src/unnamed/part_003, package       *)
(* nodesync/hotsync) composed with the space service and its cache       *)
(* (NodeSpace).  UpdateQueue is called by other goroutines under h.mx;    *)
(* checkCache runs on the periodicsync goroutine, one tick at a time, as  *)
(* three steps: checkRemoved (no lock), the batch cut (under h.mx), and   *)
(* one GetSpace per id of the batch (no lock), each a call into the cache *)
(* as process HS.                                                          *)
(***************************************************************************)
EXTENDS NodeSpace, Sequences, SequencesExt

CONSTANTS
    HS,             \* the periodicsync goroutine running checkCache
    Sim,            \* h.simultaneousSync (config, 300 when zero)
    MaxUpdates,     \* bound on the number of UpdateQueue calls
    MaxIds          \* bound on the length of changedIds

ASSUME HS \in Procs \ Callers /\ Sim \in Nat \ {0}
ASSUME MaxUpdates \in Nat /\ MaxIds \in Nat \ {0}

\* Space ids are strings ordered as their numbers; Blank is "", which sorts
\* before every id.
Blank == 0
ASSUME Spaces \subseteq Nat \ {Blank}

VARIABLES
    spaceQueue,     \* h.spaceQueue
    syncQueue,      \* the key set of h.syncQueue
    hpc,            \* checkCache: "idle", "batch" or "load"
    cp,             \* the batch cut from spaceQueue, ids not yet visited
    hit, miss,      \* the hit and miss counters
    updates,        \* number of UpdateQueue calls so far
    pending         \* history: ids handed to UpdateQueue, not yet cut into a batch

hsVars == <<spaceQueue, syncQueue, hpc, cp, hit, miss, updates, pending>>
vars == <<nsVars, hsVars>>

TypeOK ==
    /\ NSTypeOK
    /\ spaceQueue \in Seq(Spaces)
    /\ syncQueue \subseteq Spaces
    /\ hpc \in {"idle", "batch", "load"}
    /\ cp \in Seq(Spaces)
    /\ hit \in Nat /\ miss \in Nat
    /\ updates \in 0..MaxUpdates
    /\ pending \subseteq Spaces

Init ==
    /\ NSInit
    /\ spaceQueue = <<>> /\ syncQueue = {} /\ hpc = "idle" /\ cp = <<>>
    /\ hit = 0 /\ miss = 0 /\ updates = 0 /\ pending = {}

\* The changedIds a caller may pass, sorted: slices.Sort makes their order
\* irrelevant, and a slice may name an id twice.
ChangedIdsInputs ==
    {ids \in UNION {[1..n -> Spaces] : n \in 1..MaxIds} :
        \A k \in 1..Len(ids) - 1 : ids[k] <= ids[k + 1]}

\* slices.BinarySearch over x[lo..hi-1]: the first index whose element is
\* not less than t, assuming x sorted.
RECURSIVE SearchFrom(_, _, _, _)
SearchFrom(x, t, lo, hi) ==
    IF lo >= hi THEN lo
    ELSE LET h == (lo + hi) \div 2 IN
         IF x[h] < t THEN SearchFrom(x, t, h + 1, hi) ELSE SearchFrom(x, t, lo, h)

\* The index BinarySearch returns and whether it found t there.
BinarySearch(x, t) ==
    LET k == SearchFrom(x, t, 1, Len(x) + 1) IN <<k, k <= Len(x) /\ x[k] = t>>

BlankQueued(changed, queue) ==
    FoldLeft(LAMBDA x, id :
                LET r == BinarySearch(x, id) IN
                IF r[2] THEN [x EXCEPT ![r[1]] = Blank] ELSE x,
             changed, queue)

\* Mutant of UpdateQueue: the blanked entries are appended too.
UpdateQueueKeepBlanks(changedIds) ==
    /\ updates < MaxUpdates
    /\ spaceQueue' = spaceQueue \o BlankQueued(SortSeq(changedIds, <), spaceQueue)
    /\ updates' = updates + 1
    /\ pending' = pending \cup ToSet(changedIds)
    /\ UNCHANGED <<nsVars, syncQueue, hpc, cp, hit, miss>>

\* UpdateQueue(changedIds), under h.mx: the ids are sorted, those found
\* queued are blanked, and the others appended in sorted order.
UpdateQueue(changedIds) ==
    /\ updates < MaxUpdates
    /\ spaceQueue' = spaceQueue \o
                     SelectSeq(BlankQueued(SortSeq(changedIds, <), spaceQueue),
                               LAMBDA id : id # Blank)
    /\ updates' = updates + 1
    /\ pending' = pending \cup ToSet(changedIds)
    /\ UNCHANGED <<nsVars, syncQueue, hpc, cp, hit, miss>>

\* checkRemoved: ids of syncQueue that ForEach no longer finds loaded in
\* the cache are deleted from it.
CheckRemoved ==
    /\ hpc = "idle"
    /\ syncQueue' = {s \in syncQueue : entry[s] = "ready"}
    /\ hpc' = "batch"
    /\ UNCHANGED <<nsVars, spaceQueue, cp, hit, miss, updates, pending>>

\* batchLen(): the free budget, bounded by the queue length.
BatchLen == Min({Sim - Cardinality(syncQueue), Len(spaceQueue)})

\* Under h.mx: the first batchLen ids are copied out of spaceQueue.  A
\* negative batchLen would panic in the slice expression.
TakeBatch ==
    LET n == BatchLen IN
    /\ hpc = "batch" /\ n >= 0
    /\ cp' = SubSeq(spaceQueue, 1, n)
    /\ spaceQueue' = SubSeq(spaceQueue, n + 1, Len(spaceQueue))
    /\ hpc' = IF n = 0 THEN "idle" ELSE "load"
    /\ pending' = pending \ ToSet(cp')
    /\ UNCHANGED <<nsVars, syncQueue, hit, miss, updates>>

\* spaceService.GetSpace(ctx, id) for the next id of the batch.
HotGetBegin ==
    /\ hpc = "load" /\ cp # <<>> /\ gpc[HS] = "idle"
    /\ GetBegin(HS, Head(cp))
    /\ UNCHANGED <<cacheVars, spc, calls, hsVars>>

\* GetSpace returned: an error counts a hit, a space counts a miss and is
\* put in syncQueue.  The reference taken by Get is not released.  After
\* the last id the tick ends.
HotGetDone ==
    /\ hpc = "load" /\ gpc[HS] \in {"ok", "err"}
    /\ IF gpc[HS] = "err"
       THEN /\ hit' = hit + 1 /\ UNCHANGED <<miss, syncQueue>>
       ELSE /\ miss' = miss + 1 /\ syncQueue' = syncQueue \cup {Head(cp)}
            /\ UNCHANGED hit
    /\ gpc' = [gpc EXCEPT ![HS] = "idle"]
    /\ cp' = Tail(cp)
    /\ hpc' = IF Tail(cp) = <<>> THEN "idle" ELSE "load"
    /\ UNCHANGED <<cacheVars, want, spc, calls, spaceQueue, updates, pending>>

HSNext ==
    \/ \E ids \in ChangedIdsInputs : UpdateQueue(ids)
    \/ CheckRemoved \/ TakeBatch \/ HotGetBegin \/ HotGetDone

Next ==
    \/ NSNext /\ UNCHANGED hsVars
    \/ HSNext

\* The periodic tick fires every 10 seconds and the cache's own steps run
\* whenever enabled.  GetStats callers
\* and the cache steps they wait on are not starved by the scheduler.
Fairness ==
    /\ WF_vars(CheckRemoved) /\ WF_vars(TakeBatch)
    /\ WF_vars(HotGetBegin) /\ WF_vars(HotGetDone)
    /\ \A p \in Procs : WF_vars(CacheStep(p) /\ UNCHANGED hsVars)
    /\ \A c \in Callers : WF_vars((GetStatsGot(c) \/ GetStatsClose(c)) /\ UNCHANGED hsVars)

Spec == Init /\ [][Next]_vars /\ Fairness

----------------------------------------------------------------------------
(* Properties                                                              *)

QueuedEventuallyAttempted ==
    \A s \in Spaces : (s \in ToSet(spaceQueue)) ~> (s \notin ToSet(spaceQueue))

\* A GetStats call always returns, also when it joined a load of the same
\* space that failed or when the space is deleted.
GetStatsReturns == \A c \in Callers : (spc[c] # "idle") ~> (spc[c] = "idle")

=============================================================================
