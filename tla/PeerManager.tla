---------------------------- MODULE PeerManager ----------------------------
(***************************************************************************)
(* nodePeerManager of one space (src/nodespace/peermanager/manager.go).   *)
(* Callers are goroutines sending through the manager: SendResponsible    *)
(* and BroadcastMessage run getResponsiblePeers, SendMessage runs         *)
(* isResponsible and dials one peer.  Both go through                     *)
(* getResponsiblePeersObjects, whose fast path reads the list without the *)
(* mutex and whose refresh appends the node ids under it, one at a time.  *)
(* Time is a clock of ticks, TicksPerMinute of them a minute.             *)
(***************************************************************************)
EXTENDS Integers, Sequences, SequencesExt

CONSTANTS
    NodeIds,          \* nodeconf.NodeIds(spaceId): a sequence of peer ids
    Peers,            \* every peer id a SendMessage may name
    Callers,          \* goroutines using the manager
    NoCaller,         \* the holder of a free mutex
    TicksPerMinute,   \* reconnectTimeout and the refresh period, in ticks
    MaxTime           \* bound on the clock

ASSUME ToSet(NodeIds) \subseteq Peers /\ NoCaller \notin Callers
ASSUME TicksPerMinute \in Nat \ {0} /\ MaxTime \in Nat

\* The zero time.Time: any time.Since of it exceeds a minute.
Never == -(TicksPerMinute + 1)

VARIABLES
    now,        \* the clock
    list,       \* n.responsiblePeers: records [peerId, lastFail]
    updated,    \* n.responsiblePeersUpdated
    mutex,      \* n.responsiblePeersMu: its holder or NoCaller
    pc,         \* pc[c]: "idle", "objects", "lock", "append", "loop" or "check"
    op,         \* op[c]: "responsible" (getResponsiblePeers) or a peer id
    snap,       \* snap[c]: the slice getResponsiblePeersObjects returned
    i,          \* i[c]: the index of the append or of the range loop
    failedAt    \* failedAt[p]: when a dial of p by getResponsiblePeers last failed

vars == <<now, list, updated, mutex, pc, op, snap, i, failedAt>>

Entry == [peerId : Peers, lastFail : {Never} \cup 0..MaxTime]
Time == {Never} \cup 0..MaxTime

TypeOK ==
    /\ now \in 0..MaxTime
    /\ list \in Seq(Entry) /\ updated \in Time
    /\ pc \in [Callers -> {"idle", "objects", "lock", "append", "loop", "check"}]
    /\ op \in [Callers -> {"responsible"} \cup Peers]
    /\ snap \in [Callers -> Seq(Entry)]
    /\ i \in [Callers -> Nat]
    /\ failedAt \in [Peers -> Time]
    \* the mutex is held by exactly the caller refreshing the list
    /\ mutex \in Callers \cup {NoCaller}
    /\ \A c \in Callers : pc[c] = "append" <=> mutex = c

Init ==
    /\ now = 0 /\ list = <<>> /\ updated = Never /\ mutex = NoCaller
    /\ pc = [c \in Callers |-> "idle"] /\ op = [c \in Callers |-> "responsible"]
    /\ snap = [c \in Callers |-> <<>>] /\ i = [c \in Callers |-> 1]
    /\ failedAt = [p \in Peers |-> Never]

Tick ==
    /\ now < MaxTime /\ now' = now + 1
    /\ UNCHANGED <<list, updated, mutex, pc, op, snap, i, failedAt>>

\* SendResponsible / BroadcastMessage (o = "responsible") or SendMessage to
\* peer o: the call enters getResponsiblePeersObjects.
Begin(c, o) ==
    /\ pc[c] = "idle"
    /\ pc' = [pc EXCEPT ![c] = "objects"] /\ op' = [op EXCEPT ![c] = o]
    /\ UNCHANGED <<now, list, updated, mutex, snap, i, failedAt>>

\* Where a call goes once it has the list.
After(c) == IF op[c] = "responsible" THEN "loop" ELSE "check"

\* Fast path: a non-empty list refreshed less than a minute ago is returned
\* without the mutex.
FastPath(c) ==
    /\ pc[c] = "objects"
    /\ Len(list) # 0 /\ now - updated < TicksPerMinute
    /\ snap' = [snap EXCEPT ![c] = list] /\ i' = [i EXCEPT ![c] = 1]
    /\ pc' = [pc EXCEPT ![c] = After(c)]
    /\ UNCHANGED <<now, list, updated, mutex, op, failedAt>>

\* Otherwise the caller is committed to the refresh: it goes on to Lock(),
\* whatever the list looks like by the time it gets the mutex.
Stale(c) ==
    /\ pc[c] = "objects"
    /\ ~(Len(list) # 0 /\ now - updated < TicksPerMinute)
    /\ pc' = [pc EXCEPT ![c] = "lock"]
    /\ UNCHANGED <<now, list, updated, mutex, op, snap, i, failedAt>>

\* Mutant of Lock: the refresh time is stored before the node ids are
\* appended.
LockStampFirst(c) ==
    /\ pc[c] = "lock" /\ mutex = NoCaller
    /\ mutex' = c /\ updated' = now
    /\ pc' = [pc EXCEPT ![c] = "append"] /\ i' = [i EXCEPT ![c] = 1]
    /\ UNCHANGED <<now, list, op, snap, failedAt>>

\* responsiblePeersMu.Lock(): the caller blocks until the mutex is free,
\* then reads the node ids; the staleness is not checked again.
Lock(c) ==
    /\ pc[c] = "lock" /\ mutex = NoCaller
    /\ mutex' = c
    /\ pc' = [pc EXCEPT ![c] = "append"] /\ i' = [i EXCEPT ![c] = 1]
    /\ UNCHANGED <<now, list, updated, op, snap, failedAt>>

\* One node id is appended to the list, which is not reset first.
AppendNodeId(c) ==
    /\ pc[c] = "append" /\ i[c] <= Len(NodeIds)
    /\ list' = Append(list, [peerId |-> NodeIds[i[c]], lastFail |-> Never])
    /\ i' = [i EXCEPT ![c] = @ + 1]
    /\ UNCHANGED <<now, updated, mutex, pc, op, snap, failedAt>>

\* Mutant of Stamp: the deferred Unlock is missing.
StampNoUnlock(c) ==
    /\ pc[c] = "append" /\ i[c] > Len(NodeIds)
    /\ updated' = now
    /\ snap' = [snap EXCEPT ![c] = list] /\ i' = [i EXCEPT ![c] = 1]
    /\ pc' = [pc EXCEPT ![c] = After(c)]
    /\ UNCHANGED <<now, list, mutex, op, failedAt>>

\* After the appends: the refresh time is stored, the list returned and the
\* mutex released.
Stamp(c) ==
    /\ pc[c] = "append" /\ i[c] > Len(NodeIds)
    /\ updated' = now /\ mutex' = NoCaller
    /\ snap' = [snap EXCEPT ![c] = list] /\ i' = [i EXCEPT ![c] = 1]
    /\ pc' = [pc EXCEPT ![c] = After(c)]
    /\ UNCHANGED <<now, list, op, failedAt>>

\* getResponsiblePeers: rp is a copy of the i-th entry.  A peer whose last
\* failure is older than reconnectTimeout is dialled; a failed dial stores
\* the time into the copy rp only, so the list is unchanged.
Dial(c) ==
    LET rp == snap[c][i[c]] IN
    /\ pc[c] = "loop" /\ i[c] <= Len(snap[c])
    /\ IF now - rp.lastFail > TicksPerMinute
       THEN \/ UNCHANGED failedAt
            \/ failedAt' = [failedAt EXCEPT ![rp.peerId] = now]
       ELSE UNCHANGED failedAt
    /\ i' = [i EXCEPT ![c] = @ + 1]
    /\ UNCHANGED <<now, list, updated, mutex, pc, op, snap>>

\* Mutant of LoopEnd: the range loop starts over instead of returning.
LoopEndRetry(c) ==
    /\ pc[c] = "loop" /\ i[c] > Len(snap[c])
    /\ i' = [i EXCEPT ![c] = 1]
    /\ UNCHANGED <<now, list, updated, mutex, pc, op, snap, failedAt>>

\* The loop is over: the peers connected, or ErrUnableToConnect.
LoopEnd(c) ==
    /\ pc[c] = "loop" /\ i[c] > Len(snap[c])
    /\ pc' = [pc EXCEPT ![c] = "idle"]
    /\ UNCHANGED <<now, list, updated, mutex, op, snap, i, failedAt>>

\* SendMessage: a responsible peer is dialled through the pool, any other
\* is sent to by SendById; neither touches the manager's state.
Check(c) ==
    /\ pc[c] = "check"
    /\ pc' = [pc EXCEPT ![c] = "idle"]
    /\ UNCHANGED <<now, list, updated, mutex, op, snap, i, failedAt>>

Next ==
    \/ Tick
    \/ \E c \in Callers :
          \/ \E o \in {"responsible"} \cup Peers : Begin(c, o)
          \/ FastPath(c) \/ Stale(c) \/ Lock(c) \/ AppendNodeId(c)
          \/ Stamp(c) \/ Dial(c) \/ LoopEnd(c) \/ Check(c)

Spec == Init /\ [][Next]_vars

\* Each caller is a goroutine the Go scheduler keeps running: weak fairness
\* of its steps.  Lock(c) is enabled only while the mutex is free, and
\* other callers may take it in between, so it gets strong fairness, which
\* sync.Mutex gives: a waiter blocked for over a millisecond puts the mutex
\* in starvation mode, where it is handed to the waiters in FIFO order.
\* (With the bounded clock only finitely many refreshes are stale, so weak
\* fairness of Lock(c) would also make CallsReturn hold here.)  Starting a call and the clock are not fair: callers may stop
\* sending.
Fairness ==
    \A c \in Callers :
        /\ WF_vars(FastPath(c) \/ Stale(c) \/ AppendNodeId(c) \/ Stamp(c)
                   \/ Dial(c) \/ LoopEnd(c) \/ Check(c))
        /\ SF_vars(Lock(c))

FairSpec == Spec /\ Fairness

----------------------------------------------------------------------------
(* Properties                                                              *)

\* Every call works from the full set of responsible peers: the list a
\* caller got, from the fast path or from its own refresh, holds every node
\* id of the space, also when the fast path reads the list while a caller
\* that saw it stale earlier is appending to it again.
SnapshotComplete ==
    \A c \in Callers : pc[c] \in {"loop", "check"} =>
        ToSet(NodeIds) \subseteq {snap[c][k].peerId : k \in DOMAIN snap[c]}

\* A peer whose dial failed is not dialled again by getResponsiblePeers
\* before reconnectTimeout has passed (spec 4.8, the 60 s cooldown).
Dials(c) ==
    /\ pc[c] = "loop" /\ i[c] <= Len(snap[c]) /\ i'[c] = i[c] + 1
    /\ now - snap[c][i[c]].lastFail > TicksPerMinute

CooldownRespected ==
    [][\A c \in Callers :
          Dials(c) => now - failedAt[snap[c][i[c]].peerId] > TicksPerMinute]_vars

\* Every call into the manager returns: a caller blocked on the refresh
\* mutex gets it once the holder's deferred Unlock runs, the refresh appends a bounded
\* list, and the range loop of getResponsiblePeers ends, so SendResponsible,
\* BroadcastMessage and SendMessage never hang in the manager.
CallsReturn == \A c \in Callers : pc[c] # "idle" ~> pc[c] = "idle"

=============================================================================
