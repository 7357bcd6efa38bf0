----------------------------- MODULE ObjectTree -----------------------------
(***************************************************************************)
(* One document tree (pkg/acl/tree/doctree.go) of one node, together with  *)
(* its tree storage.  The in-memory Tree (attached / unattached partitions, *)
(* heads, root) is volatile; the storage (stored changes, stored heads)    *)
(* survives a crash.  AddRawChanges and AddContent run under the tree's    *)
(* writer lock, so each is one step up to its storage writes; the writes   *)
(* (AddRawChange for every added change, then SetHeads) are separate steps *)
(* because a crash or a storage error can fall between them.               *)
(*                                                                         *)
(* Change ids are model values.  The changes a peer may deliver form a     *)
(* fixed DAG given by RPrev / RBase / RSnap; changes authored locally by   *)
(* AddContent take their parents and snapshot base from the tree when they *)
(* are created.  Payloads, signatures and keys are abstracted to the two   *)
(* outcomes the code tells apart: BadSig (NewVerifiedChangeFromRaw fails)  *)
(* and Forbidden (the validator rejects the change's author).              *)
(***************************************************************************)
EXTENDS Naturals, FiniteSets, Sequences, TLC

CONSTANTS
    Genesis,        \* the first change of the tree: a snapshot, stored at creation
    Remote,         \* changes a peer may send to AddRawChanges
    Local,          \* ids available to changes authored by AddContent
    RPrev,          \* [Remote -> SUBSET Changes]: TreeHeadIds of a remote change
    RBase,          \* [Remote -> Changes]: SnapshotBaseId of a remote change
    RSnap,          \* SUBSET Remote: the remote changes with IsSnapshot
    BadSig,         \* SUBSET Remote: changes whose signature does not verify
    Forbidden,      \* SUBSET Remote: changes whose author lacks write permission
    NoId,           \* the empty id "" (SnapshotBaseId of the first change)
    MaxBatch,       \* bound on the number of raw changes in one AddRawChanges call
    CausalDelivery, \* TRUE: a peer only sends changes whose parents we know or it also sends
    StorageFaults   \* TRUE: TreeStorage.AddRawChange / SetHeads may return an error

Changes == {Genesis} \cup Remote \cup Local

ASSUME /\ Genesis \notin Remote \cup Local /\ Remote \cap Local = {}
       /\ RPrev \in [Remote -> SUBSET ({Genesis} \cup Remote)]
       /\ RBase \in [Remote -> {Genesis} \cup Remote]
       /\ RSnap \subseteq Remote /\ BadSig \subseteq Remote /\ Forbidden \subseteq Remote
       /\ NoId \notin Changes /\ MaxBatch \in Nat \ {0}

VARIABLES
    info,          \* parsed change headers: [prev, base, snap] of every change that exists
    attached,      \* Tree.attached
    unattached,    \* Tree.unAttached
    heads,         \* Tree.Heads()
    root,          \* Tree.RootId()
    snapshotPath,  \* docTree.snapshotPath, the memoised SnapshotPath() result
    stored,        \* ids of the changes in TreeStorage
    storedHeads,   \* TreeStorage.Heads()
    pc,            \* "idle", or the storage write a call is about to make: "changes", "heads"
    pending,       \* the changes the running call persists (addResult.Added or the new change)
    up,            \* FALSE between a crash and the next BuildDocTree
    acked,         \* changes a call has returned as added without error (history)
    panicked       \* a call has panicked (AddMergedHead failed in AddContent)

vars == <<info, attached, unattached, heads, root, snapshotPath, stored,
          storedHeads, pc, pending, up, acked, panicked>>
treeVars == <<attached, unattached, heads, root>>

Header == [prev : SUBSET Changes, base : Changes \cup {NoId}, snap : BOOLEAN]

Prev(c) == info[c].prev

-----------------------------------------------------------------------------
(* Tree (pkg/acl/tree/tree.go, not part of this source tree: from the spec) *)

\* Tree.Add draining: attach every change of pool whose parents are all
\* attached, until no more change can be attached.
RECURSIVE Attach(_, _)
Attach(att, pool) ==
    LET ready == {c \in pool : Prev(c) \subseteq att}
    IN  IF ready = {} THEN att ELSE Attach(att \cup ready, pool \ ready)

\* Tree.Heads(): attached changes no attached change names as a parent.
HeadsOf(att) == {c \in att : \A d \in att : c \notin Prev(d)}

\* The members of within reachable from the members of from by parent
\* links, not following the parents of the members of stop.
RECURSIVE Ancestry(_, _, _)
Ancestry(from, within, stop) ==
    LET cur  == from \cap within
        more == (UNION {Prev(c) : c \in cur \ stop} \cap within) \ cur
    IN  IF more = {} THEN cur ELSE Ancestry(cur \cup more, within, stop)

\* Tree.reduceTree(): the root advances to the latest snapshot every attached
\* change descends from or precedes, and the ancestors of it are dropped.
Reduce(att, rt) ==
    LET Anc(c)  == Ancestry(Prev(c), att, {})
        Doms    == {s \in att : info[s].snap /\
                      \A d \in att : d = s \/ d \in Anc(s) \/ s \in Anc(d)}
        Latest  == {s \in Doms : \A t \in Doms : t = s \/ t \in Anc(s)}
    IN  IF Latest = {} THEN [att |-> att, root |-> rt]
        ELSE LET s == CHOOSE s \in Latest : TRUE
             IN  [att |-> {s} \cup {d \in att : s \in Anc(d)}, root |-> s]

\* The snapshot a change belongs to, and the chain of snapshots from it back
\* to the first change along SnapshotBaseId.
SnapOf(c) == IF info[c].snap THEN c ELSE info[c].base
RECURSIVE SnapChain(_)
SnapChain(sn) == IF sn = NoId THEN {} ELSE {sn} \cup SnapChain(info[sn].base)

\* treeBuilder breakpoint: the latest snapshot on the snapshot chains of all
\* the given changes.
Breakpoint(ids) ==
    LET common == {sn \in DOMAIN info : \A i \in ids : sn \in SnapChain(SnapOf(i))}
    IN  CHOOSE bp \in common : \A t \in common : t \in SnapChain(bp)

\* treeBuilder.Build(newChanges): from the stored heads and the new changes,
\* load stored changes by parent links down to the breakpoint, and attach
\* from the breakpoint, which becomes the root.
Build(extra) ==
    LET bp     == Breakpoint(storedHeads \cup extra)
        loaded == Ancestry(storedHeads \cup extra, stored \cup extra, {bp})
        att    == Attach({bp}, loaded \ {bp})
    IN  [att |-> att, unatt |-> loaded \ att, root |-> bp]

\* treeValidator.ValidateTree: every attached change's author may write.
ValidateTree(att) == att \cap Forbidden = {}

-----------------------------------------------------------------------------
(* docTree                                                                 *)

\* docTree.HasChange: the change is in one of the two partitions.
HasChange(c) == c \in attached \cup unattached

\* isOldSnapshot: the change refers to a snapshot that is neither the current
\* root nor one of the snapshots received in the same call.
IsOldSnapshot(c, new) ==
    info[c].base \notin {root} \cup {s \in new : info[s].snap}

\* The call returns and its writes follow: AddRawChange for every change of
\* added, then SetHeads(tree.Heads()).
StartPersist(added) ==
    /\ pc' = "changes"
    /\ pending' = added

\* No unseen change: AddResultSummaryNothing, then reduceTree and SetHeads.
AddRawChangesNothingNew(new) ==
    /\ new = {}
    /\ StartPersist({})
    /\ UNCHANGED <<treeVars, snapshotPath>>

\* NewVerifiedChangeFromRaw fails for an unseen change: return before any mutation.
AddRawChangesBadSignature(new) ==
    /\ new \cap BadSig # {}
    /\ UNCHANGED <<treeVars, snapshotPath, pc, pending>>

\* Some change descends from an older snapshot: rebuild the tree from storage
\* with the new changes, then reduceTree; if the rebuilt tree does not
\* validate, rebuild it again without them and return the error.
AddRawChangesRebuild(new) ==
    LET b   == Build(new)
        b0  == Build({})
        red == Reduce(b.att, b.root)
    IN  /\ new # {} /\ new \cap BadSig = {}
        /\ \E c \in new : IsOldSnapshot(c, new)
        /\ IF ValidateTree(b.att)
           THEN /\ attached' = red.att /\ unattached' = b.unatt
                /\ heads' = HeadsOf(b.att) /\ root' = red.root
                /\ StartPersist(new \cap b.att)
           ELSE /\ attached' = b0.att /\ unattached' = b0.unatt
                /\ heads' = HeadsOf(b0.att) /\ root' = b0.root
                /\ UNCHANGED <<pc, pending>>
        /\ UNCHANGED snapshotPath

\* tree.Add: attach what can be attached; nothing attached is mode Nothing.
AddRawChangesNothingAttached(new) ==
    /\ new # {} /\ new \cap BadSig = {}
    /\ \A c \in new : ~IsOldSnapshot(c, new)
    /\ Attach(attached, unattached \cup new) = attached
    /\ unattached' = unattached \cup new
    /\ StartPersist({})
    /\ UNCHANGED <<attached, heads, root, snapshotPath>>

\* Mutant of AddRawChangesAppend: the added changes are collected after
\* reduceTree, so changes the reduction dropped are not persisted.
AddRawChangesAppendAfterReduce(new) ==
    LET att == Attach(attached, unattached \cup new)
        una == (unattached \cup new) \ att
        red == Reduce(att, root)
    IN  /\ new # {} /\ new \cap BadSig = {}
        /\ \A c \in new : ~IsOldSnapshot(c, new)
        /\ att # attached
        /\ heads' = HeadsOf(att)
        /\ IF ValidateTree(att)
           THEN /\ attached' = red.att /\ root' = red.root
                /\ unattached' = una
                /\ StartPersist(new \cap red.att)
           ELSE /\ attached' = att \ new
                /\ unattached' = una \ new
                /\ UNCHANGED <<root, pc, pending>>
        /\ UNCHANGED snapshotPath

\* Mutant of AddRawChangesAppend: the validator's error is not acted on.
AddRawChangesAppendUnvalidated(new) ==
    LET att == Attach(attached, unattached \cup new)
        red == Reduce(att, root)
    IN  /\ new # {} /\ new \cap BadSig = {}
        /\ \A c \in new : ~IsOldSnapshot(c, new)
        /\ att # attached
        /\ heads' = HeadsOf(att)
        /\ attached' = red.att /\ root' = red.root
        /\ unattached' = (unattached \cup new) \ att
        /\ StartPersist(new \cap att)
        /\ UNCHANGED snapshotPath

\* tree.Add attached something: validate the tree; on failure roll back by
\* deleting the new changes from both partitions (the heads tree.Add computed
\* stay); on success reduceTree and persist the new changes that attached.
AddRawChangesAppend(new) ==
    LET att == Attach(attached, unattached \cup new)
        una == (unattached \cup new) \ att
    IN  /\ new # {} /\ new \cap BadSig = {}
        /\ \A c \in new : ~IsOldSnapshot(c, new)
        /\ att # attached
        /\ heads' = HeadsOf(att)
        /\ IF ValidateTree(att)
           THEN LET red == Reduce(att, root)
                IN  /\ attached' = red.att /\ root' = red.root
                    /\ unattached' = una
                    /\ StartPersist(new \cap att)
           ELSE /\ attached' = att \ new
                /\ unattached' = una \ new
                /\ UNCHANGED <<root, pc, pending>>
        /\ UNCHANGED snapshotPath

AddRawChanges(batch) ==
    LET new == {c \in batch : ~HasChange(c)}
    IN  /\ up /\ pc = "idle"
        /\ \/ AddRawChangesNothingNew(new)
           \/ AddRawChangesBadSignature(new)
           \/ AddRawChangesRebuild(new)
           \/ AddRawChangesNothingAttached(new)
           \/ AddRawChangesAppend(new)
        /\ UNCHANGED <<info, stored, storedHeads, up, acked, panicked>>

\* Mutant of AddContent: AddMergedHead adds the new change to the heads
\* without removing the heads it was built on.
AddContentKeepsHeads(l, isSnap) ==
    /\ up /\ pc = "idle"
    /\ l \notin DOMAIN info
    /\ info' = info @@ (l :> [prev |-> heads, base |-> root, snap |-> isSnap])
    /\ \/ /\ isSnap
          /\ attached' = {l} /\ unattached' = {} /\ heads' = {l} /\ root' = l
          /\ StartPersist({l})
          /\ UNCHANGED <<up, panicked>>
       \/ /\ ~isSnap /\ heads \subseteq attached
          /\ attached' = attached \cup {l} /\ heads' = heads \cup {l}
          /\ StartPersist({l})
          /\ UNCHANGED <<unattached, root, up, panicked>>
       \/ /\ ~isSnap /\ ~(heads \subseteq attached)
          /\ panicked' = TRUE /\ up' = FALSE
          /\ attached' = {} /\ unattached' = {} /\ heads' = {} /\ root' = NoId
          /\ UNCHANGED <<pc, pending>>
    /\ UNCHANGED <<snapshotPath, stored, storedHeads, acked>>

\* Mutant of AddContent: a snapshot change records no previous ids.
AddContentSnapshotUnlinked(l, isSnap) ==
    /\ up /\ pc = "idle"
    /\ l \notin DOMAIN info
    /\ info' = info @@ (l :> [prev |-> IF isSnap THEN {} ELSE heads,
                              base |-> root, snap |-> isSnap])
    /\ \/ /\ isSnap
          /\ attached' = {l} /\ unattached' = {} /\ heads' = {l} /\ root' = l
          /\ StartPersist({l})
          /\ UNCHANGED <<up, panicked>>
       \/ /\ ~isSnap /\ heads \subseteq attached
          /\ attached' = attached \cup {l} /\ heads' = {l}
          /\ StartPersist({l})
          /\ UNCHANGED <<unattached, root, up, panicked>>
       \/ /\ ~isSnap /\ ~(heads \subseteq attached)
          /\ panicked' = TRUE /\ up' = FALSE
          /\ attached' = {} /\ unattached' = {} /\ heads' = {} /\ root' = NoId
          /\ UNCHANGED <<pc, pending>>
    /\ UNCHANGED <<snapshotPath, stored, storedHeads, acked>>

\* AddContent: a change on top of the current heads, based on the current
\* root.  A snapshot replaces the tree by a new one holding only it; otherwise
\* AddMergedHead appends it and panics if a head is not attached.
AddContent(l, isSnap) ==
    /\ up /\ pc = "idle"
    /\ l \notin DOMAIN info
    /\ info' = info @@ (l :> [prev |-> heads, base |-> root, snap |-> isSnap])
    /\ \/ /\ isSnap
          /\ attached' = {l} /\ unattached' = {} /\ heads' = {l} /\ root' = l
          /\ StartPersist({l})
          /\ UNCHANGED <<up, panicked>>
       \/ /\ ~isSnap /\ heads \subseteq attached
          /\ attached' = attached \cup {l} /\ heads' = {l}
          /\ StartPersist({l})
          /\ UNCHANGED <<unattached, root, up, panicked>>
       \/ /\ ~isSnap /\ ~(heads \subseteq attached)
          /\ panicked' = TRUE /\ up' = FALSE
          /\ attached' = {} /\ unattached' = {} /\ heads' = {} /\ root' = NoId
          /\ UNCHANGED <<pc, pending>>
    /\ UNCHANGED <<snapshotPath, stored, storedHeads, acked>>

\* for _, ch := range addResult.Added { treeStorage.AddRawChange(ch) }
PersistChanges ==
    /\ up /\ pc = "changes"
    /\ stored' = stored \cup pending
    /\ pc' = "heads"
    /\ UNCHANGED <<info, treeVars, snapshotPath, storedHeads, pending, up, acked, panicked>>

\* Mutant of PersistHeads: SetHeads writes the ids of the added changes.
PersistHeadsAdded ==
    /\ up /\ pc = "heads"
    /\ storedHeads' = IF pending = {} THEN storedHeads ELSE pending
    /\ acked' = acked \cup pending
    /\ pc' = "idle" /\ pending' = {}
    /\ UNCHANGED <<info, treeVars, snapshotPath, stored, up, panicked>>

\* treeStorage.SetHeads(tree.Heads()); the call has completed.
PersistHeads ==
    /\ up /\ pc = "heads"
    /\ storedHeads' = heads
    /\ acked' = acked \cup pending
    /\ pc' = "idle" /\ pending' = {}
    /\ UNCHANGED <<info, treeVars, snapshotPath, stored, up, panicked>>

\* Mutant of StorageFault: the failed call's pending writes are not cleared.
StorageFaultKeepsPending ==
    /\ StorageFaults /\ up /\ pc \in {"changes", "heads"}
    /\ \E written \in SUBSET pending :
           stored' = IF pc = "changes" THEN stored \cup written ELSE stored
    /\ pc' = "idle"
    /\ UNCHANGED <<info, treeVars, snapshotPath, storedHeads, pending, up, acked, panicked>>

\* A storage write returns an error: the call returns it after the changes
\* written so far; the in-memory tree keeps what it added.
StorageFault ==
    /\ StorageFaults /\ up /\ pc \in {"changes", "heads"}
    /\ \E written \in SUBSET pending :
           stored' = IF pc = "changes" THEN stored \cup written ELSE stored
    /\ pc' = "idle" /\ pending' = {}
    /\ UNCHANGED <<info, treeVars, snapshotPath, storedHeads, up, acked, panicked>>

\* The snapshot ids from the root back along SnapshotBaseId, as far as
\* treeBuilder.loadChange finds them in storage.
RECURSIVE PathFrom(_)
PathFrom(id) ==
    IF id = NoId \/ id \notin stored THEN <<>>
    ELSE <<id>> \o PathFrom(info[id].base)

\* snapshotPathIsActual: a memo whose last element is the root.
SnapshotPathIsActual ==
    snapshotPath # <<>> /\ snapshotPath[Len(snapshotPath)] = root

\* SnapshotPath(): return the memo if it is actual, else recompute and memoise.
SnapshotPath ==
    /\ up /\ pc = "idle"
    /\ ~SnapshotPathIsActual
    /\ snapshotPath' = PathFrom(root)
    /\ UNCHANGED <<info, treeVars, stored, storedHeads, pc, pending, up, acked, panicked>>

\* commonSnapshotForTwoPaths (not part of this source tree: from the spec):
\* the earliest element of our path that their path also holds, or NoId.
CommonSnapshotForTwoPaths(our, their) ==
    LET common == {i \in 1..Len(our) : \E j \in 1..Len(their) : our[i] = their[j]}
    IN  IF common = {} THEN NoId
        ELSE our[CHOOSE i \in common : \A k \in common : i <= k]

\* Mutant of GetChangesFromTree: the common snapshot itself is left out.
GetChangesFromTreeNoRoot == [res |-> "ok", changes |-> attached \ {root}]

\* getChangesFromTree: dfsPrev from the heads over the in-memory tree
\* visits, and marshals, every attached change.
GetChangesFromTree == [res |-> "ok", changes |-> attached]

\* getChangesFromDB: treeBuilder.dfs from the tree's heads, loading every
\* change from storage down to the common snapshot, which it does not load;
\* a peer without the document also gets the snapshot itself.  The first
\* change GetRawChange cannot find ends the call with an error.
GetChangesFromDB(common, needStartSnapshot) ==
    LET loads == (Ancestry(heads, DOMAIN info, {common}) \ {common})
                 \cup (IF needStartSnapshot THEN {common} ELSE {})
    IN  IF loads \subseteq stored THEN [res |-> "ok", changes |-> loads]
        ELSE [res |-> "err", changes |-> {}]

\* ChangesAfterCommonSnapshot(theirPath), the answer a peer gets in sync.
\* ourPath is SnapshotPath() (its memo write is the SnapshotPath action); its
\* last element is taken before anything else, so an empty path panics
\* with an index out of range.  An empty theirPath asks for the whole
\* document from our oldest snapshot.
ChangesAfterCommonSnapshot(theirPath) ==
    LET ourPath == IF SnapshotPathIsActual THEN snapshotPath ELSE PathFrom(root)
        needFullDocument == theirPath = <<>>
        commonSnapshot == IF needFullDocument THEN ourPath[Len(ourPath)]
                          ELSE CommonSnapshotForTwoPaths(ourPath, theirPath)
    IN  CASE ourPath = <<>>         -> [res |-> "panic", changes |-> {}]
          [] commonSnapshot = NoId  -> [res |-> "err", changes |-> {}]
          [] commonSnapshot = root  -> GetChangesFromTree
          [] OTHER -> GetChangesFromDB(commonSnapshot, needFullDocument)

\* The process stops: the tree, the memo and the running call are lost.
Crash ==
    /\ up
    /\ up' = FALSE
    /\ attached' = {} /\ unattached' = {} /\ heads' = {} /\ root' = NoId
    /\ snapshotPath' = <<>> /\ pc' = "idle" /\ pending' = {}
    /\ UNCHANGED <<info, stored, storedHeads, acked, panicked>>

\* BuildDocTree: rebuild from storage, then write the rebuilt heads if the
\* stored heads differ from them.
BuildDocTree ==
    LET b == Build({})
    IN  /\ ~up
        /\ ValidateTree(b.att)
        /\ up' = TRUE
        /\ attached' = b.att /\ unattached' = b.unatt
        /\ heads' = HeadsOf(b.att) /\ root' = b.root
        /\ storedHeads' = HeadsOf(b.att)
        /\ UNCHANGED <<info, snapshotPath, stored, pc, pending, acked, panicked>>

-----------------------------------------------------------------------------

\* The batches a peer may send: up to MaxBatch remote changes.  Under causal
\* delivery a peer, which knows our heads from head sync, sends a change only
\* with its parents that are not attached here or below our stored heads.
Batches == {bt \in SUBSET Remote : Cardinality(bt) \in 1..MaxBatch}
Deliverable(bt) ==
    CausalDelivery =>
        \A c \in bt : RPrev[c] \subseteq bt \cup attached \cup Ancestry(storedHeads, stored, {})

Init ==
    /\ info = [c \in {Genesis} \cup Remote |->
                 IF c = Genesis THEN [prev |-> {}, base |-> NoId, snap |-> TRUE]
                 ELSE [prev |-> RPrev[c], base |-> RBase[c], snap |-> c \in RSnap]]
    /\ attached = {Genesis} /\ unattached = {} /\ heads = {Genesis} /\ root = Genesis
    /\ snapshotPath = <<>>
    /\ stored = {Genesis} /\ storedHeads = {Genesis}
    /\ pc = "idle" /\ pending = {} /\ up = TRUE
    /\ acked = {} /\ panicked = FALSE

Next ==
    \/ \E bt \in Batches : Deliverable(bt) /\ AddRawChanges(bt)
    \/ \E l \in Local, s \in BOOLEAN : AddContent(l, s)
    \/ PersistChanges
    \/ PersistHeads
    \/ StorageFault
    \/ SnapshotPath
    \/ Crash
    \/ BuildDocTree

Spec == Init /\ [][Next]_vars

-----------------------------------------------------------------------------
(* Properties                                                              *)

TypeOK ==
    /\ DOMAIN info \subseteq Changes /\ {Genesis} \cup Remote \subseteq DOMAIN info
    /\ \A c \in DOMAIN info : info[c] \in Header
    /\ attached \subseteq Changes /\ unattached \subseteq Changes
    /\ heads \subseteq Changes /\ root \in Changes \cup {NoId}
    /\ snapshotPath \in Seq(Changes)
    /\ stored \subseteq DOMAIN info /\ storedHeads \subseteq DOMAIN info
    /\ pc \in {"idle", "changes", "heads"} /\ pending \subseteq DOMAIN info
    /\ pc = "idle" => pending = {}
    /\ up \in BOOLEAN /\ acked \subseteq DOMAIN info /\ panicked \in BOOLEAN

\* The Tree invariants of the spec's data model hold whenever the process is
\* up, across AddRawChanges batches that append, rebuild from storage or
\* move the root by reduceTree, AddContent, crashes and BuildDocTree: the
\* partitions are disjoint, the root is attached, every attached change but
\* the root has all its parents attached, and the heads are exactly the
\* attached changes no attached change builds on.  A batch that fails
\* validation breaks it: rollback keeps the heads tree.Add derived (the
\* tree_rollback_panic trace), so it is checked only on valid input.
TreeWellFormed ==
    up =>
      /\ attached \cap unattached = {}
      /\ root \in attached
      /\ \A c \in attached \ {root} : Prev(c) \subseteq attached
      /\ heads = HeadsOf(attached)

\* The tree storage is causally closed: every stored head is stored and every
\* stored change's parents are stored, so BuildDocTree can load the whole
\* history from TreeStorage.Heads() after AddRawChanges / AddContent wrote
\* their changes and heads.
StorageClosed ==
    /\ storedHeads \subseteq stored
    /\ \A c \in stored : Prev(c) \subseteq stored

\* A change that AddRawChanges or AddContent returned as added survives any
\* later crash: it stays reachable in storage from the stored heads, the
\* place BuildDocTree starts loading from.
AckedDurable == acked \subseteq Ancestry(storedHeads, stored, {})

\* A change whose author the validator rejects is never written to storage,
\* whether it arrives alone, behind a gap, in a rebuild, or under a local
\* change (spec: Authorization).
NoForbiddenStored == stored \cap Forbidden = {}

\* The node never panics on input from peers: AddMergedHead in AddContent
\* always finds the heads it builds on attached (spec section 7).
NeverPanics == ~panicked

\* The snapshot path of a peer that holds the whole history up to snapshot
\* sn: sn and its SnapshotBaseId chain back to the first change.
RECURSIVE ChainSeq(_)
ChainSeq(sn) == IF sn = NoId THEN <<>> ELSE <<sn>> \o ChainSeq(info[sn].base)

\* Whenever no call is running, ChangesAfterCommonSnapshot answers every
\* peer without error, and the answer together with what the peer holds
\* contains every change of our tree, so the peer reaches our heads (spec
\* 8.5, Convergence): a peer without the document sends an empty path, a
\* peer holding the history up to a snapshot sends that snapshot's path.
SyncResponseComplete ==
    up /\ pc = "idle" =>
      /\ LET r == ChangesAfterCommonSnapshot(<<>>)
         IN  r.res = "ok" /\ attached \subseteq r.changes
      /\ \A sn \in {c \in DOMAIN info : info[c].snap} :
           LET r == ChangesAfterCommonSnapshot(ChainSeq(sn))
           IN  /\ r.res = "ok"
               /\ attached \subseteq r.changes \cup Ancestry({sn}, DOMAIN info, {})

\* The tree storage implements the durable history of DurableLog: the changes
\* reachable in storage from TreeStorage.Heads(), the set BuildDocTree
\* restarts from, never lose a member and are closed under parents, across
\* AddRawChanges batches that append, rebuild or reduce, AddContent, the
\* write order of AddRawChange and SetHeads, SnapshotPath, crashes and
\* BuildDocTree.  A failed write (tree_write_error) or a rolled-back batch
\* breaks it, so it is checked on valid input without storage faults.
Durable == INSTANCE DurableLog WITH
               Ids <- Changes,
               parents <- [c \in DOMAIN info |-> info[c].prev],
               log <- Ancestry(storedHeads, stored, {})
DurableHistory == Durable!Spec

=============================================================================
