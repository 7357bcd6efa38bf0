--------------------------- MODULE AclTreeBuilder ---------------------------
(***************************************************************************)
(* ACLTreeBuilder of the data package (src/data/acltreebuilder.go).  One  *)
(* builder over a thread: Build loads the changes from the thread's heads *)
(* by a DFS that follows PreviousIds, picks as root the first parentless  *)
(* change whose identity derives the thread id, and adds everything      *)
(* loaded to the tree.  A load (GetChange, unmarshal, signature check)    *)
(* may fail; the change is then skipped.  Build may be called again, as   *)
(* the type allows, after an error or after a success.                    *)
(***************************************************************************)
EXTENDS Integers, Sequences, SequencesExt, Relation

CONSTANTS
    Changes,        \* change ids of the thread
    PreviousIds,    \* PreviousIds[c]: the parents of c, in their order
    HeadIds,        \* thread.Heads(), in order
    ValidRoots,     \* changes whose identity verifies the thread id
    LoadFaults,     \* whether GetChange / verification may fail
    MaxBuilds,      \* bound on Build calls
    NoChange        \* the root of a tree that has none

ASSUME PreviousIds \in [Changes -> Seq(Changes)] /\ HeadIds \in Seq(Changes)
ASSUME ValidRoots \subseteq Changes /\ NoChange \notin Changes

VARIABLES
    cache,      \* the ids in tb.cache
    cacheNil,   \* tb.cache has been set to nil by a successful Build
    tree,       \* the ids added to tb.tree by AddFast
    root,       \* the root added to tb.tree, or NoChange
    status,     \* result of the last Build: "none", "ok", "err" or "panic"
    builds,     \* Build calls so far
    faulted     \* whether a load failed during the last Build

vars == <<cache, cacheNil, tree, root, status, builds, faulted>>

TypeOK ==
    /\ cache \subseteq Changes /\ cacheNil \in BOOLEAN
    /\ tree \subseteq Changes /\ root \in Changes \cup {NoChange}
    /\ status \in {"none", "ok", "err", "panic"}
    /\ builds \in 0..MaxBuilds /\ faulted \in BOOLEAN

\* NewACLTreeBuilder: an empty cache and an empty tree.
Init ==
    /\ cache = {} /\ cacheNil = FALSE /\ tree = {} /\ root = NoChange
    /\ status = "none" /\ builds = 0 /\ faulted = FALSE

\* Mutant of DfsFromStart: only the first of PreviousIds is pushed.
RECURSIVE DfsFirstParent(_, _, _, _, _)
DfsFirstParent(stack, uniq, buf, roots, loads) ==
    IF stack = <<>> THEN [buf |-> buf, roots |-> roots]
    ELSE LET id == Last(stack)
             rest == Front(stack)
         IN  IF id \in uniq \/ id \notin loads
             THEN DfsFirstParent(rest, uniq, buf, roots, loads)
             ELSE DfsFirstParent(rest \o SubSeq(PreviousIds[id], 1,
                                                IF PreviousIds[id] = <<>> THEN 0 ELSE 1),
                                 uniq \cup {id}, Append(buf, id),
                                 IF PreviousIds[id] = <<>> THEN Append(roots, id)
                                 ELSE roots, loads)

\* dfsFromStart: pop the last id of the stack; skip it when already visited
\* or when loadChange fails (loads: the ids that load); otherwise record it,
\* push its PreviousIds, and note it as a possible root if it has none.
RECURSIVE DfsFromStart(_, _, _, _, _)
DfsFromStart(stack, uniq, buf, roots, loads) ==
    IF stack = <<>> THEN [buf |-> buf, roots |-> roots]
    ELSE LET id == Last(stack)
             rest == Front(stack)
         IN  IF id \in uniq \/ id \notin loads
             THEN DfsFromStart(rest, uniq, buf, roots, loads)
             ELSE DfsFromStart(rest \o PreviousIds[id],
                               uniq \cup {id}, Append(buf, id),
                               IF PreviousIds[id] = <<>> THEN Append(roots, id)
                               ELSE roots, loads)

\* getRoot: the possible roots whose identity verifies the thread id, in
\* the order the DFS found them; the first is taken.
RootCandidates(roots) == SelectSeq(roots, LAMBDA r : r \in ValidRoots)

\* loadChange with verify: a cached change is returned without loading; any
\* other load (GetChange with its 30 s timeout, unmarshal, signature check)
\* may fail.  The sets of ids whose load fails in one Build.
LoadFailures == IF LoadFaults THEN SUBSET (Changes \ cache) ELSE {{}}

\* Build.  loadChange returns a cached change without loading it; any other
\* load may fail.  With the cache set to nil by an earlier success, the
\* first load that succeeds writes into the nil map and panics.  Without a
\* possible root, or without a valid one, Build returns an error and keeps
\* the cache; otherwise root and changes are added to the tree and the
\* cache is dropped.
Build ==
    /\ builds < MaxBuilds /\ status # "panic"
    /\ builds' = builds + 1
    /\ \E failed \in LoadFailures :
        LET r == DfsFromStart(HeadIds, {}, <<>>, <<>>, Changes \ failed)
            loaded == ToSet(r.buf)
        IN  /\ faulted' = (failed \cap ToSet(HeadIds) # {} \/
                           \E c \in loaded : ToSet(PreviousIds[c]) \cap failed # {})
            /\ CASE cacheNil /\ loaded # {} ->
                        /\ status' = "panic"
                        /\ UNCHANGED <<cache, cacheNil, tree, root>>
                 [] RootCandidates(r.roots) = <<>> ->
                        /\ status' = "err"
                        /\ cache' = cache \cup loaded
                        /\ UNCHANGED <<cacheNil, tree, root>>
                 [] OTHER ->
                        /\ status' = "ok"
                        /\ root' = Head(RootCandidates(r.roots))
                        /\ tree' = tree \cup {root'} \cup loaded
                        /\ cache' = {} /\ cacheNil' = TRUE

Next == Build

Spec == Init /\ [][Next]_vars

----------------------------------------------------------------------------
(* Properties                                                              *)

\* The reference: the changes reachable from the heads along PreviousIds.
ParentOf == [p \in Changes \X Changes |-> p[2] \in ToSet(PreviousIds[p[1]])]
Reach == ReflexiveTransitiveClosure(ParentOf, Changes)
ReachableFromHeads == {c \in Changes : \E h \in ToSet(HeadIds) : Reach[h, c]}

\* When every load of a Build succeeds, the tree it returns holds exactly
\* the changes reachable from the heads, and its root is a parentless
\* change whose identity verifies the thread id.
BuildComplete ==
    status = "ok" /\ ~faulted =>
        /\ tree = ReachableFromHeads
        /\ root \in ValidRoots /\ PreviousIds[root] = <<>>

=============================================================================
