--------------------------- MODULE MC_ObjectTree ---------------------------
(***************************************************************************)
(* Instances of ObjectTree for TLC.  The peer's history:                   *)
(*                                                                         *)
(*      g --- a --- s* --- b                                               *)
(*       \                  \                                              *)
(*        x --------------- m        x2 on x,  f on x,  z on g            *)
(*                                                                         *)
(* g is the first change and s* a snapshot on it; b is based on s, every   *)
(* other change on g, so x, m, x2, f and z arriving after the root moved   *)
(* to s take the rebuild path.  f is authored by a user without write      *)
(* permission, z carries a bad signature.  l1, l2 are local ids.          *)
(***************************************************************************)
EXTENDS ObjectTree

CONSTANTS g, a, s, b, x, m, x2, f, z, l1, l2

MCPrev == (a :> {g}) @@ (s :> {a}) @@ (b :> {s}) @@ (x :> {g}) @@ (m :> {b, x})
          @@ (x2 :> {x}) @@ (f :> {x}) @@ (z :> {g})
MCBase == (a :> g) @@ (s :> g) @@ (b :> s) @@ (x :> g) @@ (m :> g)
          @@ (x2 :> g) @@ (f :> g) @@ (z :> g)

\* The remote changes of each run, and the DAG restricted to them.
RemoteValid     == {a, s, b, x, m}
RemoteAuthz     == {a, s, x, f, z}
RemotePanic     == {x, f}
RemoteGap       == {x, x2}

MCRPrev == [c \in Remote |-> MCPrev[c]]
MCRBase == [c \in Remote |-> MCBase[c]]
MCRSnap == {s} \cap Remote
MCBadSig == {z} \cap Remote
MCForbidden == {f} \cap Remote
MCLocal == {l1, l2}
MCLocal1 == {l1}
=============================================================================
