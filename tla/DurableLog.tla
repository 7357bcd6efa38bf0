----------------------------- MODULE DurableLog -----------------------------
(***************************************************************************)
(* What a tree's storage promises (spec: TreeStorage, Durability): the     *)
(* durable history of a document is a set of changes that only grows and  *)
(* is closed under parent links, so that a builder starting from the      *)
(* stored heads always finds every change it needs.  Change headers are    *)
(* created once and never altered; a change joins the history together    *)
(* with whichever of its parents are not in it yet.                        *)
(***************************************************************************)
CONSTANTS
    Ids,        \* every change id
    Genesis     \* the first change, durable from the start

VARIABLES
    parents,    \* parents[c]: the parents of every change that exists
    log         \* the durable history

vars == <<parents, log>>

Init ==
    /\ Genesis \in DOMAIN parents /\ DOMAIN parents \subseteq Ids
    /\ parents[Genesis] = {}
    /\ log = {Genesis}

\* A change is created on top of changes that exist.
Create ==
    /\ \E c \in Ids \ DOMAIN parents :
          /\ DOMAIN parents' = DOMAIN parents \cup {c}
          /\ \A d \in DOMAIN parents : parents'[d] = parents[d]
          /\ parents'[c] \subseteq DOMAIN parents
    /\ UNCHANGED log

\* Some existing changes become durable, each with its parents.
Commit ==
    /\ log \subseteq log' /\ log' \subseteq DOMAIN parents
    /\ \A c \in log' \ log : parents[c] \subseteq log'
    /\ UNCHANGED parents

Next == Create \/ Commit

Spec == Init /\ [][Next]_vars

=============================================================================
