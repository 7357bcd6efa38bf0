---------------------------- MODULE MC_AclState ----------------------------
(* Model values for AclState: the users, one invite key, the node.         *)
EXTENDS AclState

CONSTANTS u1, u2, u3, k1, node
=============================================================================
