------------------------- MODULE MC_AclTreeBuilder -------------------------
(* A thread with heads h and c: h merges a, on the valid root r, and b, on *)
(* a parentless change x whose identity does not derive the thread id; c  *)
(* is a second head on a.                                                   *)
EXTENDS AclTreeBuilder

CONSTANTS r, x, a, b, c, h, none

MCPreviousIds == (h :> <<a, b>>) @@ (a :> <<r>>) @@ (b :> <<x>>) @@ (c :> <<a>>)
                 @@ (r :> <<>>) @@ (x :> <<>>)
MCHeadIds == <<h, c>>
=============================================================================
