--------------------------- MODULE MC_BoundedWork ---------------------------
(* A parent task and its child: the child's steps draw from both scopes.    *)
EXTENDS BoundedWork

CONSTANTS parent, child
SmallChains == { <<parent>>, <<parent, child>> }
=============================================================================
