--------------------------- MODULE MCZoneListing ---------------------------
(* Five zones on pages of two. *)
EXTENDS ZoneListing

CONSTANTS z1, z2, z3, z4, z5

MCZones == {z1, z2, z3, z4, z5}
=============================================================================
