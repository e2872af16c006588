--------------------------- MODULE MCIpDetection ---------------------------
(* Both families over the default route, and one over an uplink of its own. *)
EXTENDS IpDetection

CONSTANTS v4, v6, wan, a1, a2, b1

Key(f, s) == [family |-> f, source |-> s]
MCKeys == {Key(v4, Default), Key(v6, Default), Key(v4, wan)}
MCAddrsOf == (v4 :> {a1, a2}) @@ (v6 :> {b1})
=============================================================================
