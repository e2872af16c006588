--------------------------- MODULE MCGroupCycle ----------------------------
(* Both families of one group, over the default route or over an uplink. *)
EXTENDS GroupCycle

CONSTANTS v4, v6, a1, b1

MCOrder == <<v4, v6>>
MCKeys == {[family |-> f, source |-> Source] : f \in {v4, v6}}
MCAddrsOf == (v4 :> {a1}) @@ (v6 :> {b1})
=============================================================================
