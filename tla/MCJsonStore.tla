---------------------------- MODULE MCJsonStore ----------------------------
(* Two processes that edit one table: every kind of edit, on two keys. *)
EXTENDS JsonStore

CONSTANTS h1, h2, g1, g2, p1, p2

MCKeys == {h1, h2}
MCValues == {g1, g2}

Edit(kind, keys, from, to) == [kind |-> kind, keys |-> keys, from |-> from, to |-> to]

\* Each pair of these conflicts on some table.
MCRequests ==
  {Edit("add", {h1}, None, g1), Edit("bulk", {h1, h2}, None, g2),
   Edit("remove", {h1}, None, None), Edit("register", {h2}, None, g1),
   Edit("reassign", {}, g1, g2), Reading}
=============================================================================
