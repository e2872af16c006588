----------------------------- MODULE MCDnsSync -----------------------------
(***************************************************************************)
(* Instances of DnsSync for TLC: one or two hosts, one of them in a group  *)
(* bound to an interface of its own.                                       *)
(***************************************************************************)
EXTENDS SingleRun

CONSTANTS h1, h2, main, uplink, default, wan, a1, a2, b1, b1x, id1, id2, id3, id4, id5, id6, one, daemon

MCGroupOf == (h1 :> main) @@ (h2 :> uplink)
MCLinkOf == (main :> default) @@ (uplink :> wan)
MCGroupOfOne == [h \in Hosts |-> main]
MCLinkOfOne == (main :> default)

\* Two IPv4 addresses, one IPv6 address; b1x is another spelling of b1, and
\* the one the provider answers with.
MCContents == {a1, a2, b1, b1x}
MCAddrs == ("A" :> {a1, a2}) @@ ("AAAA" :> {b1})
MCAddrsStill == ("A" :> {a1}) @@ ("AAAA" :> {b1})
MCStored == [c \in MCContents |-> IF c = b1 THEN b1x ELSE c]
MCDenotes == [c \in MCContents |-> IF c = b1x THEN b1 ELSE c]

\* h1 is proxied, h2 is not and has a TTL of its own.
MCProxied == [h \in Hosts |-> h = h1]
MCTtl == [h \in Hosts |-> 60]

Rec(i, h, f, c, p, t) ==
  [id |-> i, name |-> h, type |-> f, content |-> c, proxied |-> p, ttl |-> t]
Bystander == Rec(id1, h1, "TXT", a2, FALSE, 1)
Stale     == Rec(id2, h1, "A", a2, TRUE, 1)
Right     == Rec(id3, h1, "A", a1, TRUE, 1)
OldV6     == Rec(id4, h1, "AAAA", b1x, FALSE, 60)

OtherHost == Rec(id2, h2, "A", a1, FALSE, 300)

\* For two hosts, and for h1 alone.
MCZones == {{}, {Bystander, Stale, Right}, {Right, OldV6, OtherHost}}
MCZonesOfOne == {{}, {Bystander, Stale, Right}, {Right, OldV6}}
MCZonesOfRace == {{OtherHost}, {Bystander, Stale, Right}}
MCEdits == {[type |-> "A", content |-> a1, proxied |-> FALSE, ttl |-> 300],
            [type |-> "AAAA", content |-> b1x, proxied |-> FALSE, ttl |-> 300]}
=============================================================================
