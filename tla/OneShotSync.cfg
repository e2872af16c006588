\* One `sync --once` run for two hosts, one of them bound to an interface of its
\* own. The API fails as often as it likes, and twice in ways that leave the
\* outcome open; links and hosts stand still. The run exits, so it deadlocks.
SPECIFICATION FairSpec
CONSTANTS
  h1 = h1 h2 = h2 main = main uplink = uplink default = default wan = wan
  a1 = a1 a2 = a2 b1 = b1 b1x = b1x id1 = id1 id2 = id2 id3 = id3 id4 = id4
  id5 = id5 id6 = id6 one = one daemon = daemon
  Absent = Absent Unknown = Unknown None = None
  Hosts = {h1, h2}
  InitialHosts = {h1, h2}
  Groups = {main, uplink}
  Links = {default, wan}
  DefaultLink = default
  Ids = {id1, id2, id3, id4, id5, id6}
  Daemons = {}
  OneShots = {one}
  Ttls = {1, 60, 300}
  MaxRetries = 3
  MaxDisturbances = 2
  Unbounded = {"connect", "rate_limit", "rejected"}
  Disturbances = {"connect", "timeout", "rate_limit", "rejected", "garbled", "crash"}
  GroupOf <- MCGroupOf
  LinkOf <- MCLinkOf
  Addrs <- MCAddrsStill
  Contents <- MCContents
  Denotes <- MCDenotes
  Stored <- MCStored
  Proxied <- MCProxied
  Ttl <- MCTtl
  InitialZones <- MCZones
  Edits <- MCEdits
INVARIANTS TypeOK UnreportedHostsMatch
PROPERTIES AddressKept NoNewDuplicates CyclesEnd RunPromised
CHECK_DEADLOCK FALSE
