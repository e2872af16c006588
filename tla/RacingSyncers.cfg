\* The daemon and a one-shot interleave their requests in the zone of one host,
\* in which another host, not managed here, has a record too.
SPECIFICATION FairSpec
CONSTANTS
  h1 = h1 h2 = h2 main = main uplink = uplink default = default wan = wan
  a1 = a1 a2 = a2 b1 = b1 b1x = b1x id1 = id1 id2 = id2 id3 = id3 id4 = id4
  id5 = id5 id6 = id6 one = one daemon = daemon
  Absent = Absent Unknown = Unknown None = None
  Hosts = {h1, h2}
  InitialHosts = {h1}
  Groups = {main}
  Links = {default}
  DefaultLink = default
  Ids = {id1, id2, id3, id4, id5, id6}
  Daemons = {daemon}
  OneShots = {one}
  Ttls = {1, 60, 300}
  MaxRetries = 2
  MaxDisturbances = 1
  Unbounded = {}
  Disturbances = {"timeout", "link"}
  GroupOf <- MCGroupOfOne
  LinkOf <- MCLinkOfOne
  Addrs <- MCAddrs
  Contents <- MCContents
  Denotes <- MCDenotes
  Stored <- MCStored
  Proxied <- MCProxied
  Ttl <- MCTtl
  InitialZones <- MCZonesOfRace
  Edits <- MCEdits
INVARIANTS RequestsNameOwnRecords WritesAreAsserted
PROPERTIES BystandersUntouched Converges
