\* A create that a 5xx answered is repeated.
SPECIFICATION FairSpec
CONSTANTS
  h1 = h1 h2 = h2 main = main uplink = uplink default = default wan = wan
  a1 = a1 a2 = a2 b1 = b1 b1x = b1x id1 = id1 id2 = id2 id3 = id3 id4 = id4
  id5 = id5 id6 = id6 one = one daemon = daemon
  Absent = Absent Unknown = Unknown None = None
  Hosts = {h1}
  InitialHosts = {h1}
  Groups = {main}
  Links = {default}
  DefaultLink = default
  Ids = {id1, id2, id3, id4, id5, id6}
  Daemons = {}
  OneShots = {one}
  Ttls = {1, 60, 300}
  MaxRetries = 3
  MaxDisturbances = 1
  Unbounded = {}
  Disturbances = {"server_error"}
  GroupOf <- MCGroupOfOne
  LinkOf <- MCLinkOfOne
  Addrs <- MCAddrs
  Contents <- MCContents
  Denotes <- MCDenotes
  Stored <- MCStored
  Proxied <- MCProxied
  Ttl <- MCTtl
  InitialZones <- MCZonesOfOne
  Edits <- MCEdits
PROPERTIES NoNewDuplicates
CHECK_DEADLOCK FALSE
