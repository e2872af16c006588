\* The daemon and one host, with two disturbances of any kind.
SPECIFICATION FairSpec
CONSTANTS
  h1 = h1 h2 = h2 main = main uplink = uplink default = default wan = wan
  a1 = a1 a2 = a2 b1 = b1 b1x = b1x id1 = id1 id2 = id2 id3 = id3 id4 = id4
  id5 = id5 id6 = id6 one = one daemon = daemon
  Absent = Absent Unknown = Unknown None = None
  Hosts = {h1}
  InitialHosts = {h1}
  Groups = {main}
  Links = {default}
  DefaultLink = default
  Ids = {id1, id2, id3, id4, id5, id6}
  Daemons = {daemon}
  OneShots = {}
  Ttls = {1, 60, 300}
  MaxRetries = 3
  MaxDisturbances = 2
  Unbounded = {}
  Disturbances = {"connect", "timeout", "server_error", "garbled", "crash", "link", "edit", "manage"}
  GroupOf <- MCGroupOfOne
  LinkOf <- MCLinkOfOne
  Addrs <- MCAddrs
  Contents <- MCContents
  Denotes <- MCDenotes
  Stored <- MCStored
  Proxied <- MCProxied
  Ttl <- MCTtl
  InitialZones <- MCZonesOfOne
  Edits <- MCEdits
PROPERTIES Converges Quiesces
