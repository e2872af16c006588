# A verification model of cloudflare-register

cloudflare-register keeps the A and AAAA records of a list of hosts equal to the
public addresses of the uplinks they are reached by. It detects the addresses,
lists the records of every host at Cloudflare, and creates, updates or deletes
what differs. Hosts are grouped; a group may be bound to a network interface of
its own. The list is a JSON file that a web interface, a terminal interface, a
command line and the daemon all edit.

This directory holds TLA+ models of its core, the configurations that
model-check them with TLC, and theorems about them that TLAPS checks. Paths such
as `services/sync_service.py` are below `src/src/cloudflare_register/`.

## Inventory

| component | state it keeps | operations | what makes it correct | where |
|---|---|---|---|---|
| sync engine, `services/sync_service.py`, `sync.py` | the local variables of a cycle: hosts read, group, target addresses, report | `run_once`, `reconcile_host`, `run_forever` | no record is deleted on a guess, no moment without a record, the report tells the truth, the zone settles and is then left alone, every cycle ends | `DnsSync`, `GroupCycle` (what a cycle begins with), `ServiceLife` (the loop) |
| DNS provider, `providers/base.py`, `providers/cloudflare.py` | attempts of the current request; the zone itself is at Cloudflare | `list_records`, `create_`, `update_`, `delete_record`, `list_zones`, `_request`, `close` | a repeated request does no harm, an abandoned one that lands late is repaired, foreign records are never touched; a list of zones is whole | `DnsSync`, `ZoneListing` |
| host store, `persistence.py`, `services/host_service.py` | `hosts.json`, `interface_groups.json`, the lock file, `_LOCK_STATE` | `add_host`, `add_hosts_bulk`, `remove_host`, `reassign_group`, `register_interface_group`, reads | atomic edits, none lost, durable when acknowledged, locks and files left in order after every error | `JsonStore`, `Registry` |
| address detection, `ip_detection.py` | TTL cache of answers per family and source | `get_public_ipv4/6`, racing probes, routing check | "absent" only when there is no route, never because probes failed; an answer of the right family wins | `IpDetection`; two lookups of a cycle in `GroupCycle`; the three answers in `DnsSync` |
| interfaces, `services/interface_service.py` | none (reads the kernel) | `list_interfaces`, `get_interface` | a group bound to a missing or down interface is skipped, and an outage is not taken for the loss of a family | `GroupCycle`; in `DnsSync` what `run_once` makes of it |
| domain models, `domain/models.py` | none | validation | | fields in `DnsSync`, `RegistryEdits` |
| settings, `config.py` | one settings object | `get_settings` | documented precedence, shipped secrets refused, one configuration for the whole process | `Configuration` |
| web, `web/app.py`, `web/csrf.py` | sessions (signed cookies), `session_generation`, `login_failures` | login, logout, edits | a logout ends every session and every edit under way, guesses are slow, lockouts end | `WebSession`, `ZoneListing`; its edits in `JsonStore` |
| command line, `cli.py` | the tasks of `service`; the file `init` writes | `init`, `check-config`, `sync`, `service`, `web`, `tui` | the loop has stopped before its HTTP client is closed, a stop ends the process, the secret of `init` is private but for a known gap, a checked configuration is the one that runs, and what `check-config` says of it holds | `ServiceLife`, `Configuration`; syncers of `DnsSync` |
| terminal interface, `tui/app.py` | its panels and log, the client of a synchronisation | keys, timer, sync | the panels become current, no client is left open | its sync is a one-shot syncer of `DnsSync`; the rest is not modelled |
| provider factory, `providers/factory.py` | a registry that does not change | `get`, `build` | | what it refuses, in `Configuration` |
| logging, exceptions, packaging, tests | none that changes | | | not modelled |

How they interact: `cli` starts one daemon (`run_forever`) or a one-shot
(`run_once`); each reads the host store under the file lock once per cycle,
asks detection for the two addresses of each group, and drives the provider one
request at a time. The web and terminal interfaces edit the store in processes
or handlers of their own. Two syncers share nothing but the zone; two editors
share nothing but the file and its flock.

What is hard in this system:

- requests whose outcome the client does not know: time-outs, 5xx of a gateway,
  a kill with a request in flight. They may land at any later time;
- a daemon and a `sync --once` from cron writing the same names from listings
  that go stale between any two requests;
- errors half way through a host, with duplicates deleted and the kept record
  not yet updated;
- the difference between "this family has no address" (delete the records) and
  "detection failed" (leave them alone);
- comparisons that must recognise an address in another spelling, and a TTL that
  the provider forces, or every cycle writes again;
- a lock that is re-entrant in its process and exclusive between processes,
  entered again inside a mutation, left on every error path;
- power cuts between write, fsync, rename and the fsync of the directory;
- answers of different age: one family from the cache, the other from the wire,
  the interface from two snapshots, while the link goes down;
- requests of the web that were admitted before a logout and act after it;
- a process that reads its configuration three times while it is being written;
- signals at any moment of a process that has a server, a loop and a client.

`PROJECT.json` lists each of these at its line with the properties that would
catch it going wrong.

## Modules

`DnsSync` models the engine together with the provider, and the world around
them. `job[s]` is the stack frame of syncer `s`; every action is what the code
does between two awaits.

| action | code |
|---|---|
| `StartCycle` | `run_once` reads the host list (a one-shot may have a group filter) |
| `NextGroup` | takes up a group, or skips it if its interface is missing or down |
| `DetectIPv4`, `DetectIPv6` | `_detect_family`; after the second the guards that leave a group alone |
| `NextHost`, `GroupDone`, `EndCycle` | the loop over hosts, the next group, the report |
| `Listed` | `list_records` answers, `reconcile_host` decides what it will write |
| `Answered`, `NotFound` | a write is carried out, or hits a record that is gone |
| `Failed` | an attempt fails in one of six ways; `_request` repeats it or raises |
| `Crash`, `Land`, `Lose` | kills and cancellations; abandoned requests that land or do not |
| `LinkChanges`, `HandEdit`, `ManageHosts` | the uplinks, an operator in Cloudflare's UI, edits of the list |

Two simplifications deserve a word. `reconcile_host` decides the requests of
both families from one listing and changes its mind about none of them, so the
model computes them all when the listing arrives (`PlanFamily`) and then makes
them in program order. And a group is taken by `\E`, not in the order of the
dictionary: the properties do not depend on the order.

`SyncPromise` is what a single run promises, with no requests, groups or failures in
it: per host what is wanted of each family (one record, none, or unknown), the
records held with whether each is right, and how far the run is with it. A host is
decided on when all its addresses are known and its link is not offline; then each
write creates the one record there is to be, puts one right, or removes one that is
not wanted or not the last; a host that is done has what it is to have, and no write
reaches it any more, however late; a run that ends has done or reported every host.
`SingleRun` maps a `job` of `DnsSync` and the zone to these (`StageOf`, `Held`,
`Want`), and `RunPromised` says that a run implements it.

`RegistryEdits` has the use cases of `HostService` as functions on a table;
`Registry` is the abstract store, in which an edit is one step; `JsonStore` is
the code of `persistence.py`, one action per system call that matters
(`flock`, load, `mkstemp`, write and fsync, `replace`, fsync of the directory,
unlock), each of which can fail, be interrupted by a kill, or be cut short by a
power failure. `file` is what the path names, `disk` what it named when the
directory was last synced, `synced` whether the data of `file` was. `Promised`
says that `JsonStore` implements `Registry`. `WriteBack` is the kernel bringing
either to the disk of its own accord.

`IpDetection` models `ip_detection.py`. The state is the cache with its LRU
order and the one lookup in progress: `run_once` waits for IPv4 before it asks
for IPv6, and nothing calls the concurrent `get_public_ips`.

| action | code |
|---|---|
| `Start` | `_get_public_ip` looks into the cache (`_TTLCache.get`) and answers, or starts the probes |
| `Reply` | a `_probe` ends, with an address of the family it is for or without |
| `Consume` | `_first_hit` takes the next finished probe; a hit cancels the others |
| `Finish` | the client is closed, the routing table is asked if there was no hit, the answer is cached (`_TTLCache.put`) or an error raised |
| `Tick`, `Change` | time; uplinks that move, vanish or come back, routes that come and go |

`since` and `unrouted` record for how long an address or a route has been gone;
nothing the code does depends on them. A probe has time-outs for each operation
and none for the whole, so `Patience`, the length of a lookup, is an assumption.

`GroupCycle` extends `IpDetection` to the head of a cycle for one group, the
default route or a bound interface: `Begin` and `ReadAddresses` are the two
snapshots of `list_interfaces`, `Detect` is a step of `_detect_family` (a missing
family at once, else a step of a lookup), `Decide` the guards of `run_once` and
what they leave to do. Time passes only where the code waits, and the link
changes anywhere. `gone` and `alone` say for how long a family, or a family on
a link that is otherwise alive, has been missing; again nothing depends on them.

`WebSession` models `web/app.py` and `web/csrf.py`. The handlers are coroutines of
one loop, so what one does between two awaits is a step:

| action | code |
|---|---|
| `Guess`, `Login` | `login_post` with wrong and right credentials, with `_locked_out`, `_record_failure`, `_create_token` |
| `View` | `index`, `wizard`: a page with the forms of its session |
| `Handle` | an edit: the body is read first, then session and CSRF value are checked and the table edited without an await |
| `Admit`, `Match`, `Render` | `logout` and `wizard_zones`: the session is checked, then the body awaited and matched, then the deed; the zones are awaited once more |
| `Tick`, `Restart` | tokens, cookies and lockouts age; the process forgets generation and failures |

A request keeps the cookie and the form it was sent with, however the browser
goes on. The order of the dependencies and of the body is FastAPI's: it parses
declared form fields before it resolves the dependencies, while
`require_match` awaits `request.form()` itself. `Edits` and `Edited` are those of
`RegistryEdits`.

`ServiceLife` has one variable for where the main task is and one for where the
loop is (`DnsSync` says what the loop does in a cycle; here it only waits, in a
lookup or a request). `service`, `sync --loop` and `sync --once` are the three values
of `command`. What uvicorn and asyncio do with signals is external: uvicorn
drains, raises the signal again when it has stopped, and SIGTERM then kills the
process before the `finally` of `cmd_service`.

`Configuration` models `config.py`, and `init`, `check-config` and the checks of
`service` in `cli.py`. A file has a content, a mode and a reader; `init` goes step
by step (`Begin` decides, `Open` truncates or creates, `Write`, `Chmod`), also under
`sudo`, and may be killed between any two, and several runs may overtake each other.
`Proceed` is one of the three readings of the settings by `service`, and ends it with
exit code 2 if what is read there is not accepted (`Accepts`): the first two require
safe settings, the third builds the provider, which the factory and the provider may
refuse (`Buildable`). `judged`, `verdict` and `cut` are histories: what check-config
said of the files, of those a start has read, and where `init` was killed just before
its chmod.

`ZoneListing` models `list_zones` and the wizard's request around it.

Modules whose names begin with `MC` give the constants their values for TLC, and
modules whose names end in `Proofs` hold the theorems. The operators named
`Bug...` are the wrong versions of a definition that each property is tried
against; nothing uses them.

What is assumed of Cloudflare, from how the code uses it: it accepts records
that are identical but for their id (what the comment at
`providers/cloudflare.py:107-109` fears), it never gives out an id that anybody may
still refer to, it may spell an address its own way (`Stored`), and it carries
out a request once or not at all.

## Runs

A type invariant `TypeOK` is checked where it says more than the shape of the
variables: in `one_shot`, `detection`, `store`, `web` and `service_life`.

| run | configuration | what it shows | distinct states |
|---|---|---|---|
| `one_shot` | `OneShotSync.cfg` | one `sync --once` over two hosts in two groups while the API fails: the report is true (`UnreportedHostsMatch`), no family that should have an address is emptied (`AddressKept`), no duplicate is added (`NoNewDuplicates`), the run ends (`CyclesEnd`) and implements `SyncPromise` (`RunPromised`) | 529,388 |
| `daemon` | `DaemonSync.cfg` | the daemon and one host under every kind of disturbance, two of them: `Converges`, `Quiesces` | 642,475 |
| `race` | `RacingSyncers.cfg` | a daemon and a one-shot in one zone, each acting on stale listings: no request ever names a foreign record, bystanders stay, and the zone still converges | 642,565 |
| `retried_create` | `RetriedCreate.cfg` | finding 1 below | |
| `store` | `Store.cfg` | two processes and six edits that conflict in pairs, every fault but a failing directory fsync: `Promised` with durability, `LeavesNothingBehind`, `EditsEnd` | about 270,000 |
| `detection` | `Detection.cfg` | both families over the default route and IPv4 over an uplink, a cache for two of the three answers: `AddressesAreRecent`, `AbsentMeansNoRoute`, `SettlesOnTruth`, `LookupsEnd` | 537,062 |
| `group_bound` | `BoundGroup.cfg` | both lookups of a cycle over an interface that goes down, vanishes and changes its families: no decision on anything older than a cache time and two lookups (`VerdictsAreRecent`); every cycle comes to its end (`CyclesDecide`) | 690,076 |
| `outage_between_lookups` | `OutageBetweenLookups.cfg` | the same over the default route: finding 2 below | |
| `web` | `Web.cfg` | a browser with two sessions and two requests in flight, a client that guesses, a restart: `SessionsHoldUntilLogout`, `NoEditAfterLogout`, `GuessesAreSlow`, `LockoutsEnd` | 1,144,744 |
| `service_life` | `ServiceLife.cfg` | the three commands, every signal at every moment: `NoUseAfterClose`, `CyclesRecur`, `StopEnds` | 669 |
| `configuration` | `Configuration.cfg` | two runs of `init` on a user's file and one on the system's through `sudo`, two edits by hand, two processes that start or check, a provider that cannot be built: a running process uses only what it has checked (`CheckedIsUsed`), what check-config said of it holds up to the building of the provider (`VerdictsHold`), and the secret of `init` lies open only in an earlier file until its chmod or after a kill (`SecretsAreSealed`) | 2,065,062 up to symmetry |
| `zone_listing` | `ZoneListing.cfg` | pages of zones that come and go: `ListingIsComplete`, `ListingsEnd` | 94,109 |

### Bounds, and why they are enough

- One or two hosts: the engine handles hosts one after the other and a record
  belongs to one of them, so what can go wrong between hosts (an error of one
  that touches the other, a request that names the other's record) shows with
  two. One group is bound to an interface and one is not.
- Two IPv4 addresses, and one IPv6 address with a second spelling:
  an address can move, vanish, fail to be detected, or only look different.
- The initial zones hold nothing, duplicates (one stale, one in another
  spelling) beside a TXT record, or a record whose family may be gone.
- `MaxRetries` is the code's 3, except in `race`, where it is 2: a last attempt and one
  that is not. `MaxDisturbances` is 2: an abandoned request and
  a change it collides with, two abandoned requests, two crashes. Failures that
  surely did not reach the server are unbounded in `one_shot`, so there the
  outage may last for ever.
- Six record ids are more than a behaviour of these lengths uses at one time.
- Two processes and two keys in the store: an edit is lost between two of them,
  and each pair of the six edits conflicts on some table. Faults there are
  unbounded.
- Detection has two endpoints (the race of a hit, a miss and a hit that comes too
  late), a cache time of one tick (an entry that is young, old and expired), a
  lookup of at most one tick more, room for two entries of three, so that eviction
  happens, and one change of the uplinks, from any state they may be in: caches
  begin empty, so one change is what makes an entry false. A cycle has one
  endpoint for each of its two families, as the race is settled above, and two
  changes: away and back.
- The cycle that is checked is that of a bound group, which has more to do. The
  theorem covers the other kind, and the run of finding 2 has it (its 43,619 states
  satisfy `VerdictsAreRecent`).
- A browser with two tokens: an old session beside a new one, a form of one session
  sent with the cookie of the other, two requests that overtake each other. One
  restart; a token lives one tick, so that it can end of age between a check and a
  deed. A limit of one failure and a lockout of one tick: a guess within the lockout,
  one at its last tick and one after it. More browsers, clients, failures and ticks
  are covered by the theorems.
- Two handlers and two awaits of a cycle in `ServiceLife`: a forced exit with a
  handler left, and a loop that is in its first and not its last request.
- Two secrets and the provider, given or left out, with the placeholder that `init`
  writes and a provider that is not known; two processes; two runs of `init` that
  overtake each other on one path and a third on the other; two edits by hand, so
  that either file appears, is replaced or goes. That the override is set, that
  `init` runs as root, and that shipped secrets are allowed is left to the theorems. The processes are
  interchangeable, and so are the two runs of `init` on one path (`MCSymmetry`); no
  liveness is checked there.
- Five zones on pages of two, two of which come or go: an empty account, a full and
  a short last page, a page that appears or disappears meanwhile.

Deadlock is checked except where a process ends and nothing else can happen
(`OneShotSync.cfg`, `RetriedCreate.cfg`, `ServiceLife.cfg`).

### Fairness

Of a syncer: weak fairness of its next step, which covers an attempt that fails
as well as one that succeeds. The event loop runs a ready task, and httpx has a
time-out for every attempt. Nothing forces an attempt to succeed; `Converges`
gets that from the bound on disturbances. Of abandoned requests: each is carried
out or lost in the end (weak fairness of `Abandoned`). Of the world: nothing.

Of a store process: weak fairness of the step it is at, and strong fairness of
`Lock`, because the use cases are rare and short and the kernel wakes those who
wait whenever the lock is given up. Nothing obliges a process to ask for an edit,
and crashes and power cuts are never forced, nor are they bounded.

Of detection: weak fairness of the steps of a lookup and of time. Nothing obliges
an endpoint to give an address, nor anybody to ask.

Of a group's cycle: weak fairness of `CycleStep`, which does not force time on;
a cycle that has begun goes on because the event loop resumes it.

Of the web: weak fairness of `Tick` alone. A lockout ends by the clock.

Of `service` and `sync`: weak fairness of the loop's task and of the main task, each
of which waits on something with a time-out or on the other. Nobody has to send a
signal.

## Proofs

`tlapm` checks the theorems below from the specifications alone. They hold for
all values of the constants that satisfy the assumptions of the modules (which
TLC evaluates on each run): any number of hosts, groups, links, syncers,
processes, faults.

`DnsSyncProofs`:

- `TypeCorrect`: `Spec => []TypeOK`, with the bound on attempts and the
  uniqueness of record ids;
- `RequestsSafe`: `Spec => []RequestsNameOwnRecords`;
- `WritesAsserted`: `Spec => []WritesAreAsserted`;
- `BystandersSafe`: `Spec => BystandersUntouched`;
- `PlanLeads`: what the requests of `PlanFamily` are, and where they lead, whatever
  order a listing comes in;
- of one single run: `AddressesKept` (`AddressKept`), `DuplicatesNotCreated`
  (`NoNewDuplicates`) and `ReportTrusted` (`UnreportedHostsMatch`), and `RunKept`:
  `Spec => RunPromised`, it implements `SyncPromise`.

None of the first four is inductive. The argument of `IInv` is about ids: a request names
a record of its host and family, or one that is gone, and can go on naming
nothing else, because a write keeps the name and type of each record it finds
and makes new records under ids that are neither in the zone nor in any request
(`NamesKept`, `WriteKeepsZone`, `OwnershipKept`). That holds for requests in a
job and for those left adrift alike, so no assumption about who else runs, or
when, is needed. `Coherent` adds what a job says of itself: the host it works on
belongs to the group whose addresses are in its target, and that target passed
the guard of `DetectIPv6`. `BystandersSafe` follows since requests carry an
address family as their type.

The last four are about one `sync --once` with no daemon beside it (`Alone`), for
any hosts, groups, links, zones, records and failures, and any number of crashes
and requests that land late. They need assumptions, for without them they are false:

| theorem | excludes | because |
|---|---|---|
| all four | another syncer | two listings of one host may keep different duplicates, and each plan deletes what the other keeps; or both create |
| all four | `edit` | an operator may delete the record that a run keeps, or add one before its create lands |
| `AddressesKept`, `ReportTrusted`, `RunKept` | `link` | a deletion decided while the link had no address may land when it has one again; the report, and the promise, are about the link as it was |
| `DuplicatesNotCreated`, `ReportTrusted`, `RunKept` | `server_error` | finding 1: the POST is repeated though it was carried out |
| `ReportTrusted`, `RunKept` | a provider that alters addresses | `SpellsBack`: what is stored denotes what was sent, or no cycle could end in agreement |

`one_shot` satisfies them all. The argument goes by what a step is to a single run:
calm (no record changes, no write is newly requested, and a host of which requests
are dropped is reported), the carrying out of one request, or a listing (`Steps`).
`OrderInv`: a cycle takes each host up once, so nothing is requested of a host before its
listing (`ListedFirst`). That makes a plan, for which `PlanLeads` holds when it is
made, the only thing that happens to its host's records. On it rest `AddressInv` (a family
that is wanted and has records has one nobody asks to delete), `EmptyInv` with
`OnceInv` (a create that is still requested finds its family empty, and is requested
once, by a syncer or by nobody any more), and `ProgressInv`: of each host that is
listed and not reported, what is still requested leads from the records there are
to what the link answers (`Leads`). When the run exits nothing is requested any more,
so the records are there. `DetectInv` and `ContentInv` carry the link's answer from
detection into the requests.

`RunKept` puts these together. A calm step moves hosts only as `Moved` has it, which is
`Report`, `Start`, `End` or `Kill` of the promise. A listing is `Decide` of its host: it
has been detected in both families, and its link was not offline. A request that is
carried out is `Write`, or `Finish` if it was the last and found its work done. It
changes the records of its own host and family alone (`WriteIsLocal`), in a way the
promise allows: a create finds none (`EmptyInv`), an update brings the link's answer
(`ContentInv`), a delete leaves one where one is wanted (`AddressInv`); the
host has been listed (`ListedFirst`), and its link was not offline (`AssertedInv`).
That it is not a host that is done comes last: such a host has what it is to have
(`DoneInv`, from `ProgressInv`), and no write the promise allows could change that.

`JsonStoreProofs`:

- `TypeCorrect` and `NothingLeft`: `Spec => []TypeOK`,
  `Spec => []LeavesNothingBehind`;
- `Refinement`: `Spec => Promised`, the store implements `Registry`.

Its invariant has three parts. `LockInv`: the owner of the flock is the one
process past `Lock`, at the depth its position calls for. `CallInv`: what a
process loaded is still in the file until it replaces it (`copy` is
`Edited(edit, file)` there), which holds because that process is alone.
`FileInv`: the path never names a torn file, as the data is fsynced before it is
renamed. With these every step of `JsonStore` is a step of `Registry` or
invisible to it: `Replace` is `Apply`, `SyncDirectory` is `Persist`, `Return`
is `Confirm`. Durability of "ok" needs that directory fsyncs do not fail; the
theorem covers both cases.

`IpDetectionProofs`:

- `Invariance`: the inductive `IInv`;
- `AddressesSafe` and `AbsenceSafe`: `Spec => []AddressesAreRecent`,
  `Spec => []AbsentMeansNoRoute`;
- `TypeCorrect`: `Spec => []TypeOK`.

An answer is recent because each thing it may come from is: an entry of age `n`
tells of the link as it was at most `n` ticks and a lookup ago (`Backed`), and
what the probes of a lookup have found was so since the lookup began (`Sound`).
The properties alone speak only of the moment of an answer. `AcceptedIsReach`
is where the family check of `_probe` is needed: the reply of an endpoint that
was reached over the other family is an address of another key. `TypeOK` says of
the cache that it is within its capacity and that its order lists its entries, each
once; a second invariant (`TInv`) adds that a lookup collects only replies that
an endpoint of its key may give, so that no answer is of the wrong family.

`GroupCycleProofs` builds on it:

- `VerdictsRecent`: `GroupSpec => []VerdictsAreRecent`.

Each step of a cycle keeps `IInv`, since it is a step of `IpDetection` or leaves
its variables alone, so an answer is at most `Window` old when it is given.
`Clock` is how long ago the first family was answered: 0 while no lookup runs, then
what the second lookup has spent, and its whole patience when both have their
answer. `FoundRecent` says that what was found has aged by no more than `Clock`,
`MissingRecent` the same of what the interface was seen without, and `Waits` that
the lookup in progress is the one of the family whose turn it is. One
more lookup is therefore all that the age of an address can add to `Window`. An
absence stays within it: the kernel's is at most a cache time old when it is
answered, and the interface was read before the first lookup, but a family that
it lacks is not looked up, so that only the other family's lookup can age it.

`WebSessionProofs`:

- `TypeCorrect`, `SessionsHold`, `NothingEditedAfterLogout`, `GuessingIsSlow`, of
  `TypeOK`, `SessionsHoldUntilLogout`, `NoEditAfterLogout` and `GuessesAreSlow`.

The session part of the invariant: a token that is open has the generation of
the process and one that is revoked has an older one, so a logout, which
raises the generation, moves all of the first to the second (`GenerationInv`).
A request that edits is never caught between its checks and its deed
(`StageInv`), and after a logout no session is open (`OutInv`), so that nothing is
edited. The throttle part (`Counted`) relates the
entry of an address to its last guesses: those that the entry no longer counts are
older than the lockout, and none is younger than the entry, so that giving up a
full count after a lockout loses no guess that matters.

`ServiceLifeProofs`:

- `TypeCorrect`, `ClosedLast`, of `TypeOK` and `NoUseAfterClose`. A closed client
  means that the main task is past the join, and the join waits for the loop's end,
  which is final.

`ConfigurationProofs`:

- `CheckedIsAllThatIsUsed`, `Sealed`, `VerdictsTrusted`, of `CheckedIsUsed`,
  `SecretsAreSealed` and `VerdictsHold`. A process past its first
  reading holds safe settings in its cache and has used nothing else, so what
  happens to the files no longer matters: the second check passes, and only the
  provider can still refuse. What check-config said agrees with what the files resolve
  to as long as they are not touched (`VerdictInv`), and the first reading takes it
  along (`judged`; `Holding` says that what was refused is only held if insecure
  defaults are allowed). Of the files: one that `init` or `install` created is private
  from `Open` on (`CreatedPrivate`), what sudo writes into is such a file (`Installed`),
  and it is in place at every step after `Open` (`InPlace`), whichever runs of `init`
  overtake each other. So only a direct write into an earlier file can open the secret,
  and the `Chmod` of the same run is then still to come, or the run was killed.

`ZoneListingProofs`:

- `Complete`, `Ends`, of `ListingIsComplete` and `ListingsEnd`.

Its invariant follows the border between the pages that were read and those still to
come. A zone that is added can only push others over it to later pages, so none is
missed (`NoneMissed`); one that is removed can only pull others back over it, so none is
seen twice (`NoneTwice`). `Growth` bounds the account by what was there and has come.

Model-checked only: liveness (`Converges`, `Quiesces`, `CyclesEnd`, `EditsEnd`,
`SettlesOnTruth`, `LookupsEnd`, `CyclesDecide`, `LockoutsEnd`, `CyclesRecur`,
`StopEnds`), which the prover's temporal backend does not reach. Every invariant and
every action property that a run checks is proved.

## Findings

1. `retried_create`: `_request` repeats a POST after a 500, 502, 503 or 504
   (`providers/cloudflare.py:116-124`), although its comment (lines 107-109) says
   that a non-idempotent method is only repeated when it never reached the server,
   since otherwise records can be duplicated. In the run a create reaches Cloudflare
   through a gateway that then answers with a 5xx; the repeat succeeds, and the name
   has two records. The next cycle removes one of them (`Converges` holds).
2. `outage_between_lookups`: the guard for offline hosts
   (`services/sync_service.py:223`) knows only both families absent. If the machine
   goes offline when IPv4 has been answered, from the wire or from the cache,
   the AAAA records are deleted over a local outage, which the comment at
   lines 224-226 wants to prevent. `VerdictsAreRecent` is what does hold: the
   family was really missing shortly before. The same property, checked for a group
   bound to an interface (`Source = wan` in the configuration), fails in another
   way: `list_interfaces` reads the states and then the addresses
   (`services/interface_service.py:117-121`), so an interface that goes down in
   between is seen up and without IPv6.

Met while modelling, with no run of their own because the model has the code's
side of them as it is:

- `get_settings` passes the file's values to the constructor (`config.py:219-220`),
  where they win over the environment (`Merged`), against the order documented at
  `config.py:31-34` and in `README.md:176` of the repository.
- `init` asks whether the file exists, hashes a password, and opens it without
  `O_EXCL` (`cli.py:139`, `cli.py:193`): a file that appeared meanwhile is overwritten
  without `--force` (`Begin`, `Open`).
- `init --force` over a file with a wider mode truncates it, writes the new secret and
  only then restricts it (`cli.py:193-196`): others may read the secret meanwhile, and
  for good if `init` is killed there. The docstring at `cli.py:192` says "with mode 0600
  from the very first byte", and the one at `cli.py:202-204` that the file "must hold
  mode 0600 for its whole lifetime". `SecretsAreSealed` says that this is the only way
  in which it happens.
- `check-config` never asks the factory. An unknown `dns_provider`, or an empty token, is
  "config OK" there (`cli.py:276`), while `service` exits with 2
  (`providers/factory.py:61`, `providers/cloudflare.py:64`, `cli.py:367-369`); its docstring
  (`cli.py:231`) speaks of the "DNS provider reachability", which it does not try either.
  This is the one exception in `VerdictsHold`.
- The dashboard binds `q` to `quit_app` (`tui/app.py:74`), an action that neither it
  nor Textual has: the key does nothing.

## Not modelled, and limits

- A cycle that cannot read `hosts.json` or the groups file is abandoned by the
  loop and tried again; the model reads both without failure.
- Back-off delays have no length. Validators, templates, headers, log messages
  and formatting are left out. The `enabled` flag of a host is read nowhere.
- `Quiesces` and `Converges` are stated for one daemon, alone or with one-shots
  that end. Two daemons that never stop can undo each other for ever.
- A link that reports IPv4 as absent while IPv6 detection fails still has its A
  records deleted: the guard covers only equal answers (`WritesAreAsserted`
  says what it does cover).
- In `DnsSync` an answer of detection is as fresh as the moment it is given.
  `GroupCycle` says how old it may be when `run_once` decides, for one group at a
  time; the two are not run in one module.
- Which interface a group is bound to, and which group a host is in, are
  constants of `DnsSync`.
- `list_records` reads the first page of 100 records; no zone here has more under
  one name.
- A temporary file of a killed process stays in the directory; nothing reads
  it. An `unlink` that fails after an error is ignored by the code and here.
- The store's re-entrance is by process. No code runs a use case in a thread,
  so there are none in the model.
- The session generation restarts at 0 with the process. A token from before a
  logout can then be valid again until it expires; the properties of `WebSession`
  leave the tokens of an earlier process out.
- `login_failures` is not bounded, in the code or here: an address below the
  limit keeps its entry.
- An operator does not edit the file while `init` is in the middle of writing it, and
  never writes the secret that `init` generates. That he opens a file to others is his
  doing and not in `SecretsAreSealed`.
- The environment of a process does not change.
- That the client of a wizard's request, or of `sync`, is closed when the request fails is
  a `finally` of one coroutine and has no property; `NoUseAfterClose` is about the
  client that two tasks share.
- `check-config` reads the sources a second time to print where they are from
  (`cli.py:247`), outside its `try`; `Check` is one step.
- The choice of the default route and the summaries of interfaces are reads of
  the kernel that nothing else depends on. The `until` argument of `run_forever` is
  passed by nobody.
- The dashboard redraws its panels from the store by a timer and keeps nothing that
  another part reads. Logging, the exception classes, unit files and build scripts have no state that
  the rest reads. Of the unit files one fact is used, that a dead daemon is
  started again.

## What could follow

- `DnsSync` and `GroupCycle` in one module, so that the records that finding 2
  costs are seen to come back, and when.
