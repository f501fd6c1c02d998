# A TLA+ model of the FaekNET mesh

FaekNET is a peer-to-peer virtual LAN. Every member runs a mesh process that keeps a table of
peers, probes them over UDP, gossips what it knows, learns its own public address from STUN
servers, and optionally publishes it in a shared directory kept by untrusted storage services.
There is no coordinator: everything is decided by "the freshest information wins", over an
unreliable network, by several threads that share one table. Around that core the program
creates and joins networks, changes two files of the operating system and the settings of a VPN
client, and replaces itself by newer releases. This directory models the core (`core/src/mesh.rs`,
`peer.rs`, `backends/`) and these surroundings (`setup.rs`, `hosts.rs`, `dns.rs`, `warpfix.rs`,
`gui/src/updater.rs`), checks them with TLC and proves their main safety properties with TLAPS.

## 1. Inventory

### The parts and how they interact

| part | source | state | operations |
|---|---|---|---|
| peer record | `core/src/peer.rs` | configured address, confirmed address and epoch, LAN candidate, registry candidate, RTT | `new`, `from_gossip`, `observe`, `observe_epoch`, `set_lan_candidate`, `current_send_addr` |
| mesh state | `mesh.rs` `MeshState` | peer table, own public address, config, STUN waiter | `learn_peer_from_ping`, `apply_gossip_entry`, `apply_gossip_service`, `persist_peer_addr` |
| receive loop | `mesh.rs` 1424-1600 | | one handler per packet type |
| keepalive, gossip, TUN threads | `mesh.rs` 1378-1422, 1602-1651 | ping sequence number | one burst per period |
| self-STUN ticker | `mesh.rs` 417-452, 888-913, 1653-1803 | slot, wake channel, cached address | seed, manual override, probe, cache, sleep |
| handle | `mesh.rs` `MeshHandle` | running flag | `stop`, `add_peer_live`, `set_manual_public_addr`, `clear_manual_public_addr`, `reset_public_addr`, services |
| shared directory | `backends/client.rs`, `backends/mod.rs`, `mesh.rs` 1805-1868 | anti-rollback floor, latest document, last publication | `sync` = `fetch_latest`, `publish_if_due`, `publish_all` |
| storage services | `backends/github.rs`, `backends/mantle.rs` | one blob each | `fetch`, `publish` with conditional PUTs and retries, `claim` |
| registry | `registry.rs`, `scripts/registry/` | `network/peers.toml` in a Git repository | enrolled requests, conditional update, fetch |
| setup | `setup.rs`, `invite.rs`, GUI setup screen | `mesh.toml`, `directory.toml`, their temporary files | `create_network`, `join_network`: stage, claim or read, commit, roll back |
| mesh lifecycle | `mesh.rs` `start`, `stop` | flag, handles of the threads | `start` in fallible steps, `stop`, restart in one process |
| domain names | `hosts.rs`, `dns.rs`, `mesh.rs` 627-695 | block in the hosts file, the resolver's table, resolv.conf and its backup | `sync`, `remove_block`, `resolve`, configure, undo |
| WARP coexistence | `warpfix.rs`, `mesh.rs` `warp_maintenance_tick` | split tunnel lists of another program | list and add, periodically |
| updater | `gui/src/updater.rs`, settings screen, `main.rs` | status, offered release, working directory, a script | check, install, apply after the process has ended |
| codecs | `proto.rs`, `gossip.rs`, `stun.rs`, `crypto.rs`, `share.rs` | none | encode, decode |
| applications | `cli/`, `gui/`, `browser/`, `android/` | presentation, updater | call the handle |

The receive loop, the TUN thread, the keepalive, gossip, self-STUN, directory and registry
threads and the GUI's thread share `MeshState`: the table behind one lock, each peer's address
behind another, its epoch in an atomic, the config, the public address and the STUN slot behind
mutexes. Every lock is released before the next one is taken, except that the config lock is
held while `mesh.toml` is written. Members interact by UDP packets and by the directory blob.

### What makes each part correct, and what is hard

* **Peer records and gossip**: an address is only ever attributed to a peer that had it; newer
  news displaces older news and never the reverse; what arrived directly beats what was told;
  `mesh.toml` restores what was known. Hard: packets lost, repeated, reordered and late; several
  gossip hops; clocks that differ; restarts; equal time stamps.
* **The table under threads**: same promises when two handlers interleave; the cap on peers.
  Hard: each promise is kept by several critical sections, not by one.
* **Self-STUN**: an answer is matched with its own request; a user's choice is never overridden
  by a round that was under way; the address becomes right again after a NAT reassignment.
  Hard: late answers against timeouts, user calls between two critical sections, lost wake-ups.
* **Directory**: a member's record is changed by that member only; no rollback; a failure to
  read never shrinks the membership; a record lost to a concurrent write returns. Hard: several
  writers without locks, services that fail one by one, lost answers, clocks, restarts.
* **Storage**: a publication takes effect at most once and before it is reported; a conflict is
  only reported when there was one. Hard: a PUT whose answer is lost, or that arrives after its
  writer gave up; retries.
* **Setup**: no claimed network without its key, no half of the two files, no two networks in one
  folder. Hard: every step can fail, the process can end, earlier leftovers are still there.
* **Lifecycle and system files**: name resolution keeps working, the system's own resolv.conf can
  be had back, other entries of the hosts file survive. Hard: a start that fails half-way, a
  process that ends without `stop`, threads of a stopped mesh next to those of the next one,
  several threads that rewrite one file.
* **Names**: every peer resolvable under one name; the table follows the peers. Hard: colliding
  labels, the order of a hash map, snapshots published out of order.
* **WARP**: what the mesh needs is kept out of the tunnel, and no include list is extended. Hard:
  another program changes mode and lists between any two calls; calls that time out take effect.
* **Updater**: only verified files, all of them or none, never backwards, and in the end applied.
  Hard: threads that share a directory, a script that outlives the process, restarts.

`PROJECT.json` lists the hazards one by one, with the line where each bites and the property
that watches it, or why none does.

## 2. Modules

| module | models | runs | proofs |
|---|---|---|---|
| `Peer` | operations on one record, each a step | through `MeshGossip` | through `MeshGossipProofs` |
| `MeshGossip` | all nodes: sending threads, receive loop, restart, NATs, UDP; a handler is a step | `MCMeshGossip_*` | `MeshGossipProofs` |
| `PeerTable` | one node's table: its threads, one lock or atomic access per step | `MCPeerTable_*` | `PeerTableProofs` |
| `Directory` | all members' directory clients and the services, one request per step | `MCDirectory_*` | `DirectoryProofs` |
| `SelfStun` | the ticker, the STUN slot, the user's calls; one critical section per step | `SelfStun_*` | `SelfStunProofs` |
| `BlobStore` | abstract: what `Directory` takes a storage service to be | refined by `Storage` | through `ExternalProofs` |
| `Storage` | both storage adapters and the service behind them, one request or answer per step | `MCStorage_*` | `ExternalProofs` |
| `Enrolment` | abstract: a call makes its person a member of one network, or nothing | refined by `Setup` | through `SetupProofs` |
| `Setup` | people who create and join networks, one file operation or request per step | `Setup_*` | `SetupProofs` |
| `HostsFile` | the rewrite of the hosts file in any number of threads, one system call per step | through `Lifecycle` | through `LifecycleProofs` |
| `Lifecycle` | start, stop, quit and relaunch, the resolver, resolv.conf, the refreshing threads | `MCLifecycle_*` | `LifecycleProofs` |
| `Names` | host names, their resolution, and the snapshots that publish them | `MCNames_*` | `LifecycleProofs` |
| `Warp` | the WARP maintenance thread, one `warp-cli` call per step, and the client | `Warp_*` | `ExternalProofs` |
| `Updater` | check and install threads, the apply script, the GUI's life | `Updater_*` | `UpdaterProofs` |

`MeshGossip` extends `Peer`, `Lifecycle` extends `HostsFile`; `Storage` instantiates `BlobStore`
and `Setup` instantiates `Enrolment`, each with a refinement mapping. `PeerTable` refines the
grain of the same code: what `MeshGossip` does in one step is there a sequence of steps of one
thread among several. The `MC` modules only give values to constants and name symmetries. In every module the names follow the source
(`ObserveEpoch`, `BuildLocalGossipEntries`, `Publish`, ...), operators whose comment says
"Faulty variant" are plausible mistakes that a run must be able to tell from the code and are
used by no specification, and variables and definitions marked "history" record what happened
for the properties and influence nothing.

### Peer and MeshGossip

`peers[n][p]` is `MeshState.peers` of node `n`, `self[n]` its `my_public_addr`, `disk[n]` the
`[[peers]]` of its `mesh.toml`. `net` holds datagrams: a receiver does not remove one, so it may
be delivered again and in any order until `MaxDelay` has passed or any later send drops it. A
burst is sent as a whole, any part of it arrives. `pub[n]` is the NAT's mapping; a node reached
over a shared LAN shows its LAN address. `where` remembers who was at which endpoint when.
`RecvPing`, `RecvOther` and `RecvGossip` are the whole handler: looking up or learning the
sender, `observe`, saving, the pong, and all entries of the payload. A gossip payload is a
function from nodes to entries; the order of a hash map matters only when the table is nearly
full, which `Room` covers by choosing any maximal set of strangers. Names are only the choice
whether an entry renames its peer, which matters because a rename saves the address.

### PeerTable

`cells` are the `Peer` objects ever allocated, `table` maps a virtual IP to one, so a thread that
holds an `Arc` to an object that was replaced still writes to it. `th[t]` is the program counter
and locals of thread `t`: `Find` (`get_peer`), `Count` (`peer_count`), `Insert`, `Save`
(`persist_peer_addr`), `FindAgain` (`expect("just inserted")`), `Observe` or `Check` and `Write`
(the address lock), `Stamp` (the epoch, stored after the lock is released). `RegistryAdds` is one
step because the registry thread holds the write lock across its test and insert. A directory
document is taken with one changed member at a time; the code first applies all members and then
saves each, which only lengthens the window between applying and saving.

### Directory

`store[i]` is the authenticated document service `i` keeps, `client[m]` the fields of
`DirectoryClient`, `job[m]` the locals of a sync under way. `Fetch` asks one service, which may
answer or fail; after the last one `Conclude` is the local part of `sync`. `Publish` writes to
one service: it may refuse, and it may store and its answer be lost. `Move` is whatever changes
`my_public_addr`. `NearBound` keeps sequence numbers finite: near the bound and before `MaxTime` a sync only
reads. Authentication is taken to work, so no service forges a document, but it may
answer with an old one because it missed writes.

### SelfStun

`slot` and `box` are the waiter's transaction and channel, `net` the STUN messages under way,
`stun` the ticker, `gui` the thread that calls the handle, `wakes` the wake channel. The three
user operations are three steps each: `mesh.toml`, `my_public_addr`, the wake-up. A transaction
id is not used again while a message with it is in flight, as 96 random bits guarantee.

### Storage and BlobStore

`kind` says which adapter is used. `file` is the file or entry at the service; a document stands
for its own version (GitHub's sha is a hash of the contents), and two publications never have
equal bytes because each is encrypted with a new nonce. `call[w]` is where member `w` is in
`publish`: reading the sha, waiting, told of success, told of a conflict. `net` holds PUTs under
way: one that the client has given up may still arrive. `Serve` is the service. `BlobStore` says
in four actions what `Directory` relies on: a blob is taken at most once, before success is
reported; after a reported failure it may still be taken. `Blob` maps `Storage` to it: `stage` of
a document follows from the call's outcome and from whether the document has landed (history).

### Setup and Enrolment

`disk[p]` is the folder of person `p` with both files and both temporary ones, `job[p]` the
background job with the locals of `create_network` or `join_network`, `stage[p]` the screen.
`claimed` are namespaces at MantleDB, `members` the shared directory, abstracted to who is listed
with which address. `DiskFails` is the failure of whatever file operation comes next, with what
the code undoes in that place; `Quit` may come between any two steps. `BadKey = TRUE` lets the
service answer a claim with a key that no invite can carry. `Enrolment` is what `setup.rs` 2
promises: of a folder it knows only the two files, `Enrol` makes a person a member of a claimed
network in one step, `Break` is the only way to half a membership. `Setup` maps to it by leaving
out the temporary files and by counting the rename of `mesh.toml` only when that of
`directory.toml` has followed (`FolderOf`), so that `RenameDirectory` is `Enrol`, a `Quit` between
the two is `Break`, and a roll-back is a stutter or the `End` of the call.

### HostsFile and Lifecycle

`hosts` and `tmp` are file contents: a version for what others wrote, and the names in the block;
version 0 is a torn file. `sync[t]` has the locals of `hosts::sync` in thread `t`, with the file
descriptor `fd`, which keeps writing to its file after a rename. `Lifecycle` has the GUI's thread
(`ui`, in `start` or `stop`), per mesh its flag, receive loop, peer table and resolver, and
`conf`, `backup` for resolv.conf. The receive loop stands for every thread that refreshes names.
The end of the process is `Quit`: neither the tray's Quit nor the updater calls `stop`.

### Names

`peers` has the names and services of members, `dns` the resolver's table. A label is a word with
numbers after it, because that is what disambiguation appends. `Snapshots` is every order in
which a hash map may list the peers, `HostsOf` `build_entries_with_services`, `Resolve` `resolve`.

### Warp

`thread[m]` is the maintenance thread of mesh `m`, which has no exit; `mode`, `ips`, `hosts` are
the client's lists; `World` is the client's user, its organization and the name service. A call to a client that
hangs is given up after 4 s and may have taken effect.

### Updater

`th[w]` is a check or install thread, `status`, `info`, `quit` the shared `UpdaterState`,
`answer`, `archive`, `extracted` the files the threads share, `scripts` the apply scripts that
outlive the process, `installed` the files beside the executable. `Impatient = TRUE` lets a
button be clicked again before the frame that disables it, or the GUI be started by hand while
it is being replaced.

## 3. Runs

All runs use the modules as they are; a `.cfg` only gives constants their values.

| run | checks | bounds |
|---|---|---|
| `mesh_two` | `TypeOK`, `SavedMatchesTable`, `DirectObservationWins`, `EpochMonotone` | 2 nodes, 3 endpoints, both move, 1 restarts, 1 imports a card, delay 1 s, 2 s of time, 1 datagram in flight |
| `mesh_three` | `Provenance`, `FreshMeansCurrent` | 3 nodes in a star, table room for 3, 4 endpoints, one moves, 2 s |
| `table_threads` | `TypeOK`, `TableBound`, `JustInserted` | receive loop, GUI, registry; 3 peers, `MAX_PEERS` 1, 4 objects, 2 s |
| `directory_stores` | `TypeOK`, `CarriedUnchanged`, `FloorSound`, `MembershipKept`, `FloorMonotone` | 2 members, 2 services, 1 restarts, numbers up to 2, records stale after one step of the clock |
| `directory_heals` | `EventuallyListed` | 2 members, 1 service, 1 moves, heartbeat every step |
| `stun_ticker` | `TypeOK`, `OwnAnswer`, `ManualWins`, `EventuallyRight`, `StopEnds` | 2 NAT mappings, 1 manual address, 1 server, 2 transactions, 2 messages in flight, 1 wake-up queued |
| `storage_services` | `TypeOK`, `ConflictsAreReal`, `ImplementsBlobStore` | 2 members, 5 documents and one that is too big, 3 attempts as in the code, both adapters |
| `setup_folders` | `TypeOK`, `AllOrNothing`, `KeyKept`, `ImplementsEnrolment` | 2 people, 2 networks, 3 addresses, 2 quits |
| `updater_restart` | `TypeOK`, `OneAtATime`, `OnlyVerified`, `NeverHalf`, `NoDowngrade`, `UpdateEnds` | 3 releases, one without a checksum, 2 files, 2 threads, 2 scripts, 2 launches |
| `machine_lifecycle` | `TypeOK`, `Resolvable`, `OriginalKept`, `ForeignKept` | 2 meshes started one after the other, their threads and the GUI's, 1 quit, 1 edit by others, 2 versions of resolv.conf |
| `warp_client` | `WarpTypeOK`, `OnlyToExcludeLists`, `Excluded` | 1 mesh, 2 peers, 1 LAN address, 1 STUN server |
| `names_lag` | finding: `NeverLags` | 3 members, receive loop and GUI, 3 changes |

Why the bounds suffice for what the runs show: news of a node goes wrong between three parties
(its subject, a relay, a receiver) and `mesh_three` has the three, with a moving one; a datagram
that stays deliverable after delivery gives repetition and reordering with a place for one; the
races of `PeerTable` are between two threads and one object; a lost update needs two writers, a
partial publication two services; a late answer needs a second transaction. Three refused
attempts need three other documents and a fourth makes a late arrival visible. What a crash
leaves behind meets the next job with a second network and two quits. A stopped mesh overlaps
the next one with two meshes, an overwritten backup needs a second version of resolv.conf. A
release may overtake another between check and install with three versions. Time is bounded by
2 to 4 steps because the properties compare at most a stale, a current and a future stamp. The
theorems of section 5 hold without these bounds; `Warp` also passes with two meshes, one peer and
no LAN address.

`table_threads` identifies states that differ only in what is saved or heard, or in the locals of
idle threads (`TableView`), and `machine_lifecycle` those that differ in which names a block has
or, once rewrites have overlapped (`raced`), in what is in which file (`View`): neither the steps
nor the properties depend on them, only the types of these variables are then checked on one
representative.

Deadlock checking is off where the system may stop: a mesh that has been stopped (`SelfStun`),
documents, networks, quits or launches used up (`Storage`, `Setup`, `Updater`, `Lifecycle`,
`Warp`, `Names`). The other runs check for it. The runs of `MeshGossip` have `Reimports = FALSE`
(a card is not imported for a peer that is already known), because `add_peer_live` then stamps an
old card with the present and `FreshMeansCurrent` says nothing; the theorems cover `TRUE` as well.

### Known divergences

`names_lag` shows that the host names may lag by more than the one event that `mesh.rs` 661-664
allows: the snapshot and the update of the resolver's table are not one critical section.

The following properties state what a comment or a doc says and do not hold of the code. The
modules keep them. TLC finds each violated when it replaces the properties of the configuration
named, without its `VIEW`, as an `INVARIANT` (`NothingOverwritten` as a `PROPERTY`), with the
constants given; they have no configuration of their own.

| property | module, configuration | what happens |
|---|---|---|
| `LanStaysLocal` | `MCMeshGossip_three`, `Lan <- LanAB`, `Site <- SiteAB`, `Cards <- CardChain`, `Endpoint = {e1, e2, e3, la, lb}`, `Movers = {}` | `peer.rs` 54-66 promises that a LAN address is never returned by `current_send_addr()` outside that LAN. It is, by gossip of an observed address. |
| `FreshestWins` | `MCPeerTable_threads`, `Vip = {p}`, `Addr = {e1, e2}`, `Directory = {dir}`, `Gui = {}`, `Registry = {}`, `SYMMETRY AddrSymmetry` | `observe_epoch` compares before it locks; stale news can win over a direct observation and stay until the peer's next packet; `FreshestWinsAlone` proves that it takes two threads |
| `SavedIsCurrent` | same | a renaming in an old directory document puts the old address in `mesh.toml`; `SavedIsCurrentAlone` proves that it takes a thread besides the receive loop |
| `MembershipKept` | `MCDirectory_stores`, `Fast = {b}` | a document dated too far ahead counts as an answer, and the reader replaces the membership by itself; the others' heartbeats add them again |
| `ClearedIsGone` | `SelfStun_ticker` | clearing a manual address may be undone by the ticker, which read it before |
| `FallsBack` | `SelfStun_ticker` | the cached address is used at start only, not as a fallback afterwards |
| `NothingOverwritten` | `MCStorage_services` | `github.rs` 5-7: a conflict leads to a retry with the new sha and the same document, which overwrites what was never read |
| `AllOrNothing` | `Setup_folders`, `BadKey = TRUE` | `setup.rs` 2: a claim answered with a key that cannot be encoded returns before the staged files are discarded |
| `OnlyVerified` | `Updater_restart`, `Impatient = TRUE` | `updater.rs` 10-12: two clicks before the next frame run two installs in one directory, and one may replace what the other has verified |
| `NeverTruncated` | `MCLifecycle_machine`, `Unreadable = FALSE` | `hosts.rs` 239: two threads use one temporary file, and one renames what the other has just truncated |
| `NobodyDropped` | `MCNames_lag` | `hosts.rs` 92-95: the label `a-3` that a peer chose may equal the one made for another peer `a`, and the order of a hash map decides who has it; `NobodyDroppedIfPlain` proves that this is the only way |

Read in the code, without a property: the table can outgrow `MAX_PEERS` (`mesh.rs` 610-615;
`TableBound` is what is left of the cap); `add_peer_live` is ignored in memory when the stored
epoch is the present second, and saved all the same (`mesh.rs` 1023-1030); a node whose clock is
ahead overrides direct observations (`peer.rs` 187-194); gossip may pair an old address with a
new epoch (`mesh.rs` 830-834); a document with the same number as the floor is accepted although
`backends/mod.rs` 70 says ties are not allowed to win; a manual address is not burst to the peers
by the call that sets it, because the ticker finds it unchanged (`mesh.rs` 1110, 1722); two
people who join with one invite at the same time get the same address (`setup.rs` 163); a refresh
that comes after `stop` fills the block in the hosts file again (`mesh.rs` 971); `remove_block`
leaves an empty block although its comment says that it removes the block entirely; a hosts file
or a resolv.conf that cannot be read is taken for an empty one (`hosts.rs` 186, `dns.rs` 324,
against `hosts.rs` 17); the undo of resolv.conf deletes the backup also when the write has failed
(`dns.rs` 351-357).

## 4. Fairness

* `Directory.FairSpec`: the clock advances; every member syncs again and again and every request
  ends (`mesh.rs` loops every `SYNC_INTERVAL_SECS`, `curl` has a time limit). `Timely` says that a
  sync ends within the pause between two syncs of any one member. Services and addresses change only before
  `MaxTime`: that they settle is the premise of the property, and of the comment it quotes.
* `SelfStun.FairSpec`: the ticker and the calling thread run, a message in flight is answered or
  delivered. Once `calm`, nothing is lost, no address changes, and an answer arrives before the
  timeout. `EventuallyRight` and `StopEnds` take the settling as their premise (`<>[]calm`,
  `<>[]~running`), not as an assumption of the specification.
* `Updater.Spec`: the GUI's loop sees the flag that ends it (a frame at least every 250 ms), and the
  script's `bash` makes progress. Threads, downloads and users get no fairness: `UpdateEnds` starts
  when the script has been launched.
* `Warp.WarpSpec`: a maintenance thread goes on: it sleeps for a fixed time and every call is bounded. The client and its
  user get none; that they leave a state alone is the premise of `Excluded`.
* No other specification states fairness; safety needs none.

## 5. Proofs

For every value of the constants that satisfies the modules' assumptions:

| theorem | module | argument |
|---|---|---|
| `TypeCorrect`, `WarpTypeCorrect` | all eight | inductive |
| `ProvenanceHolds`, `FreshMeansCurrentHolds` | `MeshGossipProofs` | `IInv` |
| `DirectObservationHolds`, `EpochMonotoneHolds` | `MeshGossipProofs` | `IInv`, assuming `MaxSkew = 0` |
| `SavedMatchesTableHolds` | `MeshGossipProofs` | inductive with `TypeOK` |
| `TableBoundHolds`, `JustInsertedHolds` | `PeerTableProofs` | `IInv` |
| `FreshestWinsAlone` | `PeerTableProofs` | `LoneInv`, assuming `Alone` |
| `SavedIsCurrentAlone` | `PeerTableProofs` | `SavedInv`, assuming `ReceiveOnly` |
| `CarriedUnchangedHolds`, `FloorSoundHolds`, `FloorMonotoneHolds` | `DirectoryProofs` | `IInv` |
| `MembershipKeptHolds` | `DirectoryProofs` | `KInv`, assuming `ClocksAgree` |
| `OwnAnswerHolds`, `ManualWinsHolds` | `SelfStunProofs` | `IInv` |
| `ConflictsAreRealHolds`, `ImplementsBlobStoreHolds` | `ExternalProofs` | `IInv`, refinement mapping `Blob` |
| `OfOneNetworkHolds`, `MembersCanPublishHolds`, `ListedAddressKeptHolds` | `SetupProofs` | `IInv` |
| `ImplementsEnrolmentHolds` | `SetupProofs` | `IInv`, refinement mapping `Calls` |
| `AllOrNothingHolds`, `KeyKeptHolds` | `SetupProofs` | `IInv`, assuming `~BadKey` |
| `OneAtATimeHolds`, `OnlyVerifiedHolds`, `NeverHalfHolds`, `OneGuiHolds`, `NoDowngradeHolds` | `UpdaterProofs` | `IInv`, assuming `~Impatient` |
| `ResolvableHolds`, `OriginalKeptHolds`, `ForeignKeptHolds` | `LifecycleProofs` | `IInv` |
| `OwnNamesAreOursHolds`, `AnswersFitHolds` | `LifecycleProofs` | `NamesIInv`, assuming `NamesFit` |
| `NobodyDroppedIfPlain` | `LifecycleProofs` | `NamesIInv`, assuming `NamesFit` and `PlainNames` |
| `OnlyToExcludeListsHolds` | `ExternalProofs` | `WarpIInv` |

* `MeshGossip!IInv`: every address in a table, a payload, `mesh.toml` and `self` is *honest*: its
  peer was there at a time that is not later than the epoch and not earlier than the epoch less
  the delay and the skew. Provenance alone is not inductive for `FreshMeansCurrent`, because
  gossip passes on epochs; honesty is what a hop preserves. That no epoch is later than the
  fastest clock is needed for the two action properties: only if all clocks agree is a fresh
  observation never older than what is stored. They are false otherwise, which is why the theorems
  assume `MaxSkew = 0`.
* `PeerTable!IInv`: the bound holds with every thread that has counted and not yet inserted added
  to the table's size (`RoomLeft`); and a thread that holds an object index has a peer in the
  table (`CellsExist`), as nothing is ever removed.
* `PeerTable!LoneInv`: with `Alone`, the object of a peer has the date and an address of the
  newest news of it (`Follows`), except while its thread is between the write of the address and
  the stamp; then what the thread was told is that news and the address is already there
  (`Held`). That all news of a peer have one date (`OneDate`) and no two peers share an object
  (`OwnCells`) is what makes the step of one peer leave the others alone. `SavedInv` adds that an
  address in use is on disk unless its save is the next thing to come (`OnDisk`), and that a
  handler that decides not to save found the address unchanged on disk (`SavingRight`). The other
  threads break the latter: a renaming in a directory document saves the address that came with
  it, and a card is saved also where it was not taken. `Alone` and `ReceiveOnly` say which threads
  there are; the registry's insertions are always among the steps.
* `Directory!IInv`: besides the properties, the best document of a sync under way is not below
  the floor (`InSync`): the floor cannot change during one's own sync, whatever others write.
* `Directory!KInv` adds, for `MembershipKept`, that every document is dated within the tolerated
  skew (`Timed`, which is what `ClocksAgree` gives), so that none a sync reads is rejected, and
  that the best of those read so far is the newest (`BestRead`). The next document then starts
  from the newest one read and drops only stale records. With a clock ahead it is false.
* `SelfStun!IInv`: any message that carries the transaction in the slot can only bring a mapping
  of the current window, and whoever has an answer has given up the slot (`AnswersAreOwn`); while
  no wake-up is on its way, the ticker's local copy is the manual address there is now
  (`FollowsManual`).
* `Storage!IInv`: a call is about a document that no other call has, and which is stored exactly when
  the call has been told so (`CallsOwnDocs`); a request under way is the only one of its document,
  which is not stored yet (`NetSound`); when the version a request carries is no longer the
  file's, one more document has been stored than the call has had conflicts (`StaleIsCounted`). The refinement is proved step by
  step: a request that arrives is `Take` or a stutter, an end of a call `Succeed` or `Refuse`.
* `Setup!IInv`: what a job finds and has staged in each of its steps (`JobSound`), which networks
  it has a key of (`KeySound`, `NetsSound`: a network key is generated once), that the address it
  has chosen is free in the list it read (`ChosenFree`), and the temporary files that a job which
  nothing interrupted has left (`Tidy`). `OfOneNetwork` is not inductive without knowing that
  both staged files were written by the same job even where an earlier one crashed. For the
  refinement `KeySound` also says that a network is claimed exactly when its creator has got past
  `Claim`: an answer that is lost ends the call, so nothing is claimed twice.
* `Updater!IInv`: from the click to the end of the thread the status keeps the buttons disabled
  (`OneThread`); so the archive that was verified is the one extracted (`WorkSound`); there is one
  script, which waits while the GUI runs, and nobody touches the directory it will copy from
  (`ScriptSound`). `NoDowngrade` follows as the offered release is later than the running one, and
  the running one is the installed one (`ProcessSound`). `NeverHalf` needs that all files are
  those of one release but for the script's own progress (`OneRelease`).
* `HostsFile!HostsSound`: until rewrites overlap, at most one thread is rewriting, from an up to
  date text, with a temporary file of its own. `Lifecycle!Pointed`: a resolver is on from before
  resolv.conf names it until after it has been given back, in every failed start as well.
  `Lifecycle!BackedUp`: which of backup and file has the system's version between the steps of
  configure and undo.
* `Names!NamesIInv`: whatever the order of the hash map, a snapshot begins with this machine and has
  nobody twice (`WellFormed`), in the resolver and in the hands of a thread that will publish it.
  So its own names come first in every search, and an answer's index is that of a member with
  the name. `PlainNames` (nobody's name ends in a number, last bytes differ) makes the
  disambiguated labels distinct.
* `Warp!ReadFirst`: a thread that is about to add has read, in the same tick, a list that is one of
  exclusions, and what it will add is public addresses only. The client may change between
  any two calls; the property is about what was read.

Only model-checked: the liveness properties `EventuallyListed`, `EventuallyRight`, `StopEnds`,
`UpdateEnds` and `Excluded`, as temporal properties under fairness are out of the prover's reach,
and so are `ENABLED` and induction over data. The properties of section 3 that do not hold have
no theorem, but for the ones that say under which condition they do.

## 6. Not modelled

* In `MeshGossip`: service announcements, names (beyond "renamed or not"), RTT measurement, TUN and
  broadcast addressing, the split of a burst into payloads, the registry candidate and its probes,
  u32 truncation of epochs (2106), DNS names as configured addresses. The size and record limits
  of a document in `Directory`.
* A peer first heard of by a service announcement is not saved to `mesh.toml`, and the services of a peer
  are never removed from the table; both are in the code and in no property.
* `mesh.toml` is saved in one step that succeeds (the code logs and goes on when it fails, and
  writes the file in place, `config.rs` 318-322). The GUI keeps a configuration of its own: a card
  imported while the mesh is stopped goes to the file and not to it (`peer_modal.rs` 116-129), and a
  settings change may be overwritten by the next live save. That is the GUI's state and not modelled.
* Two meshes of one process may hold the same UDP port for a while (`SO_REUSEADDR`, `mesh.rs`
  236-294), and the TUN thread of a stopped mesh stays in its read until a packet comes.
  `Lifecycle` has neither sockets nor the device.
* resolv.conf is Linux only; the ways of Windows and macOS are single commands. With an empty suffix the resolver
  answers for everything below a member's bare label, which may be `com`; `Names` has no suffix.
* The registry's two Python scripts, which a workflow runs one at a time, outside the program.
* Encryption and authentication are taken to work. Byte-level codecs, GUI, CLI, Android,
  installers and workflows keep no protocol state. `PROJECT.json` gives the reason for each part.

## 7. Plan

1. done: `Peer`, `MeshGossip`, `PeerTable`, `Directory`, `SelfStun` with their theorems.
2. done: `Storage` and `BlobStore` with the refinement; `Setup`; `Updater`; `HostsFile` and
   `Lifecycle`; `Warp`; `Names`; `MembershipKept` proved.
3. `Directory` with documents that arrive after their writer gave up (which `Storage` and
   `BlobStore` allow); today `Publish` stores at once or not at all, or stores and its answer is
   lost. A trial shows that the safety proofs carry over with one more variable, that a small
   instance with one service passes, that two services with it have too many states for a run
   (over 10 million), and that healing then needs heartbeats for which a bounded clock has no room.
4. `Wire`: the split of gossip entries into payloads and its roundtrip; service announcements in
   `MeshGossip`; gossip readers as a thread of `PeerTable` (an old address paired with a new epoch).
5. done: theorems of `Warp` and `Names`; the conditions under which `FreshestWins`,
   `SavedIsCurrent` and `NobodyDropped` hold; `Enrolment` and its refinement by `Setup`. Left: the
   same for the other known divergences (`ClearedIsGone`, `NothingOverwritten`, `LanStaysLocal`).
