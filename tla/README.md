# Verification of ably-server

TLA+ models of the server under `src/`, TLC runs over small instances, and
TLAPS proofs for every instance. Line numbers refer to the sources in this
repository; `PROJECT.json` maps each definition to the lines it models.

## The system

One Go binary serves pub/sub over WebSocket and REST, on one of three storage
backends. Its parts, inside out (paths under `internal/` unless they say `cmd/`):

| Part | Source | Modules | Extent |
|---|---|---|---|
| Serial generator | `serial/` | `Serial` | modelled, proved |
| Channel: linked list and streams | `core/channel.go` | `Channel`, `ChannelFeed` | modelled, refinement proved |
| Channel manager | `core/manager.go` | `Manager` | modelled, proved |
| Merge rules, derived tables | `storage/storage.go` | `Projection` | modelled, its operators' lemmas proved |
| Memory backend | `storage/memory/` | `MemoryStore` | modelled, proved |
| Disk backend | `storage/bbolt/` | `BoltStore` | modelled |
| Postgres backend, cluster broker | `storage/postgres/` | `PostgresStore`, `PostgresPresence`, `Migrations` | modelled, safety proved |
| Paginated reads | the three backends, `rest/` | `HistoryReads`, `History` | modelled |
| Attachment | `realtime/attachment.go`, `rewind.go` | `Attachment`, `Delivery` | modelled |
| Connection and re-authentication | `realtime/connection.go`, `reauth.go` | `Connection` | modelled, safety proved |
| Presence over connections | `realtime/presence.go`, `server.go` | `Presence` | modelled |
| Mutations, annotations, REST writes | `realtime/mutation.go`, `annotation.go`, `rest/` | `Operations` | modelled, safety proved |
| Annotation summaries | `protocol/summary.go` | `Summary` | modelled |
| Capabilities, tokens, identities | `auth/` | `Capability`, `Identity`, `Token` | partly: what credentials grant, and to whom; proved |
| Payloads on the wire | `protocol/data.go`, `msgpackcodec.go` | `Payload` | partly: data and encoding |
| Registry and shutdown | `realtime/server.go` | `Lifecycle` | modelled, safety proved |
| Start-up, fixtures, exit | `server/server.go`, `fixtures/` | `Startup` | partly: no parsing; safety proved |
| Sandbox provisioner | `cmd/ably-local-sandbox/` | `Sandbox` | modelled, safety proved |
| Ids, logging, metrics, tracing, tools | the rest | | see "Not modelled" |

A publish reaches a `ChannelStore` (one of three backends), which mints a
`channelSerial`, persists the ChannelMessage (cm) with the tables derived from
it, and hands it to the channel's `Appender`. The appender is `core.Channel`: it
links the cm at the tail of a list. Every attachment has a `Stream` over that
list and a goroutine that first replays history up to the point where the stream
starts, then forwards what `Next` returns. Order is the order of serials, and a
client that comes back presents the last serial it has seen. On Postgres every
node has its own list, fed by NOTIFY. A connection runs a read loop, a publish
worker, a write loop and a token-expiry loop; it shares its members with the
connections that resume it.

## Modules

**Serial.** `Generator.Mint` under a clock that may show anything. The state is
`[ts, ctr]`; `MintFrom` is the body of `Mint`. Serials are compared as the
zero-padded strings are, field by field.

**Channel.** The linked list is a sequence whose first element is the sentinel.
A stream's cursor is a position, 0 when closed; `NextCM` is enabled when the
entry has a successor, which is what the closed `notify` channel signals. The
operations are actions without a specification of their own: a backend calls
them inside its own steps. Serials are naturals, serial 0 the empty string.

**ChannelFeed.** What a channel promises readers, with no mechanism: one log in
serial order, and each reader is handed every entry committed after it opened.

**Manager.** `GetChannel` and `Storage.Channel`, for one channel name. A caller
registers the Channel, opens the store, sets it on the Channel; others find the
Channel registered at any point in between. Memory and bbolt open in one step,
Postgres registers its store first and asks the database without the lock. A
caller that dereferences a store that is not set ends there; a client that tries
again is another caller.

**Projection.** The tables derived from the log, as sets of rows, with the
functions of package `storage` that compute them (`MergeVersion`, the summary
fold, the presence fold), and a second, independent definition of the same
tables as a fold of the whole log (`IsFoldOf`, `MembersFoldOf`). Message data is
a sequence of the serials whose contents it concatenates, so an append that is
lost, doubled or misplaced is visible.

**MemoryStore.** One channel of the memory backend together with its list. The
backend's mutex is held over each operation including `Append`, so an operation
is one action. A publish whose id is known is `Duplicate`, whatever its kind.

**BoltStore.** The disk backend. A publish is two actions, because `Append` runs
after the transaction: `Store`, `Mutate`, `StoreAnnotation` and `StorePresence`
commit, `AppendAndReturn` appends and answers. `Restart` may come anywhere; it
keeps the file and nothing else. The serial is a number with the order of the
string, the process's `seriesId` being its lowest digit.

**PostgresStore.** Publishers on any node against one database, and one node's
LISTEN goroutine with its list. A transaction reads, then takes the row lock of
the channel and holds it to the commit; nothing another session sees lies between
lock and commit, so a publish is `Begin` and `Commit`. Committed NOTIFYs wait in
the node's buffer, `Consume` delivers one; a lost LISTEN connection loses the
buffer until `Redial`, and `Reconcile` reads messages and presence in two queries.
`OpenWhen` and `Published` restrict what a run does.

**PostgresPresence.** The rows of the presence table with their leases, the bump
loop and the reaper of every node, which deletes lapsed rows and then publishes
each LEAVE in another transaction. Time is relative: leases and timers count down.
`forgotten` are the members whose LEAVE was given up with its reaper.

**Migrations.** Processes of different builds that open one database: the
advisory lock, the read of `schema_migrations`, one transaction per migration,
failures and crashes between any two.

**HistoryReads, History.** `HistoryReads` is how each backend answers a query, as
a function of the log: an index over an order, a cursor over a bucket shared with
neighbouring channels, SQL. `History` is a client that asks for a page and follows
the links while others write; `got` is what it was given, compared with what the
log says it should have been given.

**Attachment.** A client, its connection and its attachment. `HandleAttach`
positions the stream, `ComputeReplay` reads history, `Send` blocks while the
queue is full, `LiveNext` advances the position and leaves the frame to a later
`Send`, `HandleReattach` reads the position and leaves its ATTACHED to
`QueueReply`. `out` stands for the outbound channel, the writer and the network.
History is the list itself, which is what `ContractHolds` proves of the memory
backend. The time window of a duration rewind is an arbitrary lower bound on
serials. The client follows DESIGN.md 4.3: it takes its cursor from ATTACHED and
MESSAGE and sends it when it attaches again.

**Delivery.** What the attachment sends: modes from the request, the params and
the capability, across repeat ATTACHes and renewed tokens; aggregates and append
deltas; `echo=false`; the SYNC of an attach and those a client asks for, which it
does on a channel it takes to be attached. How a client applies frames is external
code, modelled from what the frames are for. A rewind replays all messages here,
since the selection is in `Attachment`. A modes param stands for one that names
valid modes. `GetChannel`, `Members` and `History` succeed.

**Connection.** The four loops of a connection, the bounded channels between them
and the teardown. Frames are what the loops do with them: publishes go through the
worker, AUTH signals the expiry loop, the rest is answered by the read loop.
`Stranded` names the four states in which the read loop waits for a channel that
nobody serves any more; nothing in the code ends such a connection.

**Presence.** The members of one connectionId on one channel: the entered set on
the read loop, operations waiting for the worker, LEAVEs at DETACH, CLOSE and
teardown, and the delayed LEAVEs, which read the members and publish in two steps.
Transports of one connectionId may overlap in any way. `Allowed` names the races a
run admits:

* `detachQueued`, `endQueued`: DETACH, or the end of a connection, comes while
  operations wait for the worker;
* `lateQueue`: the worker of an older transport runs after that of a newer one;
* `lateTeardown`: an ENTER commits before an older transport has been torn down;
* `enterDuringFire`: a re-enter falls between the check and the write of a delayed
  LEAVE;
* `sameId`: a re-enter under the id of the first enter.

Each safety property holds under some of them together and fails under each of the
others: `EnteredStay` (who entered stays) holds under the first three,
`LeftAreGone` under the last three, `NoGhosts` (no member outlives its connection)
under the last four. The store does not fail here.

**Operations.** Which operations of a connection and of REST requests are
accepted, under which capability and identity, and what is carried out when the
worker reaches them. The read loop checks, the worker authorises and commits; in
between tokens are renewed and others write. Frames are numbered, and `acked`,
`nacked` and `ledger` say which were answered and which carried out. `held` collects
the capabilities a caller had while an operation was under way.

**Summary.** The five aggregation methods as folds, beside definitions of what a
summary should say of a sequence of annotations.

**Capability, Identity, Token.** Matching and `Intersect` on paths of segments; the
keys of an intersection are texts that are parsed again, and `Reread` says how a
name that opens with a bracket is then read (`parseResource`); the clientId an operation is stamped with; a key, the tokens minted from it and
the connections that present them. Durations have a width.

**Payload.** Data and encoding of one message from a client's frame to the stored
form, through a store that encodes it, and out again on either transport. A value
is a type and a sequence of symbols; base64, ciphertext and JSON text are marked
by a first symbol, so decoding what was not encoded shows. The SDKs are external:
they never name an encoding without data, and append to plain payloads.

**Lifecycle.** The registry of connections under connectionIds that resumes share,
and the shutdown: listener, list of connections, paced DISCONNECTEDs, deadline,
storage, exit.

**Startup.** `server.Run`: keys, storage, fixtures, listeners, serving, SIGTERM,
exit, with a failure at each step. Processes share a database or a data directory.
A request runs queries, which closing the store waits for: bbolt for transactions,
the pool for its connections.

**Sandbox.** The provisioner's creates, deletes, reaper and shutdown, and child
processes that die, never bind or ignore SIGTERM. A request is accepted before it
does anything, so it may act after the registry has changed or shutdown begun.

## Runs

A run instantiates several components, and a behaviour of it belongs to one of
them: the variable `part` is chosen in the initial state and never changes, the
actions of the part it names run with that part's constants, and the variables of
the others keep their initial values. So a run is the union of small instances
that answer related questions, no interleaving is lost that the components have,
and none is added that they have not. An MC module states the properties of its
parts under its own names, guarded by `part` where a property holds in one
instance only.

| Run | Parts | What it shows |
|---|---|---|
| `storage` | `operations`: the memory backend; `streams`: readers of its channel; `disk`: bbolt, two publishers, a restart | The live list is the log (`AppendsMatchLog`), retries get the first answer (`RetriesAgree`), tables and presence set equal the fold of the log (`ProjectionIsFoldOfLog`, `MembersAreFoldOfLog`), and the backend with its channel implements `ChannelFeed` (`ImplementsFeed`). On disk the same over a restart, and what is committed is in the live list, on its way there, or under the next process's watermark (`DiskLosesNothing`) |
| `postgres` | `overlapping`: transactions of two publishers; `failing`: lost LISTEN connections, failing calls, opens at any time; `lease`, `leases`: presence of three nodes, one member with bumps that fail, two without | One winner per id (`RetriesAgree`), the newest version is the latest (`LatestIsNewest`). A node appends in order and nothing twice, whatever fails (`AppendedInOrder`). Leases of members of a live node never run out (`LiveMembersNeverLapse`), the table says what the feed says but for members in a reaper's hands or given up by one (`TableMatchesFeed`), a departure is announced once (`OneLeavePerDeparture`), with members that re-enter at any time |
| `connections` | `publishing`, `expiring`: the loops of one connection, with a key and with a token that expires; `queued`, `resumed`: one connectionId on three transports, with the first and with the last three races above; `registry`, `shutdown` | ACKs come in order, once (`AnswersInOrder`), after the commit (`AckedIsCommitted`); DISCONNECTED is the last frame (`DisconnectedIsLast`). No live member is left, no ghost stays, none stays after it was left (`MembersFollowClients`). Accepted publishes are answered, a connection whose socket is closed ends unless its read loop is `Stranded`, and members that are gone are left in the end (`ConnectionsWindUp`). A connectionId resolves to a registered connection (`KeyNamesLive`). A process told to stop exits with clients stuck (`ShutdownEnds`), and clients that were told have left presence (`ToldHaveLeft`) |
| `attachments` | `resume`: detach, drop, resume, rewind, failing history; `repeat`: repeat ATTACHes; `open`, `failing`: four callers open one channel | A cursor stands for exactly what the client has, a resume or repeat ATTACH continues it, and no frame comes outside an attachment (`ReceivesExactly`). An attached client catches up, and an attach returns if the open does not fail (`AttachedCatchUp`). There is never a second live list (`OneLiveChannel`) |
| `delivery` | `data`: aggregates, deltas, members; `modes`: requests, params, capabilities that change; `payload` | The client holds the data of the messages and the members of the channel, and is sent nothing after the end (`SubscriberIsCurrent`). Modes are what was asked for and is permitted (`ModesFollowCapability`). Every subscriber decodes what was meant, from every backend, over either transport, and a delta gives what the aggregate gives (`PayloadSurvives`) |
| `history` | `messages`, `versions`, `annotations`, `presence`: walks; `queries`: raw reads; `lists`, `tallies`: summaries | Following the links gives each item once and in order while others write (`WalksComplete`), on three backends that answer alike (`QueriesAgree`). A summary is what stands of the annotations (`SummariesStand`) |
| `access` | `capability`, `identity`: tokens; `mutations`, `modes`: operations over a connection and REST | A connection has at most what key and request grant, and stamps what it publishes with its credential's identity (`CredentialBinds`). What is carried out was permitted by a capability the caller held while it was under way, each frame is carried out at most once and answered once, with an ACK if and only if it was carried out (`PermittedOnce`) |
| `processes` | `mint`: one generator; `sandbox`: the provisioner; `startup`: `server.Run`; `sweep`: three processes migrate one database; `listen`: a node whose LISTEN connection is lost twice; `orphans`, `cut off`: reapers after a crash | Serials grow (`StrictlyIncreasing`). A child is terminated once (`TerminatedOnce`) and never forgotten (`NothingForgotten`). A process serves what was configured and closes storage after its queries, and after its requests with two exceptions (`ServesWhileReady`). SIGTERM ends the provisioner, its children end, and a server ends unless it waits for a data directory (`SignalledEnd`). Migrations are applied once, in order, and before anyone serves (`SchemaSwept`), and everyone gets to serve (`EveryoneServes`). A node gets every message (`NodeCatchesUp`). Members of a crashed node depart when reapers finish; their rows lapse even when reapers are cut off (`OrphansDepart`) |
| `bolt_append_order` | `BoltStore` | Violated: see below |
| `postgres_mutate` | `PostgresStore` | Violated: see below |
| `presence_overlap` | `Presence` | Violated: see below |
| `outbound_deadlock` | `Connection` | Violated: see below |

**Bounds.** They are chosen so that the cases that matter occur, with room for one
actor more than the case needs where states allow it.

* `storage`: five serials are a create, three operations on it and a retry; one
  id, since ids interact with themselves only; two messages in a batch; two
  streams and three cms, so a stream attaches before, between and after. On disk
  two publishers (reordering needs two), four mints and one crash: the next
  process publishes over the log of the first.
* `postgres`: two publishers and four serials for overlapping
  transactions, where the second begins only while the first is under way, as
  publishers are alike; one publisher with three serials where calls fail; one
  id, one entrant. Three nodes, so that two reapers race for a third node's
  rows; a lease of three bump intervals, two of which may be missed.
* `connections`: an outbound queue and a publish queue of one, so both fill; three
  frames, of which two at least are publishes, and two AUTHs where a token expires.
  Three transports are a resume of a resume. Two connections under shutdown: one
  before the deadline, one after.
* `attachments`: a replay cap of two and four publishes give gaps below, at and
  above the cap; an outbound queue of two; three attaches, one lost connection.
  One client, as clients share only the list, which they do not write. Four
  callers: two openings, of which one fails, with one that waits on each.
* `delivery`: four cms and three client frames. `Payload`: values of at most
  one symbol, empty ones included, and four operations.
* `history`: pages of one to three over three or four cms of one or two items, a
  channel before and one after in the shared bucket; raw reads also without them,
  where the upper bound is past the end. Two clients and two names.
* `access`: channels and capability paths of up to three segments, wildcards in
  each, and one name that opens with a bracket, for which the run says nothing beyond
  its few capabilities; durations of five bits, so that `ttl` times a millisecond
  overflows.
* `processes`: a counter of three values and seven mints exhaust it twice; two
  sandboxes, two server processes on one directory or database, of which one has any
  configuration. Three processes of two builds, with three migrations and with two,
  and three failures. A lease of two bump intervals of which one may be missed.

Deadlock is not checked, since the bounds let every instance end.

**Symmetry** is used in `history`, over values the specification only compares for
equality. That run checks no liveness.

**Fairness.** Weak fairness of what a running goroutine does on its own: the loops
of a connection and an attachment, the LISTEN goroutine redialling and consuming,
the bump loop and the reaper, the timer of a delayed LEAVE, each step of a sweep, of
`Run` and of a shutdown, a query that was begun, and a client that reads its socket. A step that waits for a
lock or a queue is fair only while it is enabled; the advisory lock of the sweep is
strongly fair, as Postgres queues its waiters. Nothing is assumed of publishes,
requests, clocks, crashes, failures or signals; those have bounds. The sandbox's
children end because SIGKILL follows an ignored SIGTERM.

## Disagreements with the documentation

Four runs show one each, quoted under `findings` in `PROJECT.json`:

* `bolt_append_order`: publishers p1 and p2 commit S1 and S2; p2 is first to reach
  `Append`. Streams see S2 before S1, and a client whose cursor is S2 has no way
  to ask for S1. `storage.go:74` says appends are monotonic.
* `postgres_mutate`: two appends read the same latest version before either takes
  the row lock; the second drops the first one's data. `postgres.go:694` says
  writers of a channel are serialised, DESIGN.md:1786 that an append concatenates
  onto the latest version.
* `presence_overlap`: a client resumes over a second transport and re-enters while
  the first is still up. When the first is torn down, the delayed LEAVE captures the
  serial of the new entry, finds it unchanged after the grace window, and removes a
  member whose connection is open. `server.go:249` says a superseded member is kept.
* `outbound_deadlock`: the write loop ends on a write error; the read loop waits for
  room in the full outbound channel, and the context it also waits for is cancelled
  only when it returns. `disconnect` closes the socket, which wakes a read but not
  this send. `connection.go:799` says the connection still tears down.

The same modules, with the constants below and the bounds of the runs, violate the
following. Each property is stated in its module. The constants are those the race
needs: a passing run either keeps away from them, and says what holds without the
race, or has them too ("as in the run" where nothing else is needed) and checks a
property that names the exception. Paths are under `internal/` unless they start
with `cmd/`.

| Property | Constants | The code | What says otherwise |
|---|---|---|---|
| `BoltStore!RestartKeepsOrder` | `ClockAdvances = FALSE`, one crash | `storage/bbolt/bbolt.go:136`: the generator is not restored from the file, so after a clock set back over a restart new serials sort before committed ones | DESIGN.md:903 "a post-restart Mint sorts after all prior serials" but for one millisecond |
| `PostgresStore!NodeCatchesUp` | `OpenWhen = "any"` | `storage/postgres/postgres.go:233`: the store is registered before `Initialize`; an `Append` in between is overwritten and lost to streams, one after it may be of a cm under the watermark | `core/channel.go:151` "exactly once before any Append" |
| `PostgresStore!NodeCatchesUp` | `OpenWhen = "quiet"`, one drop | `postgres.go:736`: `lastSeen` is empty until the first delivery, so a reconnect before it appends the history below the watermark too | `storage/storage.go:75` "strictly greater than the Initialize current/initial serials" |
| `PostgresStore!NodeCatchesUp` | `Published = {"create", "enter"}`, one drop | `postgres.go:747`: messages and presence are read in two queries; a message committed in between falls below `lastSeen` | DESIGN.md:1135 "never lost in a gap between the snapshot and resubscribe" |
| `PostgresStore!NodeCatchesUp` | `Published = {"create", "annotate"}`, one drop | `postgres.go:739`: reconcile reads no annotations | `postgres.go:368` "every cm minted past the channel's last-delivered serial" |
| `PostgresPresence!LiveMembersListed` | as in the run | `postgres.go:481`: the reaper's LEAVE deletes by key, also the row of a member that has re-entered on a live node | DESIGN.md:1686 "a live node's members never lapse" |
| `PostgresPresence!OrphansDepart` | `ReapsFail = TRUE`, two crashes | `postgres.go:437`: the DELETE commits before the LEAVE is published; a crash between leaves neither | DESIGN.md:1691 "bounds orphan visibility to one lease window" |
| `History!PresenceHistoryWalked` | `IdxWidth = 1`, `Radix = 3`, batches of four | `serial/serial.go:123`: an index wider than its padding does not sort, and cursors skip items (three digits in the code) | `storage/storage.go:759` "the format makes lex compare match logical order" |
| `Manager!PairedWhenReturned` | two callers | `core/manager.go:47`: a Channel is found registered before its store is set | `manager.go:10` "pairs each Channel with its storage.ChannelStore at creation time" |
| `Manager!AttachReturns` | `MayFail = TRUE` | `manager.go:50`: when the open fails, callers that already have the Channel wait in `Attach` for good | `manager.go:37` "the returned Channel is ready for Attach" |
| `Attachment!Continuity` | one reattach, one drop | `realtime/attachment.go:408`: the position is set to S before S is sent; a repeat ATTACH in between tells the client S, and a resume from it skips S | DESIGN.md:467 "no message is missed and none is duplicated" |
| `Attachment!Continuity` | `MaxBatch = 2` | `attachment.go:640`: the limit counts messages, the comparison counts cms, so a truncated resume is reported as complete | `attachment.go:26` "with ATTACHED.Error set and FlagResumed cleared" |
| `Attachment!CursorMatches` | duration rewinds | `attachment.go:723`: the attach point is the initial serial although older messages precede the window | DESIGN.md:597 "selects the attach point at the start of that duration" |
| `Delivery!DataOnceWas` | modes with and without SUBSCRIBE in turn | `attachment.go:523`: a message stays in `seen` while SUBSCRIBE is off; the next append is a delta over a gap | `attachment.go:510` "the first delivery for a not-yet-seen message is always the full aggregate" |
| `Delivery!MembersKnown` | `Syncs = TRUE` | `attachment.go:773`: a SYNC is read and queued in two steps, a later PRESENCE can be queued between | `attachment.go:767` "so ordering holds" |
| `Delivery!FlagsAgree` | modes named in params, capabilities that change | `attachment.go:371`: flags and params of one ATTACHED read the modes separately | `attachment.go:298` "so channel.params.modes agrees" |
| `Connection!ReauthNeverBlocks` | as in the run (two AUTHs) | `realtime/reauth.go:156`: after expiry nobody takes the signal; a second AUTH blocks the read loop | `reauth.go:154` "so this never blocks the read loop" |
| `Connection!RefusedReauthCloses` | one AUTH | `reauth.go:176`: the write loop closes after DISCONNECTED only, not after this ERROR | `reauth.go:169` "which the write loop flushes before closing the socket" |
| `Presence!LeftAreGone` | `Allowed` one of `detachQueued`, `endQueued`, `lateQueue` | `connection.go:571`: DETACH leaves from the read loop, teardown likewise; a queued ENTER, or one of an older transport, commits afterwards | DESIGN.md:1652 "a deliberate departure, processed as an immediate LEAVE publish" |
| `Presence!NoGhosts` | `Allowed` one of `endQueued`, `detachQueued` | `connection.go:225`: a queued LEAVE is dropped at cancellation, and the entered set no longer has the member | DESIGN.md:1645 "A member lives as long as the connection that entered it" plus a grace window |
| `Presence!EnteredStay` | `Allowed = {"enterDuringFire"}` | `server.go:342`: members are read and left in two steps | DESIGN.md:1662 "re-checked against the set **at write time**" |
| `Presence!EnteredStay` | `Allowed = {"sameId"}` | `server.go:333`: a re-enter under the first id is a replay and keeps the captured serial | DESIGN.md:1648 "does not flicker out of and back into presence" |
| `Lifecycle!KeyResolves` | `Resumes = TRUE` | `server.go:239`: the id goes when the connection registered last ends, an earlier one may be open | `server.go:237` "connectionId is unique" |
| `Lifecycle!DisconnectedOnReturn` | `Signals = TRUE` | `server.go:396`: an upgrade in flight registers after the list was taken | `server.go:388` "once every connection has been disconnected" |
| `Lifecycle!LeavesPublished` | `Signals = TRUE` | `server.go:409`: `Shutdown` returns when the last DISCONNECTED is queued; storage closes before the LEAVE | DESIGN.md:1462 "including the synthesised presence `LEAVE`s", before "Close storage" |
| `Lifecycle!ForcedHaveLeft` | `Signals = TRUE` | `server.go:417`: stragglers are not marked as shutting down, their delayed LEAVEs are dropped | DESIGN.md:1652 "processed as an immediate LEAVE publish (no grace)" |
| `Summary!TotalIsContributions` | `Types = {"multiple"}` | `protocol/summary.go:283`: a delete lowers the total also of a value the caller did not contribute to | DESIGN.md:1919 "removes the caller's own contribution(s)" |
| `Token!NothingLost` | paths of different lengths | `auth/capability.go:382`: `*:b` and `*:*:*` do not meet, though both match `a:b` | `capability.go:375` "ok is false when no path satisfies both" |
| `Token!ExcessiveTTLRejected` | `DurationWidth = 5` | `auth/auth.go:767`: the ttl in nanoseconds overflows before it is compared | `auth.go:761` "anything above maxTokenTTL is rejected" |
| `Token!RenewalAccepted` | wildcard client ids | `reauth.go:143`: the clientId param is not applied to the new token, so a narrowed connection's renewal is refused | DESIGN.md:207 "all without dropping the connection" |
| `Payload!Delivered` | `LargeNumbers` not empty | `protocol/data.go:88`: 1000000 is stored as `1e+06` from JSON, as `1000000` from msgpack | `data.go:38` "The rules are identical" |
| `Startup!SignalledExits` | as in the run | `storage/bbolt/bbolt.go:105`: waiting for the file lock ignores SIGTERM | DESIGN.md:1455 "On SIGTERM the server enters a graceful shutdown" |
| `Startup!FixturesEndWithProcess` | `Modes = {"cluster"}` | `fixtures/fixtures.go:65`: rows have a fresh connectionId and no lease, and outlive the process | DESIGN.md:1642 "They persist for the process's lifetime" |
| `Startup!StoreOutlivesRequests` | as in the run | `server/server.go:294`: when the debug address fails, `Run` returns under requests in flight | `server.go:200` "srv.Shutdown drains in-flight HTTP requests" |
| `Sandbox!NoOrphans` | `Signals = TRUE` | `cmd/ably-local-sandbox/main.go:128`: a create may outlast the ten seconds requests are given; its child is in no registry | `main.go:54` "tears down every child before returning" |

## Proofs

A theorem holds for all values of the constants that satisfy the named assumption of
its module: any number of publishers, streams, nodes, connections, apps and
processes, queues of any length. The bounds of the runs, such as `MaxSerial`, are
parameters too. Most assumptions say what kind of value a constant is: a batch has a
message, "no id" is not an id, a counter has a width, sets that are counted are
finite. Two say more:

* `PresenceAssumption`: the lease covers the bumps that may fail,
  `BumpInterval * (MaxMissed + 1) <= LeaseWindow`;
* `PlainCredentials`, a hypothesis of the theorems about capabilities: no name in a
  key or a request opens with a bracket, so that what `Intersect` writes is read back
  as it was meant.

`PROJECT.json` lists the theorems; 24 of the 40 properties of the passing runs are
proved.

Eight modules hold proofs. A module proves several components where they are
small, and the two store modules are in two parts, the log and the tables.

**`AccessProofs`**: `Token`, `Operations`.

* `IntersectSound`: an intersection, written and parsed again, permits only what both
  capabilities permit, on paths of any length, if no name opens with a bracket; and
  it has no such name itself. From it `CredentialsBound`: a connection is within its key
  and its request whatever tokens were minted, presented and renewed, and what it
  publishes carries the identity of its credential. `Provenance` carries where token
  and connection have their capability from, `IdentityInv` where a connection has its
  identity from: a token has a clientId claim exactly when it was minted for one.
* `OperationsPermitted`. `PermitInv`: what the read loop let through, the worker or a
  REST request has authorised, or was carried out, is cleared by a capability the
  caller has held since. That a message keeps its creator (`Kept`) makes an
  authorisation by ownership outlast the writes of others. `QueueInv(d)`,
  `LedgerInv(d)`: the first `d` frames are answered, the next ones are with the worker
  and in the queue, in order, so no frame is answered or carried out a second time.

**`ConnectionProofs`**: `Manager`, `Lifecycle`, `Connection`.

* `SingleChannel`. `OpenInv`: who opens is who registered, and the store it waits for
  is its own.
* `KeysNameLive`. `RegistryInv` says at which points a connection is registered, so
  that `Deregister` of one cannot leave an id that names it. `ToldLeave`: it also says
  that a connection is marked before its DISCONNECTED is queued.
* `AnswersOrdered`, `AcksDurable`, `NothingAfterDisconnected`. `PipeInv` follows an
  accepted publish through its stages: held by the read loop, in the publish queue,
  with the worker, in the outbound channel, on the wire. `Pipe` says it of the sets of
  serials in the stages: each is below those of the stages behind it, what is in a
  stage was accepted, until the socket closes what was accepted is in a stage, so
  nothing is skipped, and every ACK is of a commit. `Rises`: within a stage serials
  increase. A step moves one serial from stage to stage, which is a lemma about sets.

**`ProcessProofs`**: `Sandbox`, `Startup`, `PostgresPresence`, `Migrations`, `Serial`.

* `OneTermination`, `NoneForgotten`. `AppInv`: a child that anybody may still terminate
  is with its create, the registry or the reaper, one of these only, and `terminate`
  has not been called for it; a call that has returned leaves a dead process.
* `ServedWhileReady`. `ReadyAt`: what `Run` has done by the time it is at a stage, that
  a request left when storage is closed is one the grace window did not suffice for or
  of a process that gave up its debug address, and that a query has the store open.
* `LiveMembersKept`. `MemberInv`: the row of a live member, if a reaper's LEAVE has not
  deleted it, is owned by the node it is on, and its lease covers the bumps that node
  may still miss and the time to the next one (`Covered`). The row may be deleted by a
  LEAVE of an earlier entry: that is `LiveMembersListed` in the table above.
* `DeparturesOnce`. `CountInv`: the LEAVEs in the log, the reapers that have one to
  publish and the row in the table are together no more than the ENTERs.
* `TableFollowsFeed`. `MemberInv` also says that whoever is in the table is shown, and
  that whoever is shown is in the table, in a reaper's hands or `forgotten`.
* `SweepSound`. `SweepInv`: a process that sweeps holds the lock, so what it read is
  still the table.
* `MintMonotonic`: serials strictly increase. `LastIsGen`, that the last serial
  minted is the generator's state, makes it inductive. `DriftBounded`: timestamps
  run ahead of the clock by at most a millisecond for each counter's worth of
  serials. `DriftInv` counts a generator's state in serials (`Spent`): a mint either
  takes the clock's millisecond or spends one.

**`ProjectionProofs`**: lemmas about the operators both stores are built from: what one
cm more in the log does to the newest version of a message, to the data since its
last replacement, to its annotations, and to what was last said of a member.

**`MemoryStoreProofs`**: types; `ContractHolds`, the Appender contract. `LogInv` adds
that no serial in the list exceeds the generator's and that nothing is committed
before the channel is ready. `PublishStep` reduces every publish to one step that
mints and commits a cm under an unused id, so invariants are proved of that step
once. `RetriesAgreeHolds`: `IdInv` ties the id index to the log in both directions, so
"not in the index" means "never committed". `FeedRefinement`: the backend with its
channel implements `ChannelFeed`; `StreamInv` keeps a cursor inside the list and as
far past the tail it attached at as it has had deliveries.

**`MemoryTableProofs`**: `ProjectionFolds`, `MembersFold`: the tables are the fold of the
log. `ProjInv` adds that tables and annotations speak only of messages that were
created, so a serial about to be minted is in none of them. The fold is stated by
quantifiers (the newest version, everything since the last replacement), not by
recursion, which is what lets one step be proved without an induction over the log.

**`PostgresStoreProofs`**: types; `LogInOrder`, that overlapping transactions of all
nodes form one increasing log; `RetriesCommitOnce`. `TxInv` says what an open
transaction has read, as far as it stays true while others commit: its target still
exists, though in a later version. `LogInv` adds that the channels row is past every
serial, and that NOTIFYs on their way name committed rows. `IdInv` is as above;
`Commit` keeps it by the unique index, since the look-up in `Begin` is stale.

**`PostgresTableProofs`**: `VersionsAdvance`: the projection has the newest version of
every message although `Mutate` reads before the lock; `VersionInv` relates rows and
version index to the log. (That it also has the right data is false: that is the run
`postgres_mutate`.) `AppendsInOrder`: `ListenInv` says that all a node has appended
since `Initialize`, or holds in a reconcile, was committed, and that the former is
at or below `lastSeen`, in order. `PresenceTableFolds`: the presence table is the fold
of the log.

Only model-checked:

* liveness (`EveryoneServes`, `NodeCatchesUp`, `OrphansDepart`, `ConnectionsWindUp`,
  `ShutdownEnds`, `AttachedCatchUp`, `SignalledEnd`): out of the prover's reach;
* what folds over sequences compute, an induction over data: `Summary`, `History`,
  `HistoryReads`, and the client's view of the data in `Delivery`;
* `Payload`, whose claims are about what finitely many conversions do to a value;
* `BoltStore` (`DiskLosesNothing`), `Attachment`, `Delivery` and `Presence`: safety
  whose inductive invariants have not been worked out.

`TypeOK` of a module says what its variables range over. Where it is not proved it
documents the state and no run lists it.

## Not modelled

* Signatures, macs, timestamps and nonces of token requests; revocation. `Token`
  takes a credential that verifies and is about what it grants.
* Layout of frames and of REST bodies, transcoding of nested msgpack, extras, the
  encoding of summaries: conversions without state, whose tests compare them with
  fixtures. `Payload` has the part that loses or doubles an encoding if it is wrong.
* Parsing of the configuration, flags, routing, the translation of a sandbox
  request into a config file.
* Stats, time and health endpoints, metrics, logs, traces, random ids: nothing
  reads them back.
* `cmd/` tools other than the sandbox, which drive the server from outside.
* HTTP long-lived machinery, bbolt, pgx and PostgreSQL themselves: external, taken
  as what the code relies on (an exclusive write transaction; row locks, NOTIFY at
  commit in commit order, advisory locks that end with the session).
* Several channels at once: channels share nothing but the registry of stores
  (`Manager`), the bbolt bucket (`HistoryReads`) and the publish queue
  (`Connection`), where neighbours are modelled.
