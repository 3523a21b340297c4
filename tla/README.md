# vinctum-core in TLA+

Vinctum moves files between devices. Chunks of an end-to-end encrypted file are uploaded
to a transfer service, stored there or relayed over several nodes, and downloaded by the
receiver. This directory holds TLA+ modules of its concurrent parts, the TLC
configurations that check them, and proofs for TLAPS. Line numbers below are those of the
commit the modules were written from; paths are relative to the repository.

## 1. The system

| Component | State it keeps | Operations | Talks to |
|---|---|---|---|
| transfer service (`services/transfer/handler`) | tables `transfers`, `group_transfers` | InitiateTransfer, InitiateGroupTransfer, SendChunk (client stream), ReceiveChunks (server stream), Pause, Resume, Cancel, RespondToTransfer, ConfirmP2PTransfer, WatchTransfers, queries | routing (FindRoute), chunk store, relay client, libp2p |
| chunk store (`services/transfer/storage`) | one directory of chunk files per transfer or group | SaveChunk, LoadChunk, DeleteTransfer, ListChunks, Reassemble, under one RWMutex | file system |
| libp2p protocol (`internal/p2p`) | open streams | handleStream, SendFile | chunk store, callback into the transfers table |
| relay (`services/relay/handler`, `internal/relay`) | chunk store; per peer a connection and a circuit breaker | RelayChunk, FetchChunk, Ping; FindAlternativeRoute; ReplicateChunk | other relays, discovery, routing |
| routing (`services/routing`, `cmd/routing`) | tables of routes and relays | FindRoute, UpdateRouteTable, RegisterRelay, watchPeerUpdates | discovery |
| discovery (`services/discovery`) | table of peers | AnnounceNode, FindPeers, GetNodeInfo, StreamPeerUpdates | - |
| identity (`services/identity`, `internal/auth`) | users, devices, sessions, friendships; Redis: blacklist, pairing codes | Register, Login, RefreshToken, Logout, VerifyEmail, pairing, peer sessions, friends | mailer, Redis |
| gateway (`services/gateway`) | none | one REST handler per RPC, chunk upload and download | all services |
| CLI (`cmd/cli`) | token file | login, send, receive, ... | gateway |
| migrator (`internal/migrator`) | table `schema_migrations` | Run at every service start | PostgreSQL |
| rate limiter (`pkg/middleware`) | token bucket per client | allow, cleanup goroutine | - |
| intelligence, crypto, config, logging, mailer | windows of samples, or none | library calls | - |

What is hard in it:

* **No handler holds a transaction or a lock across two statements.** Every pair
  "SELECT the row, check its status, UPDATE by id" is open to every other handler, and the
  updates are unconditional. SendChunk reads the status once per stream and then writes
  IN_PROGRESS, `chunks_done` and COMPLETED without looking again.
* **Errors that are dropped.** SendChunk discards the errors of its updates and of the query
  for a group's rows; CancelTransfer only logs a failed deletion; the relay's forwards and
  replicas only log.
* **Two stores.** The row is in PostgreSQL and the chunks are files; no transaction spans
  them, and a crash can fall between any two writes.
* **Several roads to the same directory.** SendChunk, the libp2p callback and the relay
  handler save chunks of the same transfer; group recipients share the group's directory.
* **Shared breakers and connections.** All calls to a relay node share one circuit breaker,
  and report to it long after it admitted them; racing callers make both at the same time.
* **Retries and timeouts.** A client may be gone while its handler still runs.
* **Looks before writes.** The identity service looks at a row (a device, a session, a
  friendship, the blacklist) and then writes another one; what it saw may be over by then.
* **Polls instead of events.** The two watches compare a table with what it was some seconds
  ago and keep nothing else.
* **Time.** Tokens live for whole seconds, blacklist entries and pairing codes expire, the
  rate limiter computes from the last time it saw a client.

What makes each component correct is listed with its module below.

## 2. Modules

| Module | Role |
|---|---|
| `Transfer` | transfer service: rows, groups, chunk store, streams, control calls, libp2p and relay saves, restarts |
| `Delivery` | `Transfer` driven by the repository's clients: CLI, gateway, downloads |
| `FileDrop` | abstract: what sender and receiver rely on, whole files and outcomes |
| `TransferWatch` | WatchTransfers, the gateway's pass-through and a subscriber that comes back |
| `ChunkMap` | abstract: what `ChunkStore` promises, a map of whole chunks |
| `FileStore` | the store of `services/transfer/storage` file by file; implements `ChunkMap` |
| `Relay` | one chunk over several relay nodes: forwards, ttl, reroute, fallback, replicas, broken connections |
| `BreakerPolicy` | abstract: what a circuit breaker promises, over two counters |
| `CircuitBreaker` | the breaker of `internal/relay/circuitbreaker.go` with concurrent callers; implements `BreakerPolicy` |
| `PeerPool` | the pool of connections and breakers that the relay client's callers race for |
| `Routing` | FindRoute's walk over a route table that changes under it |
| `PeerWatch` | discovery's table and update stream, and the routing service's watch of it |
| `TokenBucket` | abstract: a bucket per client, filled at every tick |
| `RateLimiter` | the limiter of `pkg/middleware/ratelimit.go`; implements `TokenBucket` |
| `Migrator` | the migrations of services that start at once and crash |
| `Tokens` | login, refresh with rotation, logout, blacklist |
| `Accounts` | registration and e-mail verification |
| `Devices` | registration and pairing of devices |
| `PeerSessions` | sessions, the devices in them and their keys |
| `Friends` | friend requests |
| `TransferProofs`, `RelayProofs`, `RateLimiterProofs`, `StorageProofs`, `NetworkProofs` (breaker, pool, routing), `TokensProofs`, `IdentityProofs` | inductive invariants, properties and refinements, proved |
| `PlatformProofs` | the two feeds, and what is proved of the components put together |
| `MCTransfer`, `MCDelivery`, `MCRelay`, `MCPeerWatch`, `MCTokens` | instances for TLC |
| `MCPlatform`, `MCIdentity` | several components side by side for TLC, section 3 |

Operators named `X_Y` next to an operator `X` are forms of `X` that the code does not have;
nothing refers to them. They record what a property is there to notice.

### Transfer

State and code: `row` is the table `transfers` (status, chunks_done, group_transfer_id),
`group` the table `group_transfers` together with "its InitiateGroupTransfer is still
inserting rows", `store` the set of chunk indices in each directory, `stream` the local
variables of each SendChunk handler (or libp2p stream) and `call` what a unary handler that
has passed its check is about to write. `past` is a history variable, read by no action.
One statement of a handler is one action: a SendChunk message is
OpenTransfer or OpenGroup, MarkInProgress (row by row), SaveChunk, RecordProgress (row by
row); at the end of the stream EndOfStream, MarkCompleted (row by row), AnswerCompleted.
Refused calls change nothing and are not steps. Reads that only return data are left out.

Data is abstracted to indices: the bytes and hashes of a chunk, names, keys and sizes do
not matter to the control flow except that a wrong hash ends the stream (AbortStream).
Every transfer has the same `total_chunks`. The header of a libp2p stream names a total of its
own, which nothing compares with the row's (`internal/p2p/transfer_protocol.go:112`,
`cmd/transfer/main.go:148`): `Totals` has every one that the indices tell apart. A row that met
a header with a smaller total is marked `short` in `past`. `chunk_index` is assumed not to be
negative.

Properties. `UnapprovedHoldsNothing`: the one check of the status guards the store against
every stale or racing write. `ProgressIsBacked`: a row never claims more than the store
has, whatever writes were lost. It excuses, by name, rows that a P2P confirmation wrote, whose
directory was deleted, whose libp2p chunks went to another directory than the one that is read
(`Misfiled`), or that met a short header: those rows can run ahead, and the property shows
that there is no other way to it. `GroupChunksKept`: a recipient's cancellation does not take
the shared chunks away. Three statements of the code's comments and protocol file do not
hold, see section 4.

### Delivery

Adds the send command (`cmdSend`, one POST per chunk, stop at the first error), the gateway
(`handleUploadChunk`: a stream of one message, then CloseAndRecv) and ReceiveChunks. With
this discipline the last-index rule is sound: `CompletedHasAllChunks`, refuted for arbitrary
clients, holds here. libp2p and relay saves are left out of this composition: no client in the
repository starts a libp2p upload, and the send command asks for no route.

The command drops the errors of reading the answer and of Atoi (`cmd/cli/main.go:90-92`, `248`).
When the answer breaks off or is no JSON, or when `%v` prints a million chunks as `1e+06`, it
counts 0 chunks, posts none, and prints "file sent". `CliInitiate` has this outcome: `total` is
what the command has read, and `SentMeansStored` says that what it counted is on disk. Of a
misread count it says nothing, and such a file is nowhere: this is a fault of the command, and
`FileDrop` does not count its word as told (`Told`).

A download ends with an error when a chunk is not there (`missing`) and when anything else fails,
a file that cannot be read or a Send to a receiver who is gone (`failed`, DownloadFails, at any
index). The handler answers Internal for both; the model keeps them apart since only the first
says something about the row. `TrustedDownloadsMissNothing`: a download that starts on a row
completed by uploads never meets the first, unless the row is cancelled under it. What the user
sees is not part of it: `vinctum receive` writes the gateway's error line
(`services/gateway/handler/handler.go:1167`) like a chunk without data, and ends with "file
saved" (`cmd/cli/main.go:338-359`).

`FileDrop` is the same without chunks, rows, handlers and calls: files become whole or are
wiped, senders are told, fetches begin and end. A file is told to be sent or completed only
when it is whole or was wiped; a fetch ends well only on such a file, misses something only of
one that is not whole at that moment, and may be cut off at any time. `FilesAreDropped` is the
refinement: a file is whole when its directory holds every index, a row is completed when it
says so and no P2P confirmation wrote it, and a fetch is a ReceiveChunks handler, whose many
reads become one moment. There is no liveness here: a command or a client that waits owes
nothing, and that a handler whose statements are answered gets to its end is plain to see.

### TransferWatch

`rows` is the table, changed by anybody at any time; `known` and `polled` are the handler's
maps, `view` is what the subscriber was told last. A poll reads the table in one query and
sends its events one after the other while rows go on changing. The gateway adds nothing but
another place to break (its write timeout of 30 s ends every stream, `cmd/gateway/main.go:75`),
so Break is one action; that the subscriber opens a new stream is external. `WatchCatchesUp`:
once the rows rest, the subscriber has been told each row as it is, and an end as an end,
though any number of changes, an end that was undone included, may never have been told. A
transfer that ended or was paused before the stream was opened is told as NEW, with the row
in it, so that is the one other event the property accepts for such a row.
Fairness: the ticker ticks, the query is answered, the subscriber comes back.
`NothingMissed` is the safety of it: at any moment of an open stream each row's present state
has been told, is in the poll being sent, or will differ from what the next poll compares with.

### ChunkMap and FileStore

`ChunkMap` is the interface `ChunkStore` as its callers see it: saves set one chunk, loads and
lists say what is there, and a deletion is free to take the chunks one by one, with or without
an answer. `FileStore` has the files: `temp` beside `file`, a write that truncates before it
writes, a rename, a RemoveAll that goes entry by entry, each system call free to fail, and the
process free to die at any point. The lock is `writer`: nobody reads while it is held. The
rename is taken to be atomic, and what was written to outlive the process, though not the
machine: the code syncs nothing. Temporary files may stay for good after a crash; lists pass
over them, and `FilesAreChunkMap` says that this is all anyone sees of it.

### BreakerPolicy and CircuitBreaker

`BreakerPolicy` says when a call may go out: fewer than MaxFailures failures since the last
success, or the last failure older than Cooldown. `CircuitBreaker` has the code's three
states; callers stand between Allow and Record with the lock released. `FollowsPolicy` is
the refinement; `BoundedBurst` bounds what a failing node receives between two openings;
`Reopens` says an open breaker admits calls again (fairness: time passes). That
all callers of a node share one breaker is what `PeerPool` shows.

### PeerPool

GetBreaker and GetConn look a node up under the read lock and, if it is not there, look again
under the write lock before they put in what they made; GetConn asks discovery and dials in
between, without a lock. `ConnsAccounted`: whatever the race, an open connection is in the
pool or in the hands of a caller about to look again, and a call uses the pool's. It also
means that no connection is closed under a call. `OneBreakerPerNode`: two callers never
report to different breakers of a node, on which `CircuitBreaker` rests. Since nobody calls
Evict, a node's first address is its address for as long as the process lives.

### Relay

A RelayChunk handler calls its next hop before it answers, so the handlers of one chunk form
a stack: `stack[Main]` belongs to SendChunk's call, and a frame holds what one handler knows
(its node, the hops left, the ttl, the number of copies, and where it stands in the code:
`arrived`, `calling`, `reroute`, `rerouted`, `recalling`, `fallback`, `answering`). When a
connection breaks the caller sees an error and goes on with its reroute or fallback, while
the handlers above do not know and go on as well: Break moves them to a stack of their own,
a *stray*. The goroutines of ReplicateChunk are strays of one frame. `store` is the set of
nodes with the chunk on disk, and `dest` and `trouble` are history: the last hop of the
route the sender took, and whether a call, a save or a connection has failed.

`guarded` is chosen at the start and never changes: is there an authentication interceptor in
front of RelayChunk and FindRoute? RelayChunk and FindRoute are not public methods
(`pkg/middleware/auth.go:19-30`), `cmd/transfer/main.go:170` and `cmd/routing/main.go:89` install
the interceptor, and neither InitiateTransfer (`services/transfer/handler/handler.go:72`) nor
ForwardChunk (`internal/relay/client.go:32-33`) nor the rerouter (`internal/relay/rerouter.go:26`)
sends a token. So TRUE is the program as it is shipped: InitiateTransfer stores no route and
SendChunk calls no relay (SendAlone); a request that does reach a RelayChunk handler comes from
a caller with a token, which nothing in the repository is and which may ask anything (Submit);
its forwards, lookups and replicas are rejected (ForwardRejected, NoRoute) and it falls back to
its own store. FALSE is the relaying the code was written for, with route, forwards, reroute
and replicas; what is shown of it is about the mechanism, for the day the calls carry a token.

Left out: contents and hashes (SendChunk has checked the hash before it forwards), the
breaker's state (a forward may fail at any time, which includes an open breaker), the
candidates FindPeers returns (any peers). FindRoute's answer is any non-empty path that
avoids the excluded node and passes the target at most at its end: what the walk can return
from a table nobody keeps consistent. Losing a forward request, or the process of a node, is
a Break, of which the handlers beyond may know nothing.

Properties, of both wirings. `AnswersHeld`: every answer but an error names a node that has the
chunk. `DepthBounded` and `NoStepBack`: reroutes and loops in the routes do not make relaying
endless, since the ttl bounds how many handlers wait for each other and a handler runs
through forward, reroute, second forward and fallback once. `CopiesBounded`: replicas do not
replicate. It counts the relay's copies; SendChunk keeps one of its own. `CleanRouteDelivers`,
that a chunk arrives when nothing fails, does not hold of the program as it is shipped
(`unauthorisedrelay`, section 4). Without the interceptor a chunk would arrive when nothing
fails; after a failure the path of a reroute may end before the destination, and its last node
stores the chunk and answers Success all the same.

### Routing

One FindRoute call, a query at a time, while UpdateRouteTable changes entries. The target is
fixed, and the table is the next hop of each node towards it; the source's routes to other
targets matter through their next hops alone (`Neighbours`), since FindRoute asks the anomaly
detector about the next hops of its source and nobody else: an anomalous node further down
the path is not excluded. `AnswersAreRoutes` has two halves. Whatever changes during the walk,
no excluded node is in the answer, the target only at its end, and the length is within
max_hops: this is what `Relay` takes of a route. If nothing changed and no query failed, the
answer is a path by the table that could not be longer, and direct_possible agrees with it.
Failed queries end a walk like a missing entry, which is why a route may end early without an
error. Routing's own interceptor rejects the program's calls of FindRoute (section 4,
`unauthorisedrelay`); the module is about the handler, whoever calls it.

### PeerWatch

Discovery polls its table of peers every five seconds for each stream; the routing service
opens one stream when it starts and makes a direct route of each update. `NoPeerMissed`, a part
of `FeedsMissNothing`: while the stream lives, an announcement routing has not heard is in the
batch being sent or will differ at the next tick, and what it has heard is a route, but for
routes whose upsert failed, of which it is not told again (`missed`). Once the stream has ended,
nothing is promised, for nobody opens another one.
`Intercepted` is whether discovery's authentication interceptor stands before the stream. In
`cmd/discovery` it does, so that no stream lives, and the run `unauthorisedwatch` shows what
follows (section 4). The passing run has FALSE: `NoPeerMissed` speaks of the mechanism behind
the interceptor, and of the shipped program it says nothing. The gateway is the only place that
forwards authorization (`services/gateway/handler/handler.go:1515`).

### TokenBucket and RateLimiter

Tokens are counted in units, so that a tick may be worth a fraction of a token. The limiter
keeps the tokens of a client's last request and computes the refill when the next one comes;
a refused request writes the refill into the entry, and the cleanup deletes entries that have
been idle. `LimiterIsTokenBucket`: a client cannot tell this from a bucket that is filled at
every tick and never forgotten. The refinement maps a bucket's level to what a request would
find now. It rests on `IdleIsFull`, which holds for 100 tokens a second, 200 at most and ten
minutes: what is deleted was full. `WindowBound` is the bound a reader expects of a rate
limit, over any window that opens at any moment. The key is the address of the peer, port
included, so all users of one gateway connection share one bucket per service.

### Migrator

Four services run the same files on the same database when they start. Executing a file is
atomic (several statements in one simple query are one implicit transaction), looking for its
record, executing it and recording it are three steps. `Plain` are files that fail the second
time; of the repository's, `015_create_group_transfers.sql` is one. `SchemaInOrder`: however
many services run and die, nothing is recorded that is not in the schema, no file is executed
before its predecessors are recorded, and a service that is up has the whole schema.
`ServicesComeUp`: losing the race for a file costs a service a restart and no more. The one
way out of it is `SchemaTorn`, a plain file executed and not recorded with nobody left to
record it: a crash in that place keeps every service down until a person steps in, which is
at odds with `docs/architecture.md:178`, where migrations are applied "idempotently". Fairness:
a process that has ended is started again and the database answers; faults are bounded.

### Tokens

A token is its user, the second it was issued and its length of life: that is all its text
depends on (`internal/auth/jwt.go:75-93`), so two tokens of one second may be one. Both clock
readings of a signature are taken to fall into one second, and Redis to keep what it has
acknowledged until it expires. RefreshToken is three steps, with other calls in between;
Redis may be out of reach at any of them, which IsBlacklisted's callers take for "not
blacklisted" and RefreshToken's Add for a warning in the log. Logout takes access tokens as
well, and so does RefreshToken, as the code does. `RevokedNeverValid`: after an acknowledged
logout or rotation ValidateToken says no for ever while Redis answers; it depends on the entry
outliving the token whenever it was made. `RotatedOnce`: only refreshes that overlap, or miss
Redis, get two pairs out of one token. What the property does not say: the services' interceptor
checks signature and expiry and never asks the blacklist, although `README.md:483` of the
repository has it "checked on every authenticated request"; an access token therefore lives
its life out. Nor is Redis in reach everywhere: the client is made from an address alone
(`internal/auth/blacklist.go:17-19`), while `deployments/docker/docker-compose.yml:22` starts a
Redis that asks for a password, so that there every call sees it out of reach, and
`RevokedNeverValid`, which is about revocations Redis acknowledged, has no case.
`contended` are tokens whose refreshes overlapped or were made while Redis was out of reach:
`RotatedOnce` excuses them, and shows that nothing else gives a second pair.

### Accounts

Register inserts the row, then stores a verification token, then mails it, and answers success
whatever became of the last two; ResendVerification does the last two again, and each new token
replaces the one before. `EventuallyVerified`: an account is not lost by any of this. It needs
a user who asks again when no call is running, reads the newest mail and clicks, and it needs
strong fairness for each statement, since any may fail any number of times in between. A user
who asks while a call is still running may do so `MaxImpatience` times: two calls that overlap
for ever kill each other's links for ever. A link cannot expire while the call that mails it
is running (24 hours).

### Devices

The table of devices (a unique index over account and fingerprint of devices that are not
revoked), the pairing codes in Redis, and handlers between their looks and their writes.
`OneDevicePerFingerprint`: the look of RegisterDevice does not see to it and RedeemPairingCode
does not look; the index does. `DevicesJoinByVouching`: a device that came by a code had a code
of its own, from an approved device of the same account, and becomes approved through a device
of that account that was approved before, whatever has been revoked, rejected or redeemed by
others between the looks and the write. An approver may be revoked between its check and the
update, and the property says "approved", not "live", because the code promises no more. Codes
are drawn at most once (32^6 of them, and five minutes to live); `MaxBegun` bounds the calls.

### PeerSessions

Sessions of one user. JoinPeerSession looks at the session, at the device, and then inserts;
CreatePeerSession inserts the device of its request without looking, whosever it is. Neither
closing a session nor revoking a device deletes memberships: the queries leave them out.
`ClosedSessionsShrink`: what a closed session lists only shrinks, but for the devices of calls
that were already running when it closed (`openCalls`). That such a call may still enter is how
the code is; the property shows that no later one does. The devices here are approved ones.

### Friends

`OneRowUnlessUnseen`: two users have two rows only if they asked each other at the same time or
the query that looks failed (SendFriendRequest takes any error for "no row"): both are
`unseen`, which the property excuses, so that it is about the look in both directions. It matters
because ListFriendDevices reads one row of the two, LIMIT 1, whichever comes first.

## 3. Runs

| Run | Instance | Shows |
|---|---|---|
| solo | 1 transfer, 2 chunks, 2 streams, 1 control call, libp2p, relay, restarts | `TypeOK`, `UnapprovedHoldsNothing`, `ProgressIsBacked` |
| group | 1 group, 2 recipients, 1 stream, 1 control call, restarts | `ProgressIsBacked`, `GroupChunksKept` |
| delivery | 1 transfer, 2 chunks, 1 stream, 1 control call, 1 download, restarts | type, `SentMeansStored`, `CompletedHasAllChunks`, `TrustedDownloadsMissNothing`, `FilesAreDropped` |
| relay | 3 nodes, routes of up to 2 hops, 2 copies, 1 stray, behind the interceptor and without it | type, `AnswersHeld`, `CopiesBounded`, `DepthBounded`, `NoStepBack` |
| platform | the eight parts of `MCPlatform` | types, `BoundedBurst`, `FollowsPolicy`, `Reopens`, `WindowBound`, `LimiterIsTokenBucket`, `ConnsAccounted`, `OneBreakerPerNode`, `FilesAreChunkMap`, `SchemaInOrder`, `ServicesComeUp`, `AnswersAreRoutes`, `FeedsMissNothing` (`NothingMissed` and `NoPeerMissed`), `WatchCatchesUp` |
| identity | the five parts of `MCIdentity` | types, `RevokedNeverValid`, `RotatedOnce`, `EventuallyVerified`, `OneDevicePerFingerprint`, `DevicesJoinByVouching`, `ClosedSessionsShrink`, `OneRowUnlessUnseen` |
| incomplete, staleconfirm | 1 transfer | violations, section 4 |
| terminal | 1 group, 1 recipient, 1 stream, 1 control call | a violation, section 4 |
| unauthorisedrelay | 3 nodes, no stray | a violation, section 4 |
| unauthorisedwatch | 2 nodes, no errors | a violation, section 4 |
| samesecond | 1 user, 2 refreshes | a violation, section 4 |

`MCPlatform` and `MCIdentity` take several components that do not share state. `part` is chosen
at the start and says which of them moves while the others rest in their initial states, so the
state space is the sum of theirs and not the product; since they share nothing, no behaviour of
any of them is lost. Each keeps the fairness of its own specification.

Bounds: `Singles`, `Recipients`, `Groups` are the ids the service may draw; `Streams` and
`Calls` bound the handlers that run at once; `TotalChunks` and `MaxIndex` bound the indices;
`Reports` the `chunks_transferred` a confirmation may carry; `Totals` (1 up to `MaxIndex` + 2)
are the totals of libp2p headers, of which 1 also stands for 0 and less and the largest for any
that no index reaches. Two streams and one call make
every pairwise race on a row happen (stream against stream, stream against call); two
chunks separate "first" from "last" and "last index" from "all". A group needs two
recipients for one to disturb the other, and one chunk suffices since the properties speak
of single chunks of the shared directory. In the group run `Reports` is empty: confirmations
race on a row alike with or without a group and are in the solo run. MaxFailures 3 is the
program's value; the burst bound depends on the number of callers, three of which can be
in three different phases. Routes of two hops and the ttl of four that goes with them
leave room for a self-call, a forward, a reroute and a loop; three nodes are a sender's first
hop, a failing node and a way around it; one stray is a replica or the far side of one broken
connection, and the proofs cover any number. Symmetry permutes ids that no action orders, and
is not used with liveness. Deadlock is off where the system may stop (no id left and every handler
done, the chunk's last handler answered, or the command ended, bounds used up).

In the platform run two dialers and two nodes make every race for one node, beside another;
three connections leave room for the loser's. One directory with two indices and two contents
tells a chunk from another, a new content from an old one and a list from a chunk. The limiter's
instance has fractional refills (a tick is half a token), a burst that is no whole number of
tokens, and time for an entry to be forgotten and made again. Three migration files put one
that fails the second time between two that do not, and two services and two faults are a race
and a crash in it. Three writes to two rows and two breaks are an end that is undone between
two polls, and a stream that breaks before and after it. Three nodes with any table, one update
and three hops make walks that stop early, come round, and are changed halfway.

In the identity run one user, two refreshes, three calls, lives of one and two seconds and a
clock of three are enough to let a refresh overlap another, fall into the second of its token,
outlive it, and meet Redis gone and back; `TokensProofs` has no such bounds. Two mailings, one
of them impatient, make mails overtake each other, and four links are one more than can be about
at once. Three devices, two fingerprints, two accounts, two handlers and one code: a device that
vouches, one that joins, one that is in the way. Three machines, one of them somebody else's,
two joiners and one session. Two people and three calls: two that ask each other and one more.

## 4. Where code and comments part

* `incomplete`: "Complete if all chunks received." (`services/transfer/handler/handler.go:333`);
  the code compares the last index only. A stream with the last chunk alone completes.
* `terminal`: "Reached terminal completed state", "Reached terminal cancelled/failed state"
  (`proto/transfer/v1/transfer.proto:226-227`); an upload to a group
  sets every recipient's row to IN_PROGRESS whatever it says
  (`services/transfer/handler/handler.go:210-214`), one to a transfer refuses only rows that
  await approval or are paused.
* `staleconfirm`: "keep current status so client can fall back to relay"
  (`services/transfer/handler/handler.go:741`); the status written is the one read earlier,
  so a cancellation in between is undone.
* `unauthorisedrelay`: "Chunks traverse relay nodes hop-by-hop to the destination"
  (`README.md:245`); the lookup of the route and every forward are made without authorization,
  their methods are not public, and the interceptors of the servers reject them
  (`pkg/middleware/auth.go:19-30`, `cmd/transfer/main.go:170`, `cmd/routing/main.go:89`). No
  route is stored, the chunk stays where it was uploaded, and the user hears of no error.
* `unauthorisedwatch`: "Subscribe to discovery peer updates to auto-populate routing table."
  (`cmd/routing/main.go:124`); the stream is opened without authorization, its method is not
  public (`pkg/middleware/auth.go:19-30`), discovery's interceptor rejects it
  (`cmd/discovery/main.go:78-83`), and the goroutine returns at its first Recv.
* `samesecond`: "RefreshToken: issue new token pair with rotation (old refresh blacklisted)"
  (`docs/architecture.md:75`); a refresh in the second in which the token was issued returns the
  text it has just blacklisted, and the client is left with a refresh token that is refused.

## 5. Proofs

`TransferProofs` proves `TypeOK`, `UnapprovedHoldsNothing`, `ProgressIsBacked` and
`GroupChunksKept` for all values of the constants under `TransferConstants` (at least one
chunk, indices that can reach the last one, disjoint ids, None not an id). None of the
safety properties is inductive alone. The strengthening `IInv` adds what a stream in the
middle of a message knows: that the rows it will write have been released (or it is a
libp2p stream, recorded as such), that its total is the row's (or it is a libp2p stream, and a
smaller total is recorded), that a row's storage is fixed once the row exists, that a
stream recording or completing has saved the chunk it counts, unless the directory was
wiped, and the same for a call that is about to write a status. Each action has its own
lemma per part of the invariant; the temporal step is by PTL.

It then proves the four invariants of `Delivery` under `DeliverySpec`. Every step of the
clients is a step of `Transfer` or leaves its variables alone, so `IInv` comes for nothing
(`DeliveryIsTransfer`). `DInv` adds the induction that the order of the posts makes possible:
the first n chunks of a row are on disk, or it was wiped (`Kept`), where n is what a send
command has had answered, of the count it has read, and one more once its stream has saved. With it a stream that
completes a row has reached the total with nothing missing, which is what a download of the
row relies on. It needs that None is not the name of a stream (`DeliveryConstants`), so that
a command that waits for nothing is not taken for one that waits.

From `DInv` it proves the refinement `FilesAreDropped`, one lemma per kind of handler, each
giving the step of `FileDrop` it is or showing that the users see nothing of it. That a fetch
ends well only on a whole file took one more conjunct: a download has read every index below
its `next`, the row being wiped aside, since a chunk once read does not go otherwise. It
also proves that the delivery is a `Transfer` (`DeliveryImplementsTransfer`), so that the
service's guarantees hold under its clients (`ClientsKeepTheService`), and of every step of the
service that no row vanishes or changes its group and no directory loses a chunk but by a
cancellation (`RowsPersist`).

Of the breaker `NetworkProofs` proves an invariant that ties the three states to the two counters
(open implies MaxFailures failures; closed implies fewer) and the burst to the failures and
the callers in flight, and from it `BoundedBurst` and the refinement of `BreakerPolicy`. It
assumes `BreakerConstants` (finitely many callers, a positive threshold).

`RelayProofs` proves the five properties of the run `relay`, for any nodes, any length of routes, any
replication factor and finitely many strays (`RelayConstants`; an error is not an answer).
The first invariant, `IInv`, says of each stack that all but its last frame wait for a call,
that position plus ttl never exceeds MaxRoute + 3, that a frame that may still call has a
hop and a ttl left, and that an answer is backed by the store. The depth bound could not be
proved from "a frame's ttl is one less than the one below", which would take an induction
over the stack; the sum of position and ttl says the same for each frame alone, and survives
a stack being cut in two. The second is about runs in which nothing has failed, and has a half for each
wiring. `CleanInv`, without the interceptor: the ttl of a frame is its hops plus two, its hops end at `dest`, strays are single replicas,
and the nodes that have the chunk or are about to get a replica are at most
replication_factor many. `GuardedInv`, behind it: no handler has a call out, no stray runs, and
at most one node has the chunk. Lemmas on sequences (a stack with its top replaced, with a frame
pushed, cut below or above a frame) carry both.

`RateLimiterProofs`: the bound on a window is not inductive, since it forgets what a client may
still spend. `WindowInv` adds it: what was let through since the window opened and what the
client could spend at once are together paid for by a full bucket and the refill. The cleanup
preserves it because of `IdleIsFull`, a refused request because it keeps the refill. The
refinement shows that `Funds` is a level that rises by the refill at each tick, up to the burst,
and that no other step but a request changes it. Multiplication by a constant rate is outside
what the solver decides, so the distributive facts are lemmas of their own.

`StorageProofs`: only temporary files are ever torn, a save that has written finds its chunk
in the temporary file, and one that has renamed finds it in the chunk's. With this every step of
the file store is a step of `ChunkMap` or changes nothing it can see, for any directories,
indices and contents (`StoreConstants`). Of the migrations it proves `SchemaInOrder`: the files
before one that is in the schema, or that a service is at, are recorded (`RecordedUpTo`), and a
service about to record a file finds it executed, whoever executed it (`MigratorConstants`).

Of the pool `NetworkProofs` shows that a caller about to insert holds a connection nobody else
is about to insert and the pool does not have; a caller past the pool holds the pool's. From
this, what is open
is exactly what the pool and those callers hold. For any nodes and callers (`PoolConstants`).
Of FindRoute, `AnswersAreRoutes`: while it walks, its hops avoid what it excluded and never go on
past the target (`SoundWalk`), and as long as no entry changed and no query failed each hop is
the table's, and the walk ended because of the bound, a missing entry or an exclusion
(`CleanWalk`); for any nodes and any MaxHops (`RoutingConstants`).

`TokensProofs`: a revoked token is blacklisted until it expires (`Covered`), and a token outside
`contended` is in one call at most, is revoked once it was rotated or is about to be, and if a
call has it again after that it has expired (`Single`). The expiry is needed: a token that
expires between a refresh's check and its validation leaves the blacklist at the same moment.
For any users, calls, lives and outages (`TokenConstants`, `NoTokenIsNone`).

`IdentityProofs`: friends, sessions and devices. For a pair that is not excused, a row or a
call about to insert one excludes both the other way round (`Seen`), and pairs are excused in
both directions at once (`FriendConstants`). A call that can still enter a closed session was
running when it closed (`SessionsInv`, under `SessionConstants`). What a pairing call has read
still holds when it writes, because accounts keep their devices and approval is never taken
back; and a code is in Redis, with one call, or in one device, never in two of these places
(`DevicesInv`, under `DeviceConstants`). The accounts keep their types.
Then the service as a whole: a step of `MCIdentity` is a step of each part or leaves it alone
(`IdentityStep`), so each part behaves as specified (`PartsBehave`), and its theorems carry
over (`IdentityTypesCorrect`, `IdentityIsSafe`).

`PlatformProofs` has the feeds first. `NothingMissed` speaks of the table, which changes at any
time, so it is not inductive; `WatchInv` speaks of what the handler holds instead. Between two
polls the subscriber was told what the handler knows, and while it sends, what it has sent
of the poll. A row the handler knows differently from the table then differs at the next poll.
`PeerWatchInv` is the same of discovery's stream, where there is one, with what the routing service heard and the
routes it wrote of it. Both are for any rows, peers, writes, failures and breaks
(`WatchConstants`, `PeerWatchConstants`). The rest is composition as in `IdentityProofs`:
`PlatformStep` and `ComponentsBehave` make each component's theorems hold of `MCPlatform`
(`PlatformTypesCorrect`, `FeedsAreComplete`, `PlatformIsSafe`, `PlatformImplements`), so what
TLC checks on the instance of section 3 is what is proved for every other. The fairness of a
component is not carried over, since no proof uses it.

Only model-checked: every liveness property (`Reopens`, `ServicesComeUp`, `WatchCatchesUp`,
`EventuallyVerified`), which needs fairness and ENABLED and
is beyond TLAPS. Every invariant, action property and refinement of the passing runs is proved.

## 6. Not modelled, and the plan

Left out of components that are otherwise modelled:

* `Evict` and `Close` of the peer pool: nobody calls the first, the second ends the process.
* RegisterRelay and the relay table: FindRoute does not read it.
* UpdateDeviceActivity, UpdateDeviceVisibility, UpdateAvatar and the presence heartbeat: single
  unconditional writes of columns on which no modelled step decides.
* The sending side of the libp2p protocol, which no command of the repository uses.
* The gateway's handlers that pass one request on, the commands of the CLI that are one request,
  and all queries that only read.

Left out for good: the scores and anomaly detection of `internal/intelligence` (floating point
statistics, of which nothing in the program ever records a sample: Record, RecordRelay and
RecordPing have no caller, so that no node is anomalous when it runs; `Routing` takes any set
of anomalous nodes), cryptography, configuration, logging, mail, metrics, none of which keeps
state that a step elsewhere depends on. About 16,000 of the 27,500 lines of Go are generated
protobuf and gRPC stubs, without behaviour of their own.

What could come next: the rows of an account's devices together with the sessions they are in
(`Devices` and `PeerSessions` composed over RevokeDevice), and `Delivery` over the `FileStore`
instead of over sets of chunk indices.
