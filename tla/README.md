# A verification project for Portscope

Portscope is a proxy for local development: it listens on one address per configured
upstream, speaks that upstream's protocol on both sides, and records every interaction for
a web interface. This directory holds TLA+ models of its core, the TLC configurations that
check them on small instances, and TLAPS proofs of their safety properties. `PROJECT.json`
maps every definition to the source lines it stands for and lists the runs, the hazards and
the theorems.

## The system

| Part (source) | State | Operations | Talks to |
|---|---|---|---|
| Runtime manager (`proxy/manager.go`) | `running`, `statuses`, one mutex | `Apply`, `Statuses`, `Close`, the goroutine `run` | starts and cancels adapters |
| Adapter life cycle (`Run` of each adapter) | a listening socket, a wait group of clients | listen, TLS set-up, `ready`, accept loop, drain | calls `ready` of the manager, returns an error to it |
| Configuration store (`config/config.go`, `runtime.go`) | `items`, the JSON document | `OpenStore`, `Get`, `Put`, `Delete`, `RuntimeList`, `MergeSecrets` | read by server and CLI |
| Management API (`server/server.go`) | none of its own | PUT, POST, DELETE of upstreams, DELETE of interactions, `/api/events`, health | store, then manager; observation store |
| CLI (`cli/cli.go`) | the root context | start, signal, shutdown | all of the above |
| Observation store (`observation/store.go`) | ring of interactions, journal file, subscribers' channels | `Record`, `List`, `Clear`, `Subscribe`, `OpenStore` | every adapter records, the API reads |
| Redis adapter (`redisadapter`) | per connection: a queue, three goroutines, three channels | authenticate, relay, answer locally, push frames | observation store |
| PostgreSQL adapter (`postgresadapter`) | per connection: tracker with a queue and a deferred error; cancel keys | startup and SCRAM, relay, track, cancel | observation store |
| MongoDB adapter (`mongoadapter`) | per connection: pending map, SCRAM conversation, three goroutines | handshake, authenticate both legs, relay | observation store |
| MySQL adapter (`mysqladapter`) | per connection: prepared statements, the sequence number, the stage of a reply | two logins, one command and its reply at a time | observation store |
| RabbitMQ adapter (`rabbitadapter`) | per connection: pending methods and unfinished contents of each channel, two goroutines | negotiate both legs, relay frames, inspect | observation store |
| HTTP adapter with WebSocket, gRPC and search profiles (`httpadapter`) | per exchange: two captures, an incremental framer, two copiers after an upgrade | reverse proxy, inspect, relay an upgrade | observation store |
| TLS assembly, build information, web interface | none that is shared | | |

What is hard here, and what makes each part correct:

* **Manager.** `Apply` takes its lock twice and waits unlocked in between for at most two
  seconds; processes report `ready` and their failure later, from goroutines of their own.
  No listener may escape from `running`, a replaced process may not touch its successor's
  status, sockets must be freed on every path, and two upstreams may exchange addresses.
* **Control plane.** Every handler makes several calls, each under another lock. Addresses
  must stay unique, only the affected listener may restart, a failed save must not be
  applied by accident, secrets that are "kept" must be kept, and nothing may survive
  shutdown although handlers still run.
* **Observation store.** Appends, compactions, truncations and restarts in any order must
  leave a journal that replays to what was shown, of bounded size, in spite of failures.
* **Protocol sessions.** Two or three goroutines share a connection: answers must stay in
  order or be matched with their request, local answers must not overtake the server's,
  nothing may reach the server before authentication, what is recorded must be what
  happened, and the goroutines must not wait for each other, nor stay behind at the end.
  Each protocol adds its own: a PostgreSQL cancel names a session of another connection, a
  MySQL reply does not say where it ends, AMQP interleaves the frames of many channels, and
  the bytes of a gRPC message arrive in pieces, perhaps after the call was answered.

## Modules

| Module | Models | Run by |
|---|---|---|
| `Manager` | `Manager.Apply`, `run`, `Close` and the life of an adapter's `Run` | `MCManager` |
| `ControlPlaneProofs` (with the manager's), `ObservationStoreProofs`, `RedisSessionProofs`, `MongoSessionProofs`, `PgSessionProofs`, `AmqpSessionProofs`, `MySQLSessionProofs`, `HttpExchangeProofs` | theorems about the module they are named after | tlapm |
| `ControlPlane` | extends `Manager` by the handlers, the configuration store, start and shutdown | `MCControlPlane` |
| `ObservationStore` | the ring, the journal, restarts, `/api/events` | `MCObservationStore` |
| `InteractionLog` | what the observation store promises: a bounded log without crashes | through `ObservationStore` |
| `RedisSession` | `handle`, `inspectRequest`, `dialUpstream` | `MCRedisSession` |
| `MongoSession` | `handleConnection`, the local authenticator, upstream authentication | `MCMongoSession` |
| `PgTracker` | `tracker` and the two relay goroutines that feed it | through `PgSession` |
| `PgSession` | extends `PgTracker` by `handle`, `acceptStartup`, both authentications, the cancel keys and `forwardCancel`, for several connections | `MCPgSession` |
| `MySQLSession` | `handle`, `authenticateUpstream`, the command loop, packets and the parser of replies | `MCMySQLSession` |
| `AmqpSession` | `negotiate`, the two relays, the inspector, the end of a connection | `MCAmqpSession` |
| `HttpExchange` | an HTTP exchange, a gRPC call or a WebSocket, from the handler to its record | `MCHttpExchange` |

Operators named `...Fault` are plausible mistakes in the definition they precede. They take
no part in the specifications; each property is known to fail when one of them is put in the
place of the original (`mutants` in `PROJECT.json`).

**Manager.** A process is named by its upstream and the call of `Apply` that started it;
that pair stands for the `done` channel the code compares. Each critical section is one
action: `ApplyStop` (up to the first unlock), `ApplyWaitDone` and `ApplyWaitTimeout` (the
select), `ApplyStart` (the second section), `CloseStop`, `CloseWait`, `CloseReturn`. A
process moves through `launched`, `bound`, `serving`, `draining`, `returned` and `done`, and
may fail at each step. An upstream is reduced to its address, its enabled flag, its protocol
and a token for everything else that `reflect.DeepEqual` compares. The five TCP adapters
share the shape of `Run`; the mapped lines are those of the Redis adapter. `Serialized` says
whether callers overlap: the API does not serialize them, so the general results are stated
without it.

**ControlPlane.** A request is a sequence of steps, one per call that takes a lock: read and
merge, `Put` (check, change, save), `RuntimeList`, `Apply`. A save may fail after the items
in memory were changed, as in the code. `dirty` is a history variable: the upstreams changed
in memory and not saved. The options of an upstream are the list of its write-only values: the
two passwords of a database or broker, or one for each sensitive header rule, named by its
group, action and header. `Public` blanks and marks them as `PublicUpstream` does, and a body
says which positions carry a marker. `MergeSecrets` takes values only from an upstream whose
settings are held by the same options of `config.Upstream`. `MergedValue` says what the loop of
`mergeRuleSecrets` gives each rule; an assumption of `MCControlPlane` compares it with that loop
for all lists of three rules with two names. `Put` rejects a body for its address, a missing
variable or a missing password the protocol requires.

**ObservationStore.** An interaction is its number. A line of the journal decodes to an
interaction or to nothing, and is too long for the scanner or not. An append ends in one of
five ways, among them a torn line and a line without its newline, onto which the next append
continues. `saved` and `compacted` are history variables saying which failures happened since
the file was last rewritten.

**RedisSession.** `handle` before the relay, the request goroutine, the response goroutine
and the main loop, with the channels between them and their capacities. A request is its
position in the client's pipeline; a frame names the request it answers, or none. A write to
the client has no deadline, and the goroutine that makes it is the one that watches the
context: `WriteBlocks` is a client that stops reading, and the write then goes through or fails
only by the client's doing.

**MongoSession.** The request goroutine, the upstream reader, which is started after the
adapter's own authentication, and the main goroutine that closes the connections and drains
what is pending. A connection that is closed fails every write, but a goroutine may still
find messages in its reader's buffer.

**PgTracker.** `frontend` and `backend` of the tracker with the queue of pending queries and
the deferred error; the server follows the extended-query protocol and skips to Sync after
an error. What became of each message at the server is kept as history, to compare with the
record.

**PgSession.** Several connections of one listener, each with a plan: what it sends before its
startup packet, whether it knows the password, or that it is a cancel request with the key
another connection was given. A handler is a phase per call that can fail. Local keys are
fresh, as 64 random bits are; the server hands out a process ID again as soon as its session
ended, with a new secret. The deferred calls of `handle` are steps of their own, in their
order, so that other connections see the states between them. The messages of one connection
are those of `PgTracker`, which this module extends; the others only hold a session.

**MySQLSession.** The one goroutine of `handle`, and the one that closes both connections on
cancel. `reply` is the parser of replies: each stage is the function of `result.go` that reads
the next packet, and `ReadReply` is one call of `stream.next`, which checks the sequence
number, passes the packet on and parses it. Numbers are counted modulo 4 instead of 256, so
that they wrap within one reply. A logical packet knows how many physical ones it takes. The
upstream is configured for plain TCP, TLS with verification or TLS without it
(`InsecureSkipVerify`), and its certificate is good or not. The commands the adapter refuses are
COM_CHANGE_USER, COM_BINLOG_DUMP and COM_REGISTER_SLAVE (`Intercepted`); COM_BINLOG_DUMP_GTID is
forwarded, and `Dumps` says whether the server may grant it with a stream of events. The
server chooses among replies of every shape: results in either EOF mode, several results,
errors before, between and inside them, prepared statements with and without parameters and
columns. It keeps its own statements, and what it did is kept as history.

**AmqpSession.** The steps of `negotiate` with the limits of both sides, TLS with the broker as
a step of its own, which has no deadline yet, and the virtual host the client asks for, which is
compared after the broker's login; then the two relays,
which read, write and observe a frame in three steps, and the main goroutine. Frames have an
identity, and a record is the set of frames it was made of, the request and the answer it
claims belong together, and for an answer recorded alone the request it really answers. Records
are a bag, because their order is of no interest and one
too many would be.

**HttpExchange.** One exchange. A body is a sequence of messages; the model counts its bytes
and cuts them into reads of any of the given sizes. `Feed` is one turn of the loop in
`grpcMessageStream.feed`, under the lock of the stream, so that the handler may finish the
call between two reads of the request. After an upgrade the two copiers forward frames, and
the handler waits for the first of them.

## Runs

| Run | Checks | Bounds |
|---|---|---|
| `manager` | no escaped listener, status of the current process, no stale live status, no leaked port; `Apply` returns and `starting` settles, a cancelled process frees its port | one upstream, five lists (two configurations, disabled, unknown protocol, removed), two overlapping calls, one client |
| `api_serial` | listeners and statuses are those of the file; only affected listeners stop; a start finds its address taken only after a timeout | two upstreams, two addresses, boot and two requests that do not overlap, saves and listeners may fail |
| `api_overlap` | nothing survives `Close`; the manager is used as `Manager` assumes (refinement); kept secrets stay, and none is taken from elsewhere | boot and two overlapping requests for two upstreams that want the same addresses; three header rules, two of one name; bodies as shown, with one rule kept and one changed, and of another protocol |
| `store` | journal replays to the ring; bounded; healthy means durable; refinement of `InteractionLog` until a file operation fails | retention 8 (a compaction every 2 writes), 12 interactions, 2 failures, one browser with a channel of 2 |
| `store_long` | violation, see Findings | 4 interactions |
| `redis` | order of answers, pairing, nothing before authentication; everything is answered; sessions and goroutines end | every pipeline of 3 requests and six of 4, with and without a password, queue of 2, channels of 1 and 2, one push frame, a client that may stop reading |
| `mongo` | the two legs stay apart, every request is recorded and none again after its answer, all goroutines end | every script of 4 over start, proof, wrong proof and command, four longer ones, credentials on either leg or none, 2 extra batches |
| `postgres` | records agree with what the server did and nothing is left after the last ReadyForQuery; a cancel reaches only the session it names; who is admitted; a cancelled context leaves no handler, session or key | three pipelined groups, or three cycles with any message rejected; one connection with seven openings, direct TLS or not, three kinds of client, TLS required or not; two sessions and two cancels that share two process IDs |
| `amqp` | requests are recorded with their own answers; every frame passed on is in exactly one record and messages are whole; logins and limits; the session ends and nothing is left pending | twelve scripts of up to five frames on two channels, one delivery, four sets of limits of the broker and nine of the client, TLS with the broker or not, the right virtual host or another, breaking connections |
| `mysql` | the parser finds the end of every reply; records say what the server did; a clear password goes only over the transport the configuration trusts, and clients stay behind their login; the session ends | four plugins, TLS or not on the client's side, plain, verified and unverified TLS on the server's with a good and a bad certificate, up to seven packets of login, every script of a prepare, two commands and an execute, four scripts of other commands, two statement numbers, packets of up to three parts |
| `mysql_long_ok` | violation, see Findings | two queries |
| `http` | messages and frames are taken out exactly; an exchange is recorded once and truly; it ends when a side leaves or the context is cancelled | bodies of up to three messages with empty and oversized ones, reads of 1, 2 or 4 bytes, a header of 3, captures of 3, limits of 2 |

Why the bounds suffice: the manager distinguishes processes only by "current or not" and
"mine or another's", which two calls exhibit (three with boot, in `api_overlap`); its safety
results are moreover proved for any number. Two upstreams and two addresses allow a clash, a
move and a swap through a failed save. Retention 8 is the smallest with a compaction
quota above one, and twelve records reach two compactions and a restart in between. The
queues and channels of the sessions are bounded below the number of requests, so that each
of them fills. Two process IDs for two sessions let one be reused while a cancel is on its
way. Two AMQP channels let a frame be credited to the wrong one, and the bodies are
shorter, as long as and longer than announced. The reads of a gRPC body end before, at and
after every boundary of a header and a message. The deadlock check is off everywhere because
each of these instances ends: a session is over, all calls have been made, or the store has
recorded its last interaction.

Fairness is weak fairness of steps the code takes by itself. In `Manager`: a started
goroutine proceeds, a cancelled context closes its listener, `Accept` on a closed listener
fails, and a select with a timer returns; clients may stay for ever. In `RedisSession`:
the goroutines run, the server answers what it was sent, and a write to the client goes through
unless the client has stopped reading; nothing makes it read again, and `SessionEnds` and
`AllAnswered` are about clients that read (`ClientReads`). In `MongoSession`: only the main
goroutine, and the others once both connections are closed. In `PgSession`: handlers run,
their setup has a deadline, and a relay ends once its connections are closed; a server is
never forced to answer. In `MySQLSession`: the handshake, which has deadlines, and the
goroutine when a connection it waits for was closed. In `AmqpSession`: the handshake, for the
same reason, except for TLS with the broker, which only a cancelled context has to end, and the
relays once the connections are closed. In `HttpExchange`: the handler,
the parser, and what a closed connection or a cancelled context wakes up; neither side is
forced to send. `ControlPlane` and `ObservationStore` state no liveness.

## Findings

* `store_long`: `Record` writes lines of any length; `OpenStore` reads at most 2 MiB per
  line and fails on a longer one. Two captured texts of 256 KiB grow several times when they
  are escaped as JSON, and then the program does not start any more.
* `mysql_long_ok`: `isEOFPacket` asks for fewer than nine bytes. When EOF packets are
  deprecated, rows end with an OK packet that begins with the same byte and is longer when it
  carries an info text or session state; it is taken for a row, and the adapter goes on
  waiting for the end of a reply the server has finished.

Other observations that no run is devoted to; the properties are stated so that they hold
without them, and their comments or the scripts of the run say where:

* Control plane: `applyConfiguration` takes the list of upstreams and calls `Apply` without a
  lock over both, so two overlapping requests can be applied in the other order and both
  report success while the listeners differ from the file; `RunsTheFile` is checked for
  requests that do not overlap. `Apply` does not restart an upstream whose configuration is
  unchanged, while docs/grpc-compatibility.md speaks of "reapplying".
* Secrets: docs/architecture.md:39 says that "edit requests merge unchanged secrets inside the
  store module", and docs/postgres-compatibility.md:27 that "Stored values survive an edit". The
  merge is done by the handler, between `Get` and `Put` and outside the store's lock
  (server.go:96): when two PUTs have both read the upstream and one stores a new password, the
  other, which keeps it, puts the older one back. `SecretsKept` holds however requests overlap
  for a PUT that merges with what is still stored; `SerialReadsAreFresh` says that without
  overlap every PUT does. Rules of one name, action and group are told apart by their order
  only (config.go:783): when an empty one precedes one that is set, or one of two is edited, a
  rule gets the other's value or none, so `Kept` is stated for lists without such gaps
  (`NoGaps`) and for names that occur once (`Single`). `validateRedis` takes a marker for a
  password (config.go:512): a POST with a username and only the marker is stored without either,
  and the next start refuses the document.
* Observation store: after an append that wrote part of its line, the next interaction is
  joined to that line and lost at the next start while health is reported as good;
  `HealthyIsDurable` excepts this line.
* Redis: a request that the server does not answer (CLIENT REPLY OFF or SKIP) stays at the
  head of the queue; the model's server answers every request. Until a client authenticated,
  `handle` does not watch its context; `SessionEnds` begins with the dial. Writes to the client
  (redis.go:191 and 212) have no deadline and are made by the goroutine that watches the
  context, so a client that stops reading holds `handle`, both connections and `Run` after a
  cancel, until it reads or leaves.
* PostgreSQL: the error of a Parse without an Execute is kept in `deferred` and, because
  ReadyForQuery returns early when nothing is pending, attached to the next query. A batch of
  several Executes of which one fails leaves the skipped ones in the queue. The scripts of
  `postgres` have one Execute per cycle that may fail. `forwardCancel` reads the answer to
  its SSLRequest without a deadline and without watching the context. Bytes a client sends
  together with its SSLRequest are lost when the connection is wrapped.
* MongoDB: a request is taken out of `pending` before its response is written to the client;
  when that write fails it is not recorded. If the connections close between `put` and
  `Write`, a request is recorded twice as failed. `RecordedOnce` excepts the first and is
  about requests that were answered in its second part.
* MySQL: the reply to COM_SET_OPTION is an EOF packet, which is taken for a result set and
  ends the session. The summary of a command with three results speaks of two, although its
  rows are those of all three. COM_STMT_EXECUTE with a cursor ends its definitions with an
  EOF packet and sends no rows; the adapter waits for them. The closing goroutine reads
  `client` while `handle` may replace it by the TLS connection. docs/mysql-compatibility.md:28
  says that the "SHA-2 full authentication sends a cleartext password only inside a verified TLS
  session"; it sends it inside any, also one without verification (tls.go:19).
  `CredentialsSafe` says what the code does: verified, or configured not to be. The same document
  says (line 33) that "`COM_CHANGE_USER` and replication commands are rejected"; mysql.go:181 and
  231 do not name COM_BINLOG_DUMP_GTID (0x1e), which is forwarded. When the server refuses it,
  nothing is lost; when it grants it, the first event is taken for an OK packet and the next
  command is read while the rest of the stream is on its way: TLC finds `InStep` violated with
  `Dumps = TRUE`.
* RabbitMQ: requests that were pending when their channel was closed stay in the queue of that
  channel number; if it is opened again the next answer of the kind is paired with the old
  request. `Paired` is checked for scripts that do not reopen a closed channel, and proved for
  those (`NoConfirm`); a proof without this condition fails at exactly this point. A second header
  on a channel that announces no bytes, while a message of it is open, ends that message as ok
  whatever its bodies were (inspect.go:143); `Accounted` is checked and proved for scripts
  without one (`Headed`). docs/rabbitmq-compatibility.md:7 says of the client's username, password
  and virtual host that "Only after that succeeds does Portscope send the independently configured
  broker username/password"; the virtual host is compared (handshake.go:160) after the broker's
  login was sent (line 124), so a client with the right password and another virtual host makes
  the adapter log in. `IdentityKept` demands the password before the login and the virtual host
  before the broker's is opened. The TLS handshake with the broker (line 85) runs before the
  deadline is set on that connection (line 91), under a context without one: a broker that accepts
  and stays silent holds the handler until a cancel.
* HTTP: an upgrade whose 101 cannot be written leaves no record. A response cut off in the
  middle ends cleanly for the client, which is recorded as an error. When the server answers
  a call before it has the request, the call is recorded at once, perhaps as an incomplete
  message, and messages follow it in the journal; the capture is then read and written by two
  goroutines without a lock. `Run` returns after three seconds of Shutdown even when handlers
  are still blocked in a write to a client that does not read.

## Proofs

The theorems hold for every value of the constants: any number of upstreams, calls,
connections, channels and requests, any script, every size of a queue. Each proof begins with
types and then adds what the property needs to be inductive; TLC checked every part of
these invariants on the runs' instances before it was proved. A module defines its invariant
before its first lemma.

| Module | Theorem | States | Under |
|---|---|---|---|
| `ControlPlaneProofs` | `TypeCorrect` | `Spec => []TypeOK` | |
| | `NoListenerEscapes` | `Spec => []NoOrphan` | |
| | `StatusIsOfCurrent` | `Spec => []StatusOfCurrent` | |
| | `NoPortIsLeaked` | `Spec => []NoPortLeak` | |
| | `LiveStatusIsTrue` | `Spec => []LiveStatusHasProcess` | |
| | `ManagerImplemented` | `CPSpec => ImplementsManager` | `StoreLists \subseteq Requests` |
| | `NoneSurvivesClose` | `CPSpec => []NothingSurvivesClose` | the same |
| | `ListenersFollowFile` | `CPSpec => []RunsTheFile` | and `Serialized` |
| | `OnlyAffectedListenersStop` | `CPSpec => OnlyAffectedStops` | and `Serialized` |
| | `KeptSecretsStay` | `CPSpec => SecretsKept` | the same |
| | `SerialReadsAreFresh` | `CPSpec => []ReadsAreFresh` | and `Serialized` |
| | `ConflictsNeedTimeouts` | `CPSpec => []ConflictNeedsTimeout` | and `Serialized` |
| `ObservationStoreProofs` | `RestartShowsTheSame` | `Spec => []ReplayShowsItems` | |
| | `JournalStaysBounded` | `Spec => []JournalBounded` | |
| | `HealthMeansDurable` | `Spec => []HealthyIsDurable` | |
| | `StoreImplementsLog` | `Spec => ImplementsLog` | |
| `RedisSessionProofs` | `NothingIsSentBeforeAuth` | `Spec => []NothingBeforeAuth` | |
| | `PipelineKeepsOrder` | `Spec => []AnswersInOrder` | `PushTypes \subseteq {"push"}` |
| | `ObservationsAreCorrelated` | `Spec => []Correlated` | `PushTypes \subseteq {"push"}` |
| `MongoSessionProofs` | `LegsStayApart` | `Spec => []LegsApart` | |
| | `RequestsRecordedOnce` | `Spec => []RecordedOnce` | |
| `PgSessionProofs` | `CancelsReachTheirOwn` | `SessionSpec => []CancelsOwn` | |
| | `OnlyAdmittedReachServer` | `SessionSpec => []Admission` | |
| | `ObservationsAreTrue` | `SessionSpec => []Truthful` | `Followable` |
| | `ExchangesSettle` | `SessionSpec => []Settled` | `Followable` |
| `AmqpSessionProofs` | `BrokerKnowsOnlyTheAdapter` | `Spec => []IdentityKept` | |
| | `AnswersFindTheirRequests` | `Spec => []Paired` | `NoConfirm` |
| | `EveryFrameIsAccounted` | `Spec => []Accounted` | `NoConfirm` and `Headed` |
| `MySQLSessionProofs` | `PasswordStaysInsideTLS` | `Spec => []CredentialsSafe` | |
| | `RepliesStayInStep` | `Spec => []InStep` | `LongOK = FALSE`, `Dumps = FALSE` |
| | `RecordsAreTrue` | `Spec => []Truthful` | `LongOK = FALSE`, `Dumps = FALSE` |
| `HttpExchangeProofs` | `FramesAreExact` | `Spec => []FramesExact` | |
| | `RecordIsTruthful` | `Spec => []RecordTruthful` | |

The last column is what a theorem assumes besides the assumptions of the specification's module.
`StoreLists \subseteq Requests` says that the manager takes every list with unique addresses,
as the code does. `Serialized` says that requests do not overlap; without it these
properties are false, see Findings. `PushTypes \subseteq {"push"}` says that only RESP3 push
frames come unasked. `NoConfirm` says that the client does not reopen a channel the broker
closed; without it `Paired` is false, see Findings. `Headed` says that a content header which
announces no bytes does not come after bodies of a message of its channel that is still open:
without it `Accounted` is false, see Findings. `Followable` is about the script of the
client: simple queries that all succeed (`Plain`), groups of the extended protocol in which
nothing fails, each up to its Sync (`Extended`), both pipelined or not, or, from a client that
awaits ReadyForQuery, cycles of one query each that may fail at any message (`OneByOne`). It
leaves out pipelines in which a query fails: the server skips the rest of the group without a
word, and the tracker, which pairs by order, takes the next ReadyForQuery for the query at the
head of its queue. `LongOK = FALSE` says that no OK packet of nine bytes or more ends the rows
of a result; `isEOFPacket` does not know one, see Findings. `Dumps = FALSE` says that the server
refuses COM_BINLOG_DUMP_GTID; the adapter forwards it and does not know the reply, see Findings.
The runs' instances satisfy all of
them, except that `api_overlap` gives its manager only the lists its requests can form. The assumption
of `PgSession` that `MaxAttempts >= 3` is the loop bound of
`acceptStartup`; with a smaller one a driver that tries GSS before TLS would be turned away.

**Manager.** The inductive invariant is

    Base == TypeOK /\ Fresh /\ Configured /\ RunningExists

`Fresh` says that the process a call will start is unused until that call has started it;
without it `ApplyStart` could overwrite a live process. `Configured` says that a started
process has a configuration, so that its address is one. `RunningExists` says that an entry
of `running` is a started process of that upstream. With `Base`, each property is inductive
by itself: `NoOrphan` because whatever leaves `running` is cancelled in the same step or has
ended; `StatusOfCurrent` because the steps of a process write only when it is the current
one, and move it along the order of phases (`RunStepPhase`, `NotReadyNotServing`);
`NoPortLeak` because only `Listen` takes an address, and each way out of the phases that
hold one releases it; `LiveStatusHasProcess` because a step that removes an entry either
writes the status or belongs to a call still under way. Lemmas about the steps of a process
(`RunStepFrame`, `RunStepWrites`, `RunStepBound`) and of `ApplyStart` (`StartFrame`) are
shared by the four proofs.

**Control plane.** `APIInv` says that the store, and every list that is taken from it and not
applied yet, has unique addresses; so each step of the API is a step of `Manager` or none, and
the theorems about `Manager` hold below the API. `ShutdownInv` says that whatever exists once
the root context is cancelled is cancelled, which holds before `Close` begins and is kept by
calls of `Apply` that come after it. When requests do not overlap, `SerialInv` says how memory,
file, the list being applied and the running processes differ at each step of the one request
under way, and that `dirty` names exactly the upstreams in which memory and file differ.
`KeptSecretsStay` needs no more than `APIInv`: the work is in `MergeKeeps`. The n-th marked rule
of a name takes the n-th stored value of that name; in a body as it is shown the marked positions
of a name are all of that name (`NoGaps`), so each takes its own (`ResentKept`), and a name that
occurs once on both sides has one candidate.

**Observation store.** The journal is only appended to, emptied or replaced. `DecodeAppend` and
`DecodeEncode` say what these do to the interactions it decodes to, `NewestAppend` that keeping
the newest of all of them, or of the newest and the next, is the same. `BoundInv` counts how far
the journal is ahead of the ring: not at all until the ring is full, then by the writes since the
last compaction.

**Redis.** Every request that was read and not answered has one place: the queue, then the
channel `commands` and then the request goroutine hold consecutive requests, from the one after
the last answer to the last one read (`PlacesInv`). Those in flight (to the server, back, or in
`responses`) are exactly those of the queue that Portscope does not answer itself, in rising
order from the client's end to the server's (`FlightInv`). So when the main loop selects with no
local answer due, the frame it receives answers the head of the queue.

**MongoDB.** The request goroutine is alone with the server until it authenticated (`LegInv`),
which it begins only for a command of a client that completed a conversation (`ProofInv`). Every
request that was read is in one hand: the request goroutine has it, it is pending, the upstream
reader holds its response, or it is recorded (`KeptInv`); one that was recorded with its response
left all the others (`OnceInv`), since a response is on its way only for a request that was
written (`SentInv`).

**PostgreSQL.** The map of cancel keys holds the server's key of every session between Register
and Unregister and nothing else (`KeysInv`), and what a cancel connection looked up is the key of
the session it names, whose secret no later session gets (`CancelInv`). `StartupInv` says how
far the loop of `acceptStartup` has read and whether TLS is on by then.

For the tracker, `Tallied` says that every query sent so far is pending or recorded, and that a
record is true already, or is an error of a query the server is about to skip (`Honest`). Which
answer belongs to which query takes a different argument for each form of script. Simple queries
get two answers each, so the length of what is on its way back tells how many of the pending
queries were served (`PlainInv`). In a clean extended pipeline each message has one answer, so
`Got`, the number of answers that reached the tracker, says which Executes are pending, in order
(`ExtendedInv`). A cycle that may fail goes through stages: `Preparing`, then `Completing` and
`Completed`, or `Failing` and `Told`, where the error is deferred to an Execute yet to come, taken
over by it, or recorded (`OneByOneInv`). There `Counted` relates the ReadyForQuery messages the
client saw to the cycles it began, which is what makes the cycles follow one another.

**RabbitMQ.** For `IdentityKept`: nothing is held or on its way before the relays start and after
they are told to end (`PhaseInv`), a frame about to be written was checked (`CheckedInv`), and
the login, the virtual host and the limits are agreed on by then (`AgreedInv`).
For `Paired`: a request is filed before it is written, so it is pending while it or its answer is
on its way (`FiledInv`); the answers of a channel come back in the order of their requests
(`OrderInv`); requests are filed and taken in rising order (`RisingInv`); and no request is pending
before one that is being answered unless its answer is on its way too (`NoGapInv`), for which a
closed channel has to stay closed. Together they say that an answer finds its own request at the
head of the channel's queue (`MatchFacts`), although the code searches the queue by method.

For `Accounted`, every frame the inspector was told of is in one place, a record, a queue or an
unfinished content (`ApartInv`), and a frame that a relay holds or that is on its way from the
broker is in none (`FreshInv`). `ObserveCase` says that a frame does one of four things: it is an
`Event` of its own, begins, grows or finishes a content; each moves frames between places without
making a copy (`Ledger`). What was passed on is in a place unless its relay is about to observe
it, and an answer's request is recorded with it or in a content that will be (`PassedInv`). At the
end the queues and contents are empty (`EmptyInv`) and no relay observes, so the place is a
record. `MessageInv` is about the bytes: the count of a content is the number of bytes of its
bodies, its header is among its frames, and no later method has begun a message on its channel.

**MySQL.** Nothing is sent for a client before its login, nothing to authenticate before the
transport is chosen and, where the configuration asks for it, secured and verified, and no
command before the authentication is over (`OrderInv`).

For the replies, `Step` is the parser as a function of its state and one packet (`AfterIsStep`),
and `Leads` says that the packets on their way, all of them and no more, take the parser from
where it is to the end of a reply. Every reply of the server does so from the first stage, and
with it goes what the parser counted on the way (`Reads`, proved packet by packet from the end of
the reply: `ResultRead`, `PreparedRead`, `RepliesFit`); a packet that is read leaves a shorter
trace (`LeadsTail`). `Chained` says that these packets are numbered on from the one expected.
Commands without a reply wait for the server while the adapter reads the next ones, so the two
sides' statements agree only once the server has caught up: `Course` follows the effect of the
waiting commands, `Agree` compares its end with what the adapter knows. `Hearing` combines them
for a reply on its way, `Honest` is what a record keeps afterwards: its command has left the
queue, so what the server did does not change any more.

**HTTP.** The position at which a frame ends is a sum over the frames before it, a recursive
function; `SetInduction` is induction over the naturals for a set instead of a predicate (the
library's form has an operator as its parameter, which the provers cannot instantiate), and from
it follow `EndsExist`, `EndsAgree`, `EndStep` and `EndMonotone`. The invariant `Parsing` says that
the parser is where the bytes are: it has whole frames and of the next one part of the header
(`Between`), or the header and part of the payload (`InFrame`); the exception is a response whose
parser was fed the text of an error (`Misled`). `Flowing` says that what was counted was sent on
unless the copy failed, `Delivered` and `Known` what a handler that is about to record can rely
on, and `Blamed` that a stream is flawed for a reason. `AtEnd` combines them: a call that is
complete on both sides was parsed to its end.

Model-checked only: the liveness properties, since fairness is out of the prover's reach. Every
invariant that a passing run checks is proved.

## Not modelled

* Field validation but for the address and the required passwords, migration and decoding of the
  configuration; two raw options that expand to the same value are taken as different.
* Rendering, redaction and truncation of payloads, the search profile included; the RESP, BSON
  and AMQP argument decoders and the binary values of MySQL; protobuf descriptors.
* Cryptography: a proof, a password or a certificate is right or wrong.
* Loss of unsynced file contents at a power failure.
* Read-only operations: `Statuses`, `List`, the GET handlers; assets and same-origin checks.
* `Run` of the HTTP adapter, which delegates its accept loop and its shutdown to net/http.
* The statement and portal maps of the PostgreSQL tracker, and sessions that pipeline a simple
  query behind an extended group that failed.
* MongoDB clients that reuse a requestID in flight, and servers whose responses name anything
  but the request they answer.
* Peers that break their protocol in ways other than the malformed frames, packets and
  sequence numbers the code checks for.

## Plan

The core and the six protocol adapters are modelled, and every safety invariant of the runs is
proved. What would extend the project, in this order: the statement and portal maps of the
PostgreSQL tracker, with pipelines in which a query fails; the search profile; and the checks of
the configuration's fields.
