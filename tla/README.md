# GDPRuler: verification project

GDPRuler puts a *controller* in front of an untrusted key-value store (redis or
rocksdb).  Clients send queries in a small language; the controller keeps GDPR
metadata in front of every value, checks each query against them, logs
operations on monitored pairs and lets a regulator read the logs.  This
directory holds TLA+ models of the controller and of the way from a client's
socket to the database, TLC configurations that check them on small instances,
and TLAPS proofs of the main results for all instances.  All paths below are
relative to `src/controller/source/` unless they start with `src/`.

## 1. Inventory

| Component | Source | State | Operations | Hard parts |
|---|---|---|---|---|
| Controller threads | `controller.cpp` | per thread: policy, query, what was read, verdict, new value, response | accept, receive policy, receive query, `handle_get/put/delete/get_metadata/put_metadata/get_logs`, reply | detached threads without any lock between the read and the write of the store; no exception is caught, so one query can end all sessions |
| GDPR filter | `gdpr_filter.cpp` | none | `validate` (owner or shared, purposes, objections, expiration), `check_monitoring` | the clock is read while the query is under way |
| Query rewriter, metadata | `query_rewriter.cpp`, `gdpr_metadata.hpp` | none | insert, update, putm; cut off or keep the metadata | values are searched for the last or the ninth `\|`, and client values may contain it |
| Monitor, regulator | `logging/monitor.hpp`, `gdpr_regulator.cpp`, `logging/log_common.hpp` | none | decide to log, check the regulator's key, list and format logs | the decision uses metadata read earlier; formatting throws |
| History logger | `logging/logger.hpp` | stream per key, mutex per key, list of used keys, fd mutex | `log_encoded_query`, `log_decode`, `get_or_open_log_stream`, `close_older_fd` | two kinds of mutex, eviction with `try_lock`, buffered writes, limit of open files |
| Query parser | `query.cpp`, `query.hpp` | the parsed query | predicates, options, purposes | throws on what it does not know; delimiters are not escaped |
| Default policy | `default_policy.cpp` | the session's policy | parse, `check_policy` | throws on a missing option |
| KV clients | `kv_client/*.hpp` | one connection per thread | get, put, del, getm, putm, encryption around them | an error and a missing key look alike; a lost connection is an exception |
| rocksdb server | `rocksdb_server/*` | the database, one session thread per client | (de)serialise, execute | the value of a `putm` message; requests that outlive their sender |
| Framing | `common.hpp` | receive buffer of a thread | size header, `safe_sock_send/receive` | limit, zero and short reads, the terminator behind a full buffer |
| Cipher engine | `encryption/*` | keys | encrypt, decrypt | library calls |
| Native controller | `native_controller.cpp` | per thread: buffer, query, response | accept, receive, get, put, delete, reply | the baseline: no GDPR logic, the same sockets, parser and store |
| Direct client, test driver | `direct_kv_client.cpp`, `test_kv_client_driver.cpp` | none | calls of `kv_client` | not modelled |
| Client scripts, policy compiler | `src/scripts`, `src/policy_compiler` | - | send a query, wait for the answer | the environment |
| Evaluation, benchmarks, VM set-up | `src/evaluation`, ... | - | - | not part of the running system |

Interactions: a client owns one TCP connection, served by one thread, and waits
for each answer before it sends the next query.  A thread owns its connection
to the store.  Threads meet in the store, in the singleton logger and in the
fate of the process.

What makes the parts correct:

* controller: a query takes effect or is refused as one step, judged by the
  metadata of the pair it replaces, and between clients that share a key at least
  by one state of the pair, not by a mixture; only `putm` changes metadata; what changes
  a monitored pair is in the log first; every query is answered;
* filter: an expired pair is out of reach for everyone, never comes back to life, and
  is erased some day;
* logger: no entry of an operation is lost, doubled or reordered, and the limit
  of open files is kept;
* regulator: the log can be read, and it tells what happened to the pair;
* store clients, server and framing: a query is executed at most once, its answer
  is its own, and nobody waits for an answer that will not come;
* texts: what is read is what was written, or it is known for which contents it
  is not.

## 2. Modules

| Module | Models |
|---|---|
| `GDPRPolicy` | the pure part: metadata, `validate` and its checks, the three rewriters, the two views of a value, the decision to log, the regulator's formatting |
| `GDPRController` | the threads: one action per access to something shared |
| `GDPRStore` | the abstract specification: a store that carries out each query in one step |
| `GDPRSharedKeys` | the controller with what clients that share keys make of it: what a query may have seen, and writes that land after their process |
| `MCGDPRController`, `MCGDPRSharedKeys` | the instances for TLC |
| `GDPRControllerProofs` | types of the policy operators, type correctness; expired pairs are never revived |
| `GDPRIsolationProofs` | what clients that do not share keys may rely on; the controller implements `GDPRStore` for them |
| `GDPRAuditProofs` | the log and the store; what clients that share keys may rely on |
| `LogFile` | what a log file holds after a crash, and what decoding finds in it |
| `HistoryLogger` | the logger: stream cache, mutexes, eviction, buffered writes |
| `AuditLog` | the abstract specification: one append-only sequence per key |
| `MCHistoryLogger` | the instances for TLC |
| `HistoryLoggerProofs` | streams in use are open, single and found by evictions |
| `HistoryLogProofs` | types of the logger, it implements `AuditLog`, the limit of open files |
| `Text` | strings as sequences: `find`, `rfind`, `substr`, splitting |
| `QueryText` | the query parser and the conversions of purposes, numbers and booleans |
| `StoreMessages` | requests and responses of the rocksdb server, what it does with them, encryption around them |
| `NativeController` | clients, framing, buffers, threads of the native controller, store connections, server sessions, database |
| `KVService` | the abstract specification: a map with one call per client |
| `MCNativeController` | the instance for TLC |
| `NativeControllerProofs` | one request per store connection, stored pairs were sent, types, it implements `KVService` |
| `LogText` | the text of a log entry, operation codes, names of log files |
| `ValueText` | a stored value as the flat text with `\|` between the fields |
| `Formats` | every text between its writer and its reader |
| `TextProofs` | what searches, parts, splits and the parser's fold compute on texts of any length |
| `FormatsProofs` | which contents survive each format; the records of `GDPRPolicy` are what the code reads from the flat text |
| `MCFormats` | the instance for TLC |

### State

A stored value `usr|encr|pur|obj|org|exp|shr|log|value` is the record
`[meta, val]`.  `val` is the sequence of `|`-separated tokens after the eighth
delimiter, because the code finds fields by searching for `|` and clients may
put it, or nothing at all, into a value.  Purposes and objections, bit sets in
the code, are sets.  `None` stands for `std::nullopt`: a missing pair or an
absent predicate.  `Undecodable` is the empty string that a `putm` leaves in an
unencrypted rocksdb store.  The code looks for the session key in the parts of
`shr` between commas, and the text "" has one part, which is "": `EmptyUser` is the
user whose key is empty, and passes where nothing is shared.

| Variable | Code |
|---|---|
| `db` | contents of redis or rocksdb |
| `audit`, `durable` | the log of each key, and how much of it has left the process's buffers |
| `now` | `system_clock`, in seconds |
| `up`, `restarts` | the process |
| `pc[c]` | where the thread of connection `c` is |
| `policy[c]`, `qry[c]`, `res[c]`, `valid[c]`, `new[c]`, `resp[c]` | `def_policy`, `query_args`, `res`, `is_valid`, `rewriter.new_value()`, the response |
| `todo[c]` | log files that `handle_get_logs` has still to read |
| `served[c]`, `since[c]` | history variables: the query's number and when it was received |

### Actions

`Fetch`, `Validate`, `Rewrite`, `Monitor`, `Apply` and `Reply` are the steps of
the five store handlers, in the order of the code: the log entry is written
before the store.  They are separate because each touches something shared:
store, clock, clock again, log, store, socket.  `ListLogs`, `ReadLog` and
`EndLogs` are `handle_get_logs`.  `FetchUndecodable`, `ReadLogThrows`,
`AcceptBadPolicy`, `ConnectFails`, `ReceiveMalformed` and `StoreLost` are the exceptions: each
ends the process (`Terminate`), closes every session and loses any suffix of
the log that was not flushed.  `ApplyFails` is a refused write or a failed
encryption; `FetchResults` includes the failed read, which the code cannot tell
from a missing key.  `Restart` is the operator, `Tick` the clock.  The regulator's
time stamp is the number of entries at `ListLogs`; an entry takes its own stamp
before it is written, under the key's mutex, so that one more entry may count as
older (`Decoded`).

`GDPRSharedKeys` adds two variables.  `held[c]` is a history variable: all that the
store held under the key of the query of `c` since the query came.  `late` holds
writes whose process ended while they were under way (`Leave`): the session of the
store takes what is in its socket also when the sender is gone
(`rocksdb_server/server.cpp:65`), at any later time or never (`Land`).

### The history logger

`HistoryLogger` takes apart what `GDPRController` sees as `audit` and `durable`.

| Variable | Code |
|---|---|
| `exists`, `disk[k]` | the log files and what has reached them |
| `fdMutex` | `m_fd_mgmt_mutex` |
| `mutexes`, `owner[k]` | `m_keys_to_mutexes`: its keys, and who holds the key's mutex |
| `files[k]`, `streams` | `m_keys_to_log_files`: key to stream, and every `std::fstream` made, since a thread can keep one (`shared_ptr`) that is closed or no longer cached |
| `used` | `m_used_keys` |
| `pc[t]`, `call[t]`, `handle[t]`, `cursor[t]`, `entries[t]` | where the thread is, its call, `log_file`, the iterator of `close_older_fd`, the result of `log_decode` |

`log_encoded_query` runs through `LockFds`, `Lookup`, perhaps `TryEvict`,
`CloseOlder` and `OpenStream`, then `FindMutex`, `LockKey`, and, if its stream was
closed in between, through `get_or_open_log_stream` once more; it ends with
`Write`.  `log_decode` runs through `CheckExists`, `FindMutex` and `LockKey`, then
`get_or_open_log_stream`, and ends with `Read`, which flushes.  `TryEvict` is one
round of the loop, so that other threads can take mutexes between rounds.
`OpenFails` keeps a closed stream, as the constructor of `std::fstream` does not
throw; `CloseNull` is the null pointer that this may lead to, which ends the
process.  `Crash` is the end of the process for a reason outside the logger.

A buffered stream may write any part of its buffer out before a crash, also the
size of an entry without its bytes: `Parts`.  Decoding finds entries by their
sizes, so that everything after such a `Torn` entry is garbage (`Readable`).  That
the garbage may end the process instead is covered by `Crash`.

### From the socket to the database

`NativeController` models the controller without GDPR logic together with the
parts that it shares with the GDPR controller.  `GDPRController` takes these
parts as given: there a query arrives parsed and a store access is one step.

| Variable | Code |
|---|---|
| `client[c]`, `inbox[c]` | the client, and its message on the socket: size header and the bytes that were sent |
| `pc[c]`, `cmd[c]`, `resp[c]` | where the thread is, `query_args.cmd()`, `response` |
| `buf[c]` | the mapped receive buffer; `next` is the buffer that the terminator of a full one was written to |
| `link[c]`, `req[c]`, `rsp[c]` | the thread's connection to the server and what is on it |
| `late` | requests in sockets of the server whose sender has gone |
| `db`, `cipher` | the database, and the key of the build or `Plain` |
| `up`, `restarts`, `losses`, `sends` | the process, and counters of the bounds |

A thread runs through `Receive`, `ParseQuery`, `Collect` and `Reply`; a session of the
server through `Serve`.  A message is deposited over the previous one and ends at
the first zero.  With exactly `max_msg_size` bytes the terminator is written behind
the buffer: mapped buffers are pages of their own, so that it falls on memory
nobody reads, on the first byte of another thread's buffer, or on no page at all
(`ReceiveFaults`); the text then goes on in the other buffer, which may have been
unmapped by the time it is parsed (`ParseFaults`).  `Leave` is the client that goes
away: what it had sent of a message is received as if it were whole.
`ConnectFails`, `ParseThrows`, `StoreLost` and the two faults end the process.
`LoseLink` breaks a connection to the server, and what is on it arrives or not.

### Texts

`Formats` has one text under way: an item is chosen, written, perhaps cut short,
and read.  The properties are equivalences: they say for which items the reader
gets what the writer meant, and thereby name every content that does not survive.
A stored value is written by a sequence of insertion, updates and putm, as the
flat text and as the record of `GDPRPolicy`, and `RecordsAreExact` says that the two
agree as long as no `|` was ever written into the metadata, and never agree while
there is one.  That justifies the records of `GDPRController`, whose users and
origins contain no `|`.

The items are constants over an alphabet `Elements`, and named assumptions say which
ones the code can have: an option of a query is one that the parser knows, with a
value that its reader takes (`QueryAssumption`); a request has a command of the
server and a cipher of one element (`RequestAssumption`); a log entry has an
operation with a code (`LogAssumption`); purposes, objections and the expiration of
a pair are written as numbers, a putm never changes `encr`, and the expiration that
it computes, the sum of a number and the clock, is left out (`ValueAssumption`).

A text is a sequence whose elements are delimiters, digits and words; a word is
one element if no reader looks into it.  Longer names that begin with a shorter
one (`GETM`, `objPurIs`, `getLogs`) are two elements, and a cut inside a word leaves
`Fragment`, which is no word of the language.

### Abstract specifications

`KVService` knows a map, the call of each client and the calls that were given up.
A call is performed in one step or refused by the store.  A call whose connection
or controller is lost before it was performed strays, and may land once, at any
later time, also after a restart: this is all that `Serve` and `ServeLate` may do.
The mapping takes the readable pairs for the map, what is on a thread's store
connection for its call, and `late` for the strays.

`AuditLog` knows one sequence of entries per key and how many of them are safe
from a crash.  A log call appends its entry in one step between its start and its
return; a decode returns the log as it is in one step, and makes it safe; a crash
leaves the safe entries and any part of the rest.  Under the mapping `Log` the
sequence of a key is its file followed by the buffer of its cached stream.

`GDPRStore` knows the store, the session's policy, the query and its answer.
`Perform` carries a query out in one step, with both readings of the clock
somewhere between its arrival and that step.  `Crash` may carry out one write
whose answer is lost, and never half of one.  `Promise` in `GDPRController` is
the refinement mapping: `Fetch` to `Monitor` stutter, and the step that fixes
the answer is `Perform`.

## 3. Runs

Runs of `MCGDPRController` have two connections, one or two keys, users alice,
bob and the regulator, two purposes, values `x` and `x|y`.  Runs of
`MCHistoryLogger` have one or two threads, one to three keys and, apart from
`logger_mutex_map`, room for one open file.  `MCNativeController` has two clients, one
that reads and sends what is refused or at the limits, and one that writes.
`MCFormats` has texts of up to three letters and delimiters, and queries with every pair
of ten options, the same one twice included.

| Run | Result | Shows |
|---|---|---|
| `controller_partitioned` | pass | two sessions on keys of their own, with refused writes, lost store connections and a restart: `PutKeepsMetadata`, `EffectAuthorised`, `MonitoredChangeAudited`, `ExpiredNeverRevived`, and `ImplementsStore` (atomicity) |
| `controller_shared` | pass | two users on one key, with refused writes, lost store connections, a restart and writes that land behind it: `EffectDecided` and `AnswerDecided` (verdict, monitoring and result come from one state of the pair) |
| `audit_trail` | pass | on an unencrypted rocksdb store, with failed reads, a regulator, and policies, queries, pairs and log entries that end the process: `AuditReflectsStore` (until the first end of the process, the last accepted write in the log produced what the store holds) and `EveryQueryAnswered` |
| `logger_streams` | pass | two threads log and read two keys, with a crash: `WritesLand`, `NoNullStream`, and `ImplementsLog` (no entry is lost but by a crash, doubled or moved) |
| `logger_faults` | pass | files fail to open and a file name is misread: `OneStream`, and `EveryCallReturns` (no deadlock) |
| `logger_limit` | pass | `OpenFilesBound`: with three keys and logging threads only, the limit is exceeded by keys in use at most; it does not hold if logs are read as well |
| `native_store` | pass | both builds, with messages at and above the limit, clients that leave, refused operations, a lost connection and a restart: `OneRequest` (no response is taken for another query's), `StoredPairsWereSent` (no message is mixed with the one before it), `ImplementsKV` (each query is executed at most once, its answer is its own), `EveryClientReleased` |
| `formats` | pass | `QueryReadsBack`, `PurposesReadBack`, `RequestReadsBack`, `EntryReadsBack`, `FileKeyReadsBack`, `ValueReadsBack` (exactly which contents survive), `CutQueryIsShorter` (what a part of a query can do), `RecordsAreExact` |
| `insert_race` | violation | two insertions of one key: the second replaces the first one's pair unchecked |
| `regulator_reads` | violation | reading the log of an ordinary put ends the controller |
| `logger_mutex_map` | violation | a thread looks for its key's mutex in the map while another one inserts into it |
| `logger_torn_entry` | violation | after a crash that leaves half an entry, what is logged later cannot be read |

The violations are the `findings` of `PROJECT.json`, each with the comment or
document that it contradicts.

**Bounds.** `MaxQueries` bounds the queries of a connection.  Three on one key
are enough for create, change and remove or read, and the restart starts over
with what is left of them; two sessions are enough for every race, since a
handler reads and writes one key once.  In `controller_shared` the owner's three
queries change the pair under one query of the other user, which reads it at any
place between them.  `MaxTime` is 3 where expiration
matters: a pair written at 1 with one second to live is valid at 2 and expired
at 3, so that both sides of `<=` happen.  `MaxRestarts` is 1: a process that
was restarted differs from the first one only in what store and log hold.
In the logger `MaxCalls` is 2 and `MaxOpen` 1: with two threads and two keys a
stream can be evicted between a thread's two looks at it, opened again by the
other thread and evicted once more.  `OpenFilesBound` needs a third key, since two
threads may hold two.  A failed open needs a third call to be noticed, which
`logger_faults` has with two threads.
`MaxCrashes` is 1 for the same reason as `MaxRestarts`.

In `native_store` `MaxSends` bounds the messages of both clients together.  Two are
enough for one message over another in a buffer, for two requests in the server
at once, and for a late request that meets a newer write after the restart.
`max_msg_size` is the length of one of the texts, and another one is an element
longer.  `Breaks` is where a message may be cut: behind the `&` of a query, where it
throws, which in a put is inside the value, so that the put is executed without
it.  Every other place is covered by `formats`, which cuts each query everywhere.
`MaxLosses` and `MaxRestarts` are 1.  In `formats` `MaxWrites` is 4: one write leaves a
remnant of a value with `|`, the next one keeps it, and a putm joins it before
another put.

**Deadlock.** `CHECK_DEADLOCK FALSE`, because a client may stay away for ever
and a run ends when the bounded queries and ticks are used up.

**Fairness.** `FairSpec` has weak fairness of `Work(c)` for each connection:
threads are detached and scheduled preemptively, and a blocking call to the
store or a socket is assumed to return or fail.  Nothing is assumed of clients,
the operator or the clock.  In `HistoryLogger` it is weak fairness of `Work(t)` for
each thread.  `std::mutex` promises no fairness, but a thread can be passed over
only as long as others make calls, and these are bounded; what the run excludes
is that everyone waits.  In `NativeController` socket steps of a thread (`Sockets`)
and sessions of the server (`Serve`) are weakly fair: a blocking call returns when
its bytes are there or the other side has closed.  Of the parse step it says
`[]<>(pc[c] # "parse")`: one of the parse actions is enabled whenever a thread is
there, so this is what weak fairness of them comes to, without having TLC evaluate
the parser for `ENABLED`.  Clients, the operator and lost connections are not fair,
and neither is `ServeLate`.

## 4. Proofs

For all values of the constants, from `ConstantsAssumption` (policies and
workloads are of the right kind) and `SentinelsAssumption` (`None` and
`Undecodable` are no records):

* `TypeCorrect`: `Spec => []TypeOK`.  `TypeOK` alone is not inductive: a rewriter
  needs a record, and only the place of the thread says that `res[c]` is one.
  `IInv` adds `ThreadInv`: a thread between `Fetch` and `Apply` has a policy and
  a store query, `rewrite` is reached with an accepted put or putm, a putm has
  a record, `apply` is reached with an accepted write.
* `NeverRevived`: `ExpiredNeverRevived` if `ReadFaults` is false.  Shared keys,
  write faults, exceptions and restarts are all allowed.  The argument: the one
  action that changes `db[k]` is the write of a thread that is at `apply` with an
  accepted query, which `Frozen(k)` excludes, and a thread that fetches a frozen
  pair gets an expired record, which `validate` refuses; the clock only grows.
* `EffectsAuthorised`, `PutsKeepMetadata`: `EffectAuthorised` and `PutKeepsMetadata`
  if no two connections use the same key (`Partitioned`) and reads do not fail.
  `VerdictInv` says what a thread knows of the pair it read: an accepted query was
  accepted by that pair at a time not before the query came, and an update
  carries its metadata over.  As nobody else writes its key, the pair read is the
  pair replaced (`FreshRead`, an auxiliary invariant).  Both assumptions are needed:
  `insert_race` violates the conclusion on a shared key, and a failed read does on a
  single connection (section 5).
* `StorePromiseKept`: `ImplementsStore`, if also the store keeps the value of a putm
  (`StoresPutm`: redis, or rocksdb with encryption).  `GDPRStore` decides a query in
  one step, the controller in four, so the invariant has to remember how the
  verdict and the new value came about: `WorkInv` says that at `rewrite` there is a
  time since the query's arrival at which it was accepted, and at `monitor` and
  `apply` two times, in order, that give the verdict and the new value
  (`DecidedAt`).  They are the witnesses of `Perform`; `FreshRead` makes the pair that
  was read the one that `Perform` sees.  A crash in `Apply` is a `Crash` that carries
  the write out.
* `ChangesAudited`: `MonitoredChangeAudited` from the same assumptions.  `LoggedInv`: a
  thread at `apply` whose query is monitored has its entry in the log, which other
  threads only append to and a crash, which ends the thread, alone cuts.
* `AuditTrailHolds`: `AuditReflectsStore`, if keys are not shared, no write fails and no
  putm switches the monitoring of a pair on (`NoSwitchOn`; such a putm is not logged).
  Reads may fail, and the store may spoil the value of a putm.  `TrailInv` adds to the
  property what it needs while a write is under way: the last accepted write of the
  key's log is the thread's (`LoggedLast`).  The end of the process may take the end of
  the log and leave the store, so property and theorem speak of the time before it
  ends for the first time (`NeverEnded`).
* `EffectsDecided`, `AnswersDecided`: `EffectDecided` and `AnswerDecided` for any
  number of clients on any keys, with late writes, if reads do not fail.  Without
  `Partitioned` the pair may have changed since it was read, so that nothing is
  left to say of the pair that is replaced; what remains is that verdict, monitoring
  decision, new value and answer all come from the one pair that was read, and
  that the store held it while the query was under way.  `SharedInv` is the
  conjunction of the invariants above that do not speak of the store (`ThreadsInv`: types,
  verdicts, `WorkInv`, `LoggedInv`), of `HeldInv` (a thread between `Fetch` and its
  answer has in `held[c]` what it read), of `LateInv` (a late write was decided like
  any other) and of `AnswerDecided`.  A step that ends the process turns writes of
  `WorkInv` into late ones, and `Land` touches no thread.

The instance of `controller_partitioned` satisfies the assumptions of
`StorePromiseKept` and `ChangesAudited`, that of `audit_trail` those of
`AuditTrailHolds`, that of `controller_shared` those of `EffectsDecided` and
`AnswersDecided`.

For the logger, from `LoggerAssumption` and if files can be opened (`~OpenFaults`):

* `EntriesLand`, `SingleStream`, `EvictionFindsStream`: `WritesLand`, `OneStream` and
  `NoNullStream` for any number of threads, keys and open files, with crashes and
  misread file names.  The invariant `LInv` says that `m_fd_mgmt_mutex` is held
  exactly inside `get_or_open_log_stream`; that list and map have the same keys,
  each once, and exactly the cached streams are open; and what each thread holds
  at its place: a thread that closes has the mutex of the key it closes, a thread
  on its way to open a file has found none cached, and a thread waiting for its
  key's mutex has a stream of that key, so that it is the cached one if it is open.
  `Bystander` states once what a step of another thread must leave alone.
  Without the assumption `NoNullStream` is false (section 5).
* `LoggerTypes`: `Spec => []TypeOK`.  `FileInv` adds that a key without a file has
  nothing on disk and no stream, and that at most the last entry of a decode is torn.
* `LogPromiseKept`: `ImplementsLog`, if file names give back their keys (`NamesReadBack`;
  a key that contains `.log` does not).  With `LInv` a write goes to the one stream
  whose buffer is mapped to the end of the key's log, an eviction moves the buffer
  to the file, which is a stutter, and a crash leaves what `AuditLog` allows.
* `OpenFilesLimited`: `OpenFilesBound` for finitely many threads that only log
  (`NoDecode`; with decodes it is false).  That `close_older_fd` gives up when every
  key is locked is the hard case: the bound then rests on counting threads.
  `OwnInv` says which key mutexes a thread can have.  `EvictOK` gives, for a thread in
  the loop, an injection from the keys it has passed into the other threads: each
  was locked by a thread which still holds it or has finished its call and, at
  most, waits for the fd mutex.  When the loop ends without success, all cached keys were
  passed, so that there are fewer than threads.

`logger_streams` and `logger_limit` satisfy these assumptions.

For the way to the store, from no assumption on texts, sizes or databases:

* `OneRequestAlways`: `Spec => []OneRequest`.  The protocol has no sequence numbers, so
  everything depends on a connection never carrying anything that nobody waits
  for.  `IInv` adds that a client that is away has no thread: only then does a new
  connection start with an idle thread (`Connect`).  An exception (`Terminate`)
  clears all connections of the process; a thread leaves its loop (`Close`) at
  `receive`, `parse` or `send` only, when nothing is under way; `LoseLink` takes the
  request off the connection.
* `StoredWasSent`: `StoredPairsWereSent`, if no message has a zero in it and none fills
  the buffer exactly (`TextsFit`).  `SentInv` follows the bytes: what is in a socket, in
  the buffer up to its first zero, on a store connection, in a late request and
  in the database is made of one message.  The core is `BufferReadsBack`: whatever a
  message was written over, its terminator ends it.  A full message has its
  terminator written behind the buffer, and its text can go on in the buffer of
  another thread; `native_store` has such a message, and the property holds there.
* `NativeTypes`: `Spec => []TypeOK`, if texts are texts (`TextsAreTexts`) and `None` is not
  one (`NoneIsNoData`).  It needs that the parser gives a query with a text for key
  and value on every text (`ParseText`), requests on the wire and responses are
  texts, and a message waits only for a thread that receives (`TypeInv`).
* `ServicePromiseKept`: `ImplementsKV`, if in addition keys have no spaces in builds with
  encryption (`KeysApart`): the server ends a key at its first space and takes the rest
  for the beginning of the cipher text, so that the put is acknowledged and the
  pair cannot be read.  `KVInv` joins the invariants above with two more.  `CallInv`:
  the request on a connection is that of the handler's command, so that the
  answer is read the right way.  `LateInv`: an abandoned request is the only one of
  its connection and process, since its handler then waits in vain; two strays
  that differ therefore have different images, and one that lands leaves the
  other.  Each action is then shown to be one step of `KVService` or none, with
  `EffectOf` and `AnswerOf` for what the server does and what the handler makes of its
  response.

Zeros and full messages apart, these are assumptions that the code leaves to its
callers; an instance of `native_store` with `max_msg_size` one larger satisfies all of them.
On it TLC found no violation of `SentInv`, `CallInv` and `LateInv` (99,916 states).

For the texts, from the five assumptions of `Formats`, for any alphabet and any length:

* `QueriesReadBack`, `Purposes`, `Requests`, `LogEntries`, `FileKeys`: the five equivalences
  of the formats that are written once.  `TextInv` says that the text under way is
  the one made of its item and the result what the reader makes of the text;
  what is left is a fact about writer and reader, each with its own argument.  For
  queries one direction needs no writer: whatever text the parser is given, the key
  and the value that it reads have no quote and no `&` (`ParsePlain`), so that others
  cannot come back.  For the other direction `KeyExtracted` and `ValueExtracted`
  find the four quotes, and an induction over the options (`OptionsRead`) shows that
  each one is a predicate of its own, changes nothing of the command, and adds to
  the options what it means, as far as it can be read (`OptsRead`): the last of several
  counts, conditions on purposes add up.  `OptionsExact` says when what is read is
  what was meant: a number is read up to its first letter (`NumberExact`) and an
  unknown purpose becomes `purpose0` (`KnownNames`).
* `PairRecords`, `PairValues`: `RecordsAreExact` and `ValueReadsBack` after any sequence of
  insertions, updates and putms.  The inductive invariant `PairInv` relates text,
  record and last value by `Kept`.  `Exact`: without a `|` in the metadata ever, the
  tokens of the text are the eight fields and then those of the record's value.
  `EndsAs`: the last token is the one of the value put last, and longer if a putm
  has joined that value to a remnant.  `Outweighs` counts the elements that
  are no `|`: the text has more of them than the value, and what is behind the
  eighth `|` has at least as many.  It holds also when a `|` in the metadata has
  shifted the fields, where nothing else is known of the text, and it is what
  excludes that a get then returns the value by accident.

The parser, the splitting and the joining of texts are folds, and the library's induction
theorems cannot be used with these provers.  What is proved of them is proved from the
least counterexample instead (`TextProofs`): `Folding` is the equation that defines the
fold, `FoldingExists` that it has a solution for every number of parts, `FoldRuns` that
the solution is the last element of a run, step by step, and `FoldAppend` that one more
part is one more step.  `FlattenRuns` is the same for `FlattenSeq`.  `TextInduction`
is induction over the end of a sequence with a set in place of a predicate; on it rest
`SplitConcat`, `SplitDelimited`, `ParseMore` and the invariants of lists.

Only model-checked: `CutQueryIsShorter`, a statement about every place where a query can be
cut, inside words too, and about every kind of option, for which the proofs
of `QueriesReadBack` would have to be done again for each kind of place; and the
liveness properties `EveryQueryAnswered`, `EveryCallReturns` and `EveryClientReleased`,
since fairness and `ENABLED` are out of the prover's reach.

## 5. Not modelled, and what was seen on the way

Not modelled:

* the text of policies and answers, the regulator's wording of an entry included;
* AES-GCM: a cipher text is opened by its own key and by no other; reading past the
  end of a stored value that is shorter than the header (`encryption/cipher_engine.hpp:190`)
  is taken for the failure that its authentication makes of it.  In
  `NativeController` a failed encryption is not told from a refused write;
* the redis client beyond what its results are: its protocol is in a library;
* a network that loses a connection without telling either side, and the receive
  timeout of the server's sockets (`rocksdb_server/server.cpp:46`), after which
  boost::asio waits again;
* the width of numbers: `stoi` of `objExp` throws above 2^31 - 1 as it does on no number,
  which is in the model; `gdpr_metadata_fmt` reads the expiration with it, too
  (`logging/log_common.hpp:139`), which makes a date after 2038 unreadable;
* set-up in `main`, and failures of `mmap` and `accept` (`native_controller.cpp:49` returns
  without closing the client's socket);
* `log_raw_query`, which the source marks as unused; the direct client and the test
  driver; evaluation and benchmarks.

`GDPRController` keeps answer codes apart from values; in `NativeController` both are
texts, as in the code.  It also has its store connections drained before a restart:
late writes are in `GDPRSharedKeys`, and in `NativeController`, whose store path is the
same.  `GDPRController` loses whole log entries in a crash only; torn ones are in
`HistoryLogger`.  The data race on `m_keys_to_mutexes` is found by `logger_mutex_map`; of
its outcomes the model has the lookup that works and the process that ends.

Other places where code and comments disagree, which the models show but no run
is devoted to:

* a read that fails and a pair that cannot be decrypted look like a missing key
  (`kv_client/rocksdb.hpp:42`, `kv_client/kv_client.hpp:29`); a put then inserts without
  asking the filter, and replaces a pair that its metadata would have refused it:
  `EffectAuthorised` fails with `ReadFaults`, although line 110 of `controller.cpp` says
  "if the key exists and complies with the gdpr rules, perform the put";
* nothing erases an expired pair: the filter refuses every query on it, the owner's
  delete too, and the erasure at `gdpr_filter.cpp:109` is a TODO.  `src/configs/README.md:17`
  speaks of a background operation that deletes stale entries, and the example policy
  at line 21 lets a client delete expired data.  `ExpiredNeverRevived` therefore
  promises only that such a pair is not revived, and not that it stays;
* a put writes back the metadata that it read (`controller.cpp:121`), also when a putm
  on another connection has changed them in between, although lines 113-117 say
  that only putm changes metadata: `PutKeepsMetadata` fails on shared keys;
* a log file that fails to open puts its key into `m_used_keys` twice
  (`logging/logger.hpp:250`); the second eviction gets a null pointer at line 268:
  `NoNullStream` fails with `OpenFaults`;
* a putm that switches monitoring on is not logged (`controller.cpp:202`), although
  `logging/monitor.hpp:38` has a constructor for it;
* without encryption a putm stores an empty value in rocksdb
  (`rocksdb_server/message.hpp:70`), and a put of an empty value stores the text of the
  request (line 71);
* the limit of open files is exceeded when every cached key is locked
  (`logging/logger.hpp:266`);
* the log of a key that contains `.log` is taken for another key's
  (`logging/logger.hpp:290`);
* the example queries of `src/configs/README.md:9-10` have spaces around `&`, purposes
  without a bit and an option `sessionKeyIs`: the parser throws on the first and the
  last, and takes the purposes for `purpose0`;
* the operation is named `getLogs` in `logging/log_common.hpp:50` and `getlogs` by the
  parser, so that it has no code; no entry is written for it either.

`PROJECT.json` lists the hazards, also the four that no property covers.

## 6. Plan

Done: the controller with its abstract store, the policy operators, the history
logger with its abstract log, the way from socket to database with its abstract
map, the texts, and the theorems above, which cover every safety property of the
three state machines, their three refinements, and every property of the texts but
one.  Left, in this order:

1. Proofs: `CutQueryIsShorter`, its statements on key and value first, from `ParsePlain`,
   `KeyExtracted` and `ValueExtracted`.
2. `AuditLog` composed with `GDPRController`: `audit` and `durable` as an instance of
   the abstract log, so that the two refinements meet.
3. `GDPRSharedKeys` over `KVService` instead of its own store, so that late writes are
   those of the abstract map.
