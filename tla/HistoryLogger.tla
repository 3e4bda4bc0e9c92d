--------------------------- MODULE HistoryLogger ----------------------------
(***************************************************************************)
(* The history logger (logging/logger.hpp), shared by all threads of the   *)
(* controller: one log file per key, a cache of open streams with a limit, *)
(* a mutex per key and one for the cache.  The limit is kept by closing    *)
(* the stream of the key that was opened first among those whose mutex     *)
(* try_lock obtains.                                                       *)
(*                                                                         *)
(* One action per step at which threads can meet: taking a mutex, looking  *)
(* up or changing the shared containers, reading or writing a stream.      *)
(***************************************************************************)
EXTENDS LogFile

CONSTANTS
    Threads,
    Keys,
    Ops,           \* Ops[t]: the calls of t, subset of {"log", "decode"}
    FileKey,       \* FileKey[k]: what extract_key_from_filename makes of k's log file
    MaxOpen,       \* m_max_open_log_files
    OpenFaults,    \* a log file may fail to open
    EncryptFaults, \* an entry may fail to be encrypted
    None,
    MaxCalls,      \* bound: calls of a thread
    MaxCrashes     \* bound: ends of the process for a reason outside the logger

ASSUME LoggerAssumption ==
    /\ \A t \in Threads : Ops[t] \subseteq {"log", "decode"}
    /\ FileKey \in [Keys -> Keys]
    /\ MaxOpen \in Nat \ {0}
    /\ {OpenFaults, EncryptFaults} \subseteq BOOLEAN
    /\ {MaxCalls, MaxCrashes} \subseteq Nat
    /\ Torn \notin Threads \X Nat
    /\ None \notin Threads
    /\ None \notin Nat
    /\ None \notin [op : {"log", "decode"}, key : Keys, nr : Nat]

VARIABLES
    crashes, \* how often the process ended
    exists,  \* the keys that have a log file
    disk,    \* key -> what its file holds
    fdMutex, \* owner of m_fd_mgmt_mutex, or None
    mutexes, \* the keys in m_keys_to_mutexes
    owner,   \* key -> owner of its mutex, or None
    files,   \* m_keys_to_log_files: key -> number of a stream, or None
    streams, \* every std::fstream made: [key, open, buf]
    used,    \* m_used_keys
    pc,      \* thread -> where it is
    call,    \* thread -> [op, key, nr], or None
    calls,   \* thread -> number of calls
    handle,  \* thread -> log_file, or None
    cursor,  \* thread -> the iterator of close_older_fd
    entries  \* thread -> what its last decode returned

store == << exists, disk >>
cache == << files, streams, used >>
locals == << call, calls, handle, cursor, entries >>
vars == << crashes, store, fdMutex, mutexes, owner, cache, pc, locals >>

-----------------------------------------------------------------------------

Steps == {"idle", "exists", "want_fd", "lookup", "evict", "close", "open",
          "find_mutex", "lock_key", "write", "read"}

\* The key whose mutex and stream t uses.
KeyOf(t) == IF call[t].op = "decode" THEN FileKey[call[t].key] ELSE call[t].key

IsOpen(s) == s # None /\ streams[s].open

Cached == {k \in Keys : files[k] # None}

Entry(t) == << t, call[t].nr >>

Init ==
    /\ crashes = 0
    /\ exists = {}
    /\ disk = [k \in Keys |-> << >>]
    /\ fdMutex = None
    /\ mutexes = {}
    /\ owner = [k \in Keys |-> None]
    /\ files = [k \in Keys |-> None]
    /\ streams = << >>
    /\ used = << >>
    /\ pc = [t \in Threads |-> "idle"]
    /\ call = [t \in Threads |-> None]
    /\ calls = [t \in Threads |-> 0]
    /\ handle = [t \in Threads |-> None]
    /\ cursor = [t \in Threads |-> 1]
    /\ entries = [t \in Threads |-> << >>]

\* A handler calls log_encoded_query or log_decode.
Start(t) ==
    /\ pc[t] = "idle"
    /\ calls[t] < MaxCalls
    /\ \E op \in Ops[t], k \in Keys :
          /\ call' = [call EXCEPT ![t] = [op |-> op, key |-> k, nr |-> calls[t] + 1]]
          /\ pc' = [pc EXCEPT ![t] = IF op = "log" THEN "want_fd" ELSE "exists"]
    /\ calls' = [calls EXCEPT ![t] = @ + 1]
    /\ entries' = [entries EXCEPT ![t] = << >>]
    /\ UNCHANGED << crashes, store, fdMutex, mutexes, owner, cache, handle, cursor >>

\* The call of t returns and releases the mutex of its key, if it has it.
Return(t) ==
    /\ pc' = [pc EXCEPT ![t] = "idle"]
    /\ call' = [call EXCEPT ![t] = None]
    /\ handle' = [handle EXCEPT ![t] = None]
    /\ owner' = [k \in Keys |-> IF owner[k] = t THEN None ELSE owner[k]]

-----------------------------------------------------------------------------
(* get_or_open_log_stream and close_older_fd.                              *)

LockFds(t) ==
    /\ pc[t] = "want_fd"
    /\ fdMutex = None
    /\ fdMutex' = t
    /\ pc' = [pc EXCEPT ![t] = "lookup"]
    /\ UNCHANGED << crashes, store, mutexes, owner, cache, locals >>

\* Where a caller goes on: log_encoded_query asks for the stream before it
\* has the key's mutex, and once more if that stream is closed when it has it.
AfterGet(t) == CASE call[t].op = "decode" -> "read"
                 [] call[t].op = "log" /\ owner[KeyOf(t)] = t -> "write"
                 [] OTHER -> "find_mutex"

GotStream(t, s) ==
    /\ handle' = [handle EXCEPT ![t] = s]
    /\ fdMutex' = None
    /\ pc' = [pc EXCEPT ![t] = AfterGet(t)]

\* Create the key's mutex; use its stream if it is there and open.
Lookup(t) ==
    LET s == files[KeyOf(t)] IN
    /\ pc[t] = "lookup"
    /\ mutexes' = mutexes \cup {KeyOf(t)}
    /\ IF IsOpen(s)
       THEN GotStream(t, s) /\ UNCHANGED cursor
       ELSE /\ pc' = [pc EXCEPT ![t] = IF Cardinality(Cached) >= MaxOpen THEN "evict" ELSE "open"]
            /\ cursor' = [cursor EXCEPT ![t] = 1]
            /\ UNCHANGED << handle, fdMutex >>
    /\ UNCHANGED << crashes, store, owner, cache, call, calls, entries >>

\* Mutant: only the oldest key is tried.
TryEvictFirstOnly(t) ==
    /\ pc[t] = "evict"
    /\ IF used # << >> /\ owner[used[1]] = None
       THEN owner' = [owner EXCEPT ![used[1]] = t] /\ pc' = [pc EXCEPT ![t] = "close"]
       ELSE pc' = [pc EXCEPT ![t] = "open"] /\ UNCHANGED owner
    /\ UNCHANGED << crashes, store, fdMutex, mutexes, cache, locals >>

\* Mutant: lock instead of try_lock.
TryEvictBlocks(t) ==
    /\ pc[t] = "evict"
    /\ IF used = << >>
       THEN pc' = [pc EXCEPT ![t] = "open"] /\ UNCHANGED owner
       ELSE /\ owner[used[1]] = None
            /\ owner' = [owner EXCEPT ![used[1]] = t]
            /\ pc' = [pc EXCEPT ![t] = "close"]
    /\ UNCHANGED << crashes, store, fdMutex, mutexes, cache, locals >>

\* One round of the loop.  try_lock of a mutex that the thread itself holds
\* is undefined; with pthreads it fails, as for any other owner.
TryEvict(t) ==
    /\ pc[t] = "evict"
    /\ IF cursor[t] > Len(used)
       THEN pc' = [pc EXCEPT ![t] = "open"] /\ UNCHANGED << owner, cursor >>
       ELSE IF owner[used[cursor[t]]] = None
       THEN /\ owner' = [owner EXCEPT ![used[cursor[t]]] = t]
            /\ pc' = [pc EXCEPT ![t] = "close"]
            /\ UNCHANGED cursor
       ELSE cursor' = [cursor EXCEPT ![t] = @ + 1] /\ UNCHANGED << owner, pc >>
    /\ UNCHANGED << crashes, store, fdMutex, mutexes, cache, call, calls, handle, entries >>

\* Mutant: the pointer is dropped, and the stream stays open in other threads.
CloseForgetsStream(t) ==
    LET k == used[cursor[t]] IN
    /\ pc[t] = "close"
    /\ used' = RemoveAt(used, cursor[t])
    /\ files' = [files EXCEPT ![k] = None]
    /\ owner' = [owner EXCEPT ![k] = None]
    /\ pc' = [pc EXCEPT ![t] = "open"]
    /\ UNCHANGED << crashes, store, fdMutex, mutexes, streams, locals >>

\* Mutant: the key stays in the list.
CloseKeepsKey(t) ==
    LET k == used[cursor[t]]
        s == files[k]
    IN
    /\ pc[t] = "close"
    /\ s # None
    /\ disk' = [disk EXCEPT ![k] = @ \o streams[s].buf]
    /\ streams' = [streams EXCEPT ![s] = [key |-> k, open |-> FALSE, buf |-> << >>]]
    /\ files' = [files EXCEPT ![k] = None]
    /\ owner' = [owner EXCEPT ![k] = None]
    /\ pc' = [pc EXCEPT ![t] = "open"]
    /\ UNCHANGED << crashes, exists, fdMutex, mutexes, used, locals >>

\* Close the stream, which writes its buffer out, and forget the key.
CloseOlder(t) ==
    LET k == used[cursor[t]]
        s == files[k]
    IN
    /\ pc[t] = "close"
    /\ s # None
    /\ disk' = [disk EXCEPT ![k] = @ \o streams[s].buf]
    /\ streams' = [streams EXCEPT ![s] = [key |-> k, open |-> FALSE, buf |-> << >>]]
    /\ used' = RemoveAt(used, cursor[t])
    /\ files' = [files EXCEPT ![k] = None]
    /\ owner' = [owner EXCEPT ![k] = None]
    /\ pc' = [pc EXCEPT ![t] = "open"]
    /\ UNCHANGED << crashes, exists, fdMutex, mutexes, locals >>

OpenStream(t) ==
    /\ pc[t] = "open"
    /\ exists' = exists \cup {KeyOf(t)}
    /\ used' = Append(used, KeyOf(t))
    /\ streams' = Append(streams, [key |-> KeyOf(t), open |-> TRUE, buf |-> << >>])
    /\ files' = [files EXCEPT ![KeyOf(t)] = Len(streams) + 1]
    /\ GotStream(t, Len(streams) + 1)
    /\ UNCHANGED << crashes, disk, mutexes, owner, call, calls, cursor, entries >>

\* The constructor of std::fstream does not throw: a closed stream is kept.
OpenFails(t) ==
    /\ OpenFaults
    /\ pc[t] = "open"
    /\ used' = Append(used, KeyOf(t))
    /\ streams' = Append(streams, [key |-> KeyOf(t), open |-> FALSE, buf |-> << >>])
    /\ files' = [files EXCEPT ![KeyOf(t)] = Len(streams) + 1]
    /\ GotStream(t, Len(streams) + 1)
    /\ UNCHANGED << crashes, store, mutexes, owner, call, calls, cursor, entries >>

-----------------------------------------------------------------------------
(* log_encoded_query and log_decode.                                       *)

\* log_decode starts only if the file is there.
CheckExists(t) ==
    /\ pc[t] = "exists"
    /\ IF call[t].key \in exists
       THEN pc' = [pc EXCEPT ![t] = "find_mutex"] /\ UNCHANGED << call, handle, owner >>
       ELSE Return(t)
    /\ UNCHANGED << crashes, store, fdMutex, mutexes, cache, calls, cursor, entries >>

\* m_keys_to_mutexes[key], without m_fd_mgmt_mutex.
FindMutex(t) ==
    /\ pc[t] = "find_mutex"
    /\ mutexes' = mutexes \cup {KeyOf(t)}
    /\ pc' = [pc EXCEPT ![t] = "lock_key"]
    /\ UNCHANGED << crashes, store, fdMutex, owner, cache, locals >>

\* Mutant: the stream is not looked at again.
LockKeyTrustsStream(t) ==
    /\ pc[t] = "lock_key"
    /\ owner[KeyOf(t)] = None
    /\ owner' = [owner EXCEPT ![KeyOf(t)] = t]
    /\ pc' = [pc EXCEPT ![t] = IF call[t].op = "log" THEN "write" ELSE "want_fd"]
    /\ UNCHANGED << crashes, store, fdMutex, mutexes, cache, locals >>

\* Take the key's mutex; a stream that was closed meanwhile is replaced.
LockKey(t) ==
    /\ pc[t] = "lock_key"
    /\ owner[KeyOf(t)] = None
    /\ owner' = [owner EXCEPT ![KeyOf(t)] = t]
    /\ pc' = [pc EXCEPT ![t] = IF call[t].op = "log" /\ IsOpen(handle[t])
                               THEN "write" ELSE "want_fd"]
    /\ UNCHANGED << crashes, store, fdMutex, mutexes, cache, locals >>

\* Write the entry into the stream's buffer; a closed stream ignores it.
Write(t) ==
    /\ pc[t] = "write"
    /\ streams' = IF IsOpen(handle[t])
                  THEN [streams EXCEPT ![handle[t]].buf = Append(@, Entry(t))] ELSE streams
    /\ Return(t)
    /\ UNCHANGED << crashes, store, fdMutex, mutexes, files, used, calls, cursor, entries >>

\* The entry could not be encrypted.
WriteNothing(t) ==
    /\ EncryptFaults
    /\ pc[t] = "write"
    /\ Return(t)
    /\ UNCHANGED << crashes, store, fdMutex, mutexes, cache, calls, cursor, entries >>

\* Mutant: the file is read as it is on disk.
ReadUnflushed(t) ==
    /\ pc[t] = "read"
    /\ entries' = IF IsOpen(handle[t])
                  THEN [entries EXCEPT ![t] = Readable(disk[KeyOf(t)])] ELSE entries
    /\ Return(t)
    /\ UNCHANGED << crashes, store, fdMutex, mutexes, cache, calls, cursor >>

\* Flush the stream, then read the file from its beginning.
Read(t) ==
    LET s == handle[t]
        k == KeyOf(t)
    IN
    /\ pc[t] = "read"
    /\ IF IsOpen(s)
       THEN /\ disk' = [disk EXCEPT ![k] = @ \o streams[s].buf]
            /\ streams' = [streams EXCEPT ![s].buf = << >>]
            /\ entries' = [entries EXCEPT ![t] = Readable(disk'[k])]
       ELSE UNCHANGED << disk, streams, entries >>
    /\ Return(t)
    /\ UNCHANGED << crashes, exists, fdMutex, mutexes, files, used, calls, cursor >>

-----------------------------------------------------------------------------

\* What a file may hold after a crash: streams write their buffers out when
\* they are full, possibly between the size of an entry and its bytes.
Left(k) ==
    LET Buffers == {streams[s].buf : s \in {i \in DOMAIN streams : /\ streams[i].key = k
                                                                  /\ streams[i].open}}
    IN  {disk[k]} \cup UNION {{disk[k] \o p : p \in Parts(b)} : b \in Buffers}

(***************************************************************************)
(* The process ends (an exception anywhere in the controller, see          *)
(* GDPRController, or a null stream) and is started again.                 *)
(***************************************************************************)
Restarted ==
    /\ crashes' = crashes + 1
    /\ \E left \in [Keys -> UNION {Left(k) : k \in Keys}] :
          /\ \A k \in Keys : left[k] \in Left(k)
          /\ disk' = left
    /\ UNCHANGED << exists, calls >>
    /\ fdMutex' = None
    /\ mutexes' = {}
    /\ owner' = [k \in Keys |-> None]
    /\ files' = [k \in Keys |-> None]
    /\ streams' = << >>
    /\ used' = << >>
    /\ pc' = [t \in Threads |-> "idle"]
    /\ call' = [t \in Threads |-> None]
    /\ handle' = [t \in Threads |-> None]
    /\ cursor' = [t \in Threads |-> 1]
    /\ entries' = [t \in Threads |-> << >>]

Crash == crashes < MaxCrashes /\ Restarted

\* operator[] makes a null pointer for a key that is in the list only.
CloseNull(t) ==
    /\ pc[t] = "close"
    /\ files[used[cursor[t]]] = None
    /\ Restarted

Work(t) ==
    \/ LockFds(t) \/ Lookup(t) \/ TryEvict(t) \/ CloseOlder(t) \/ CloseNull(t)
    \/ OpenStream(t) \/ OpenFails(t)
    \/ CheckExists(t) \/ FindMutex(t) \/ LockKey(t)
    \/ Write(t) \/ WriteNothing(t) \/ Read(t)

Next == Crash \/ \E t \in Threads : Start(t) \/ Work(t)

Spec == Init /\ [][Next]_vars

\* The operating system schedules every thread that can go on.
FairSpec == Spec /\ \A t \in Threads : WF_vars(Work(t))

-----------------------------------------------------------------------------
(* Properties.                                                             *)

Calls == [op : {"log", "decode"}, key : Keys, nr : Nat]
LogEntries == Threads \X Nat
Streams == [key : Keys, open : BOOLEAN, buf : Seq(LogEntries)]

\* The types of mutexes, stream cache and threads.
CacheTypeOK ==
    /\ fdMutex \in Threads \cup {None}
    /\ owner \in [Keys -> Threads \cup {None}]
    /\ streams \in Seq(Streams)
    /\ files \in [Keys -> DOMAIN streams \cup {None}]
    /\ used \in Seq(Keys)
    /\ pc \in [Threads -> Steps]
    /\ call \in [Threads -> Calls \cup {None}]
    /\ calls \in [Threads -> Nat]
    /\ handle \in [Threads -> DOMAIN streams \cup {None}]
    /\ cursor \in [Threads -> Nat \ {0}]

\* Every variable holds what the code could put there.
TypeOK ==
    /\ CacheTypeOK
    /\ crashes \in Nat
    /\ exists \subseteq Keys
    /\ disk \in [Keys -> Seq(LogEntries \cup {Torn})]
    /\ mutexes \subseteq Keys
    /\ entries \in [Threads -> Seq(LogEntries \cup {Torn})]
    /\ \A t \in Threads : Front(entries[t]) \in Seq(LogEntries)

(***************************************************************************)
(* When a thread writes or reads a log, it holds the key's mutex and its   *)
(* stream is open and the one that every other thread will be given, also  *)
(* if the stream it was given first has been closed by an eviction.        *)
(***************************************************************************)
WritesLand ==
    \A t \in Threads : pc[t] \in {"write", "read"} =>
       /\ owner[KeyOf(t)] = t
       /\ IsOpen(handle[t])
       /\ files[KeyOf(t)] = handle[t]

(***************************************************************************)
(* A key has at most one open stream, the cached one: entries cannot pass  *)
(* each other in two buffers.                                              *)
(***************************************************************************)
OneStream ==
    \A s \in DOMAIN streams : streams[s].open => files[streams[s].key] = s

(***************************************************************************)
(* close_older_fd finds the stream of the key it is about to remove "from  *)
(* the map and list".                                                      *)
(***************************************************************************)
NoNullStream ==
    \A t \in Threads : pc[t] = "close" => files[used[cursor[t]]] # None

\* What is logged for k: in its file, or on the way to it.
Content(k) == disk[k] \o (IF files[k] = None THEN << >> ELSE streams[files[k]].buf)

(***************************************************************************)
(* As long as nobody reads logs, the limit of open files is exceeded only  *)
(* by keys in use: one per thread.                                         *)
(***************************************************************************)
OpenFilesBound ==
    Cardinality(Cached) <= Max({MaxOpen, Cardinality(Threads)})

(***************************************************************************)
(* The logger as a whole behaves like one append-only sequence per key.    *)
(***************************************************************************)
Log == INSTANCE AuditLog WITH
          log <- [k \in Keys |-> Content(k)], safe <- [k \in Keys |-> Len(disk[k])],
          req <- call, got <- entries, MayFail <- EncryptFaults

ImplementsLog == Log!Spec

(***************************************************************************)
(* Every call returns: taking a key's mutex and the cache's in both orders *)
(* does not deadlock, because the second order uses try_lock.              *)
(***************************************************************************)
EveryCallReturns == \A t \in Threads : pc[t] # "idle" ~> pc[t] = "idle"

-----------------------------------------------------------------------------
(* What comments say and the code does not do.                             *)

\* t is about to add a key to m_keys_to_mutexes.
Inserts(t) == pc[t] \in {"lookup", "find_mutex"} /\ KeyOf(t) \notin mutexes

(***************************************************************************)
(* "Lock the mutex for the whole function scope to perform the metadata    *)
(* management": no thread looks into m_keys_to_mutexes while another one   *)
(* may be adding a key to it.                                              *)
(***************************************************************************)
MutexMapGuarded ==
    \A t, u \in Threads : t # u /\ Inserts(t) => pc[u] \notin {"lookup", "find_mutex", "evict"}

\* The call of t reads its log in this step.
ReadsNow(t) == pc[t] = "read" /\ IsOpen(handle[t]) /\ pc'[t] = "idle" /\ crashes' = crashes

(***************************************************************************)
(* "Store the history of each pair": every entry that is in the file in    *)
(* full is among those that a decode returns, also after a restart.        *)
(***************************************************************************)
HistoryReadable ==
    [][\A t \in Threads : ReadsNow(t) => Range(Whole(disk'[KeyOf(t)])) \subseteq Range(entries'[t])]_vars

=============================================================================
