------------------------ MODULE HistoryLoggerProofs -------------------------
(***************************************************************************)
(* The stream cache of the history logger, for any number of threads, keys *)
(* and open files, as long as log files can be opened: a thread that is    *)
(* about to use a stream holds the key's mutex and the stream is open, and *)
(* the list of used keys never names a key without a stream.               *)
(***************************************************************************)
EXTENDS HistoryLogger, SequenceTheorems, TLAPS

Getting == {"want_fd", "lookup", "evict", "close", "open"}

\* m_fd_mgmt_mutex is held exactly inside get_or_open_log_stream.
FdInv ==
    \A t \in Threads : fdMutex = t <=> pc[t] \in {"lookup", "evict", "close", "open"}

\* A thread has a call unless it is idle.
CallInv == \A t \in Threads : pc[t] # "idle" => call[t] \in Calls

\* The list and the map have the same keys, each once, and every cached
\* stream is open and its key's; so is every open stream cached.
CacheInv ==
    /\ \A i, j \in DOMAIN used : used[i] = used[j] => i = j
    /\ \A i \in DOMAIN used : files[used[i]] # None
    /\ \A k \in Keys : files[k] # None =>
          /\ \E i \in DOMAIN used : used[i] = k
          /\ streams[files[k]].key = k
          /\ streams[files[k]].open
    /\ OneStream

\* Which mutexes a thread has, and which stream, at each place.
ThreadOK(t) ==
    /\ pc[t] = "close" => cursor[t] \in DOMAIN used /\ owner[used[cursor[t]]] = t
    /\ pc[t] \in {"write", "read"} =>
          owner[KeyOf(t)] = t /\ handle[t] # None /\ handle[t] = files[KeyOf(t)]
    /\ pc[t] \in {"exists", "read"} => call[t].op = "decode"
    /\ pc[t] = "write" => call[t].op = "log"
    /\ pc[t] \in Getting /\ call[t].op = "decode" => owner[KeyOf(t)] = t
    /\ pc[t] \in {"evict", "close", "open"} => files[KeyOf(t)] = None
    /\ pc[t] \in {"find_mutex", "lock_key"} /\ call[t].op = "log" =>
          handle[t] # None /\ streams[handle[t]].key = KeyOf(t)

ThreadInv == \A t \in Threads : ThreadOK(t)

LInv == CacheTypeOK /\ FdInv /\ CallInv /\ CacheInv /\ ThreadInv

-----------------------------------------------------------------------------

\* What is left of a list after one element was removed.
LEMMA RemoveAtFacts ==
    ASSUME NEW S, NEW s \in Seq(S), NEW i \in DOMAIN s
    PROVE  /\ RemoveAt(s, i) \in Seq(S)
           /\ Len(RemoveAt(s, i)) = Len(s) - 1
           /\ \A j \in 1..(Len(s) - 1) :
                 RemoveAt(s, i)[j] = IF j < i THEN s[j] ELSE s[j + 1]
<1> DEFINE a == SubSeq(s, 1, i - 1)
           b == SubSeq(s, i + 1, Len(s))
<1>1. /\ a \in Seq(S) /\ Len(a) = i - 1
      /\ \A j \in 1..(i - 1) : a[j] = s[j]
  <2>1. 1 \in 1..(Len(s) + 1) /\ i - 1 \in 0..Len(s)
    OBVIOUS
  <2> QED BY <2>1, SubSeqProperties
<1>2. /\ b \in Seq(S) /\ Len(b) = Len(s) - i
      /\ \A j \in 1..(Len(s) - i) : b[j] = s[i + j]
  <2>1. i + 1 \in 1..(Len(s) + 1) /\ Len(s) \in i..Len(s)
    OBVIOUS
  <2> QED BY <2>1, SubSeqProperties
<1> HIDE DEF a, b
<1>3. /\ a \o b \in Seq(S)
      /\ Len(a \o b) = Len(s) - 1
      /\ \A j \in 1..(Len(s) - 1) : (a \o b)[j] = IF j < i THEN s[j] ELSE s[j + 1]
  BY <1>1, <1>2, ConcatProperties
<1> QED BY <1>3 DEF RemoveAt, a, b

\* The key whose stream a thread uses is a key.
LEMMA KeyOfType ==
    ASSUME CacheTypeOK, CallInv, NEW t \in Threads, pc[t] # "idle"
    PROVE  KeyOf(t) \in Keys /\ call[t] \in Calls /\ call[t].op \in {"log", "decode"}
BY LoggerAssumption DEF CallInv, KeyOf, Calls

\* The initial state satisfies the invariant.
LEMMA InitLogger == Init => LInv
BY LoggerAssumption
   DEF Init, LInv, CacheTypeOK, FdInv, CallInv, CacheInv, ThreadInv, ThreadOK, OneStream, Getting,
       Steps, Streams, Calls

-----------------------------------------------------------------------------

\* Every process starts with nothing cached and nobody at work.
LEMMA RestartLogger ==
    ASSUME LInv, Restarted PROVE LInv'
BY LoggerAssumption
   DEF Restarted, LInv, CacheTypeOK, FdInv, CallInv, CacheInv, ThreadInv, ThreadOK, OneStream, Getting,
       Steps, Streams, Calls

(***************************************************************************)
(* A step of another thread leaves what u knows alone, if it takes no      *)
(* mutex of u away, does not replace the stream that u is about to use,    *)
(* and changes the cache only while u is not inside close_older_fd or on   *)
(* its way to open a file.                                                 *)
(***************************************************************************)
LEMMA Bystander ==
    ASSUME LInv, NEW u \in Threads,
           pc'[u] = pc[u], call'[u] = call[u], handle'[u] = handle[u], cursor'[u] = cursor[u],
           \A k \in Keys : owner[k] = u => owner'[k] = u,
           pc[u] \in {"write", "read"} => files'[KeyOf(u)] = files[KeyOf(u)],
           pc[u] \in {"evict", "close", "open"} => UNCHANGED << files, used >>,
           \A s \in DOMAIN streams : streams'[s].key = streams[s].key
    PROVE  ThreadOK(u)'
<1>0. ThreadOK(u)
  BY DEF LInv, ThreadInv
<1>1. KeyOf(u)' = KeyOf(u)
  BY DEF KeyOf
<1>2. CASE pc[u] = "idle"
  BY <1>2 DEF ThreadOK, Getting
<1>3. CASE pc[u] # "idle"
  <2>1. KeyOf(u) \in Keys
    BY <1>3, KeyOfType DEF LInv
  <2>2. pc[u] = "close" => used[cursor[u]] \in Keys
    BY <1>0 DEF ThreadOK, LInv, CacheTypeOK
  <2>3. handle[u] # None => handle[u] \in DOMAIN streams
    BY DEF LInv, CacheTypeOK
  <2> QED BY <1>0, <1>1, <2>1, <2>2, <2>3 DEF ThreadOK
<1> QED BY <1>2, <1>3

\* A call that ends gives up the mutex of its key and nothing else.
LEMMA ReturnLogger ==
    ASSUME LInv, NEW t \in Threads, pc[t] \in {"exists", "write", "read"}, Return(t),
           UNCHANGED << fdMutex, files, used, calls, cursor >>,
           streams' \in Seq(Streams), Len(streams') = Len(streams),
           \A s \in DOMAIN streams : /\ streams'[s].key = streams[s].key
                                     /\ streams'[s].open = streams[s].open
    PROVE  LInv'
<1> USE LoggerAssumption
<1>0. DOMAIN streams' = DOMAIN streams
  BY DEF LInv, CacheTypeOK
<1>1. CacheTypeOK'
  BY <1>0 DEF LInv, CacheTypeOK, Return, Steps
<1>2. FdInv' /\ CallInv'
  BY DEF LInv, FdInv, CallInv, Return, CacheTypeOK
<1>3. CacheInv'
  <2>1. /\ files' = files /\ used' = used
        /\ \A k \in Keys : files[k] # None => files[k] \in DOMAIN streams
    BY DEF LInv, CacheTypeOK
  <2>2. CacheInv
    BY DEF LInv
  <2>3. OneStream'
    BY <1>0, <2>1, <2>2 DEF CacheInv, OneStream
  <2> QED BY <2>1, <2>2, <2>3 DEF CacheInv
<1>4. ASSUME NEW u \in Threads PROVE ThreadOK(u)'
  <2>1. CASE u = t
    BY <2>1 DEF LInv, ThreadOK, Return, CacheTypeOK, Getting
  <2>2. CASE u # t
    BY <2>2, Bystander DEF LInv, Return, CacheTypeOK
  <2> QED BY <2>1, <2>2
<1> QED BY <1>1, <1>2, <1>3, <1>4 DEF LInv, ThreadInv

(***************************************************************************)
(* Steps that leave the cache alone: starting a call, taking a mutex,      *)
(* looking for a stream or for a key to evict.                             *)
(***************************************************************************)
LEMMA LockStepsLogger ==
    ASSUME LInv, NEW t \in Threads,
           \/ Start(t) \/ LockFds(t) \/ Lookup(t) \/ TryEvict(t) \/ FindMutex(t) \/ LockKey(t)
    PROVE  LInv'
<1> USE LoggerAssumption
<1>0. UNCHANGED << files, streams, used >> /\ CacheInv
  BY DEF LInv, Start, LockFds, Lookup, TryEvict, FindMutex, LockKey, cache
<1>1. CacheInv'
  BY <1>0 DEF CacheInv, OneStream
<1>2. ASSUME Start(t) PROVE LInv'
  <2>1. CacheTypeOK'
    BY <1>2 DEF LInv, CacheTypeOK, Start, Steps, Calls, cache
  <2>2. FdInv' /\ CallInv'
    BY <1>2 DEF LInv, FdInv, CallInv, Start, CacheTypeOK, Calls
  <2>3. ASSUME NEW u \in Threads PROVE ThreadOK(u)'
    <3>1. CASE u = t
      BY <1>2, <3>1 DEF Start, LInv, CacheTypeOK, ThreadOK, Getting
    <3>2. CASE u # t
      BY <1>2, <3>2, Bystander DEF Start, LInv, CacheTypeOK, cache
    <3> QED BY <3>1, <3>2
  <2> QED BY <1>1, <2>1, <2>2, <2>3 DEF LInv, ThreadInv
<1>3. ASSUME LockFds(t) PROVE LInv'
  <2>1. CacheTypeOK'
    BY <1>3 DEF LInv, CacheTypeOK, LockFds, Steps, cache, locals
  <2>2. FdInv' /\ CallInv'
    BY <1>3 DEF LInv, FdInv, CallInv, LockFds, CacheTypeOK, locals
  <2>3. ASSUME NEW u \in Threads PROVE ThreadOK(u)'
    <3>1. CASE u = t
      BY <1>3, <3>1 DEF LockFds, LInv, CacheTypeOK, ThreadInv, ThreadOK, Getting, KeyOf, cache, locals
    <3>2. CASE u # t
      BY <1>3, <3>2, Bystander DEF LockFds, LInv, CacheTypeOK, cache, locals
    <3> QED BY <3>1, <3>2
  <2> QED BY <1>1, <2>1, <2>2, <2>3 DEF LInv, ThreadInv
<1>4. ASSUME FindMutex(t) PROVE LInv'
  <2>1. CacheTypeOK'
    BY <1>4 DEF LInv, CacheTypeOK, FindMutex, Steps, cache, locals
  <2>2. FdInv' /\ CallInv'
    BY <1>4 DEF LInv, FdInv, CallInv, FindMutex, CacheTypeOK, locals
  <2>3. ASSUME NEW u \in Threads PROVE ThreadOK(u)'
    <3>1. CASE u = t
      BY <1>4, <3>1 DEF FindMutex, LInv, CacheTypeOK, ThreadInv, ThreadOK, Getting, KeyOf, cache, locals
    <3>2. CASE u # t
      BY <1>4, <3>2, Bystander DEF FindMutex, LInv, CacheTypeOK, cache, locals
    <3> QED BY <3>1, <3>2
  <2> QED BY <1>1, <2>1, <2>2, <2>3 DEF LInv, ThreadInv
<1>5. ASSUME LockKey(t) PROVE LInv'
  <2>0. KeyOf(t) \in Keys /\ call[t].op \in {"log", "decode"}
    BY <1>5, KeyOfType DEF LockKey, LInv
  <2>1. CacheTypeOK'
    BY <1>5, <2>0 DEF LInv, CacheTypeOK, LockKey, Steps, cache, locals
  <2>2. FdInv' /\ CallInv'
    BY <1>5 DEF LInv, FdInv, CallInv, LockKey, CacheTypeOK, locals
  <2>3. ASSUME NEW u \in Threads PROVE ThreadOK(u)'
    <3>1. CASE u = t
      <4>1. KeyOf(t)' = KeyOf(t) /\ owner'[KeyOf(t)] = t /\ UNCHANGED << call, handle >>
        BY <1>5, <2>0 DEF LockKey, KeyOf, LInv, CacheTypeOK, locals
      <4>2. IsOpen(handle[t]) /\ call[t].op = "log" => handle[t] # None /\ handle[t] = files[KeyOf(t)]
        <5> SUFFICES ASSUME IsOpen(handle[t]), call[t].op = "log"
                     PROVE  handle[t] # None /\ handle[t] = files[KeyOf(t)]
          OBVIOUS
        <5>1. handle[t] # None /\ streams[handle[t]].key = KeyOf(t)
          BY <1>5 DEF LockKey, LInv, ThreadInv, ThreadOK
        <5>2. handle[t] \in DOMAIN streams
          BY <5>1 DEF LInv, CacheTypeOK
        <5> QED BY <1>0, <5>1, <5>2 DEF CacheInv, OneStream, IsOpen
      <4>3. pc'[t] = IF call[t].op = "log" /\ IsOpen(handle[t]) THEN "write" ELSE "want_fd"
        BY <1>5 DEF LockKey, LInv, CacheTypeOK
      <4> QED BY <3>1, <4>1, <4>2, <4>3, <1>0 DEF ThreadOK, Getting
    <3>2. CASE u # t
      BY <1>5, <2>0, <3>2, Bystander DEF LockKey, LInv, CacheTypeOK, cache, locals
    <3> QED BY <3>1, <3>2
  <2> QED BY <1>1, <2>1, <2>2, <2>3 DEF LInv, ThreadInv
<1>6. ASSUME TryEvict(t) PROVE LInv'
  <2>0. cursor[t] \in Nat \ {0} /\ (cursor[t] <= Len(used) => used[cursor[t]] \in Keys /\ cursor[t] \in DOMAIN used)
    BY DEF LInv, CacheTypeOK
  <2>1. CacheTypeOK'
    <3>1. owner' \in [Keys -> Threads \cup {None}]
      <4>1. owner' = owner \/ owner' = [owner EXCEPT ![used[cursor[t]]] = t]
        BY <1>6 DEF TryEvict
      <4> QED BY <4>1 DEF LInv, CacheTypeOK
    <3>2. cursor' \in [Threads -> Nat \ {0}]
      <4>1. cursor' = cursor \/ cursor' = [cursor EXCEPT ![t] = cursor[t] + 1]
        BY <1>6 DEF TryEvict
      <4>2. cursor[t] + 1 \in Nat \ {0}
        BY <2>0
      <4> QED BY <4>1, <4>2 DEF LInv, CacheTypeOK
    <3>3. pc' \in [Threads -> Steps]
      <4>1. pc' = pc \/ pc' = [pc EXCEPT ![t] = "open"] \/ pc' = [pc EXCEPT ![t] = "close"]
        BY <1>6 DEF TryEvict
      <4> QED BY <4>1 DEF LInv, CacheTypeOK, Steps
    <3> QED BY <1>6, <3>1, <3>2, <3>3 DEF LInv, CacheTypeOK, TryEvict, cache
  <2>2. FdInv' /\ CallInv'
    BY <1>6 DEF LInv, FdInv, CallInv, TryEvict, CacheTypeOK
  <2>3. ASSUME NEW u \in Threads PROVE ThreadOK(u)'
    <3>0. \A k \in Keys : owner[k] # None => owner'[k] = owner[k]
      BY <1>6, <2>0 DEF TryEvict, LInv, CacheTypeOK
    <3>1. CASE u = t
      <4>1. KeyOf(t)' = KeyOf(t) /\ KeyOf(t) \in Keys /\ UNCHANGED << call, handle >>
        BY <1>6, KeyOfType DEF TryEvict, KeyOf, LInv
      <4>2. pc'[t] \in {"open", "close", "evict"}
        BY <1>6 DEF TryEvict, LInv, CacheTypeOK
      <4>3. pc'[t] = "close" => cursor'[t] \in DOMAIN used /\ owner'[used[cursor'[t]]] = t
        BY <1>6, <2>0 DEF TryEvict, LInv, CacheTypeOK
      <4> QED BY <1>6, <1>0, <3>0, <3>1, <4>1, <4>2, <4>3 DEF TryEvict, ThreadOK, Getting, LInv, ThreadInv
    <3>2. CASE u # t
      BY <1>6, <1>0, <3>0, <3>2, Bystander DEF TryEvict, LInv, CacheTypeOK
    <3> QED BY <3>1, <3>2
  <2> QED BY <1>1, <2>1, <2>2, <2>3 DEF LInv, ThreadInv
<1>7. ASSUME Lookup(t) PROVE LInv'
  <2>0. KeyOf(t) \in Keys /\ call[t].op \in {"log", "decode"}
    BY <1>7, KeyOfType DEF Lookup, LInv
  <2>1. /\ UNCHANGED << owner, call, calls >>
        /\ \/ /\ IsOpen(files[KeyOf(t)])
              /\ handle' = [handle EXCEPT ![t] = files[KeyOf(t)]]
              /\ fdMutex' = None
              /\ pc' = [pc EXCEPT ![t] = AfterGet(t)]
              /\ cursor' = cursor
           \/ /\ ~IsOpen(files[KeyOf(t)])
              /\ handle' = handle
              /\ fdMutex' = fdMutex
              /\ pc' = [pc EXCEPT ![t] = "evict"] \/ pc' = [pc EXCEPT ![t] = "open"]
              /\ cursor' = [cursor EXCEPT ![t] = 1]
    BY <1>7 DEF Lookup, GotStream
  <2>2. AfterGet(t) \in {"read", "write", "find_mutex"}
    BY DEF AfterGet
  <2>3. CacheTypeOK'
    <3>1. pc' \in [Threads -> Steps]
      BY <2>1, <2>2 DEF LInv, CacheTypeOK, Steps
    <3>2. handle' \in [Threads -> DOMAIN streams \cup {None}]
      BY <2>0, <2>1 DEF LInv, CacheTypeOK
    <3>3. cursor' \in [Threads -> Nat \ {0}]
      BY <2>1 DEF LInv, CacheTypeOK
    <3>4. fdMutex' \in Threads \cup {None}
      BY <2>1 DEF LInv, CacheTypeOK
    <3> QED BY <1>0, <2>1, <3>1, <3>2, <3>3, <3>4 DEF LInv, CacheTypeOK
  <2>4. pc[t] = "lookup" /\ fdMutex = t
    BY <1>7 DEF Lookup, LInv, FdInv
  <2>5. FdInv'
    <3>1. \A u \in Threads : u # t => pc'[u] = pc[u]
      BY <2>1 DEF LInv, CacheTypeOK
    <3>2. CASE fdMutex' = None
      <4>1. pc'[t] \notin {"lookup", "evict", "close", "open"}
        BY <2>1, <2>2, <2>4, <3>2 DEF LInv, CacheTypeOK
      <4> QED BY <2>4, <3>1, <3>2, <4>1 DEF LInv, FdInv
    <3>3. CASE fdMutex' = fdMutex
      <4>1. pc'[t] \in {"evict", "open"}
        BY <2>1, <2>4, <3>3 DEF LInv, CacheTypeOK
      <4> QED BY <2>4, <3>1, <3>3, <4>1 DEF LInv, FdInv
    <3> QED BY <2>1, <3>2, <3>3
  <2>6. CallInv'
    BY <2>1, <2>4 DEF LInv, CallInv, CacheTypeOK
  <2>7. ASSUME NEW u \in Threads PROVE ThreadOK(u)'
    <3>1. CASE u = t
      <4>1. KeyOf(t)' = KeyOf(t)
        BY <2>1 DEF KeyOf
      <4>2. CASE IsOpen(files[KeyOf(t)])
        <5>1. handle'[t] = files[KeyOf(t)] /\ handle'[t] # None /\ pc'[t] = AfterGet(t)
          BY <2>1, <4>2 DEF LInv, CacheTypeOK, IsOpen
        <5>2. streams[files[KeyOf(t)]].key = KeyOf(t)
          BY <1>0, <2>0, <4>2 DEF CacheInv, IsOpen
        <5>3. call[t].op = "decode" => owner[KeyOf(t)] = t
          BY <2>4 DEF LInv, ThreadInv, ThreadOK, Getting
        <5>4. /\ pc'[t] = "read" => call[t].op = "decode"
              /\ pc'[t] = "write" => call[t].op = "log" /\ owner[KeyOf(t)] = t
          BY <5>1, <2>0 DEF AfterGet
        <5> QED BY <1>0, <2>1, <2>2, <3>1, <4>1, <5>1, <5>2, <5>3, <5>4 DEF ThreadOK, Getting
      <4>3. CASE ~IsOpen(files[KeyOf(t)])
        <5>1. files[KeyOf(t)] = None
          BY <1>0, <2>0, <4>3 DEF CacheInv, IsOpen
        <5>2. pc'[t] \in {"evict", "open"}
          BY <2>1, <4>3 DEF LInv, CacheTypeOK
        <5>3. call[t].op = "decode" => owner[KeyOf(t)] = t
          BY <2>4 DEF LInv, ThreadInv, ThreadOK, Getting
        <5> QED BY <1>0, <2>1, <3>1, <4>1, <5>1, <5>2, <5>3 DEF ThreadOK, Getting
      <4> QED BY <4>2, <4>3
    <3>2. CASE u # t
      BY <1>0, <2>1, <3>2, Bystander DEF LInv, CacheTypeOK
    <3> QED BY <3>1, <3>2
  <2> QED BY <1>1, <2>3, <2>5, <2>6, <2>7 DEF LInv, ThreadInv
<1> QED BY <1>2, <1>3, <1>4, <1>5, <1>6, <1>7

\* An eviction: one key leaves the list and the map, its stream is closed.
LEMMA CloseLogger ==
    ASSUME LInv, NEW t \in Threads, CloseOlder(t)
    PROVE  LInv'
<1> USE LoggerAssumption
<1> DEFINE i == cursor[t]
           k == used[i]
           s == files[k]
<1>0. /\ CacheTypeOK /\ FdInv /\ CallInv /\ CacheInv /\ ThreadOK(t)
  BY DEF LInv, ThreadInv
<1>1. /\ pc[t] = "close" /\ s # None
      /\ streams' = [streams EXCEPT ![s] = [key |-> k, open |-> FALSE, buf |-> << >>]]
      /\ used' = RemoveAt(used, i)
      /\ files' = [files EXCEPT ![k] = None]
      /\ owner' = [owner EXCEPT ![k] = None]
      /\ pc' = [pc EXCEPT ![t] = "open"]
      /\ UNCHANGED << fdMutex, call, calls, handle, cursor >>
  BY DEF CloseOlder, locals
<1>2. i \in DOMAIN used /\ owner[k] = t /\ k \in Keys /\ s \in DOMAIN streams
  BY <1>0, <1>1 DEF ThreadOK, CacheTypeOK
<1> HIDE DEF i, k, s
<1>3. /\ used' \in Seq(Keys)
      /\ Len(used) \in Nat /\ i \in 1..Len(used) /\ DOMAIN used = 1..Len(used)
      /\ DOMAIN used' = 1..(Len(used) - 1)
      /\ \A j \in 1..(Len(used) - 1) : used'[j] = IF j < i THEN used[j] ELSE used[j + 1]
  <2>1. used \in Seq(Keys)
    BY <1>0 DEF CacheTypeOK
  <2>2. /\ RemoveAt(used, i) \in Seq(Keys)
        /\ Len(RemoveAt(used, i)) = Len(used) - 1
        /\ \A j \in 1..(Len(used) - 1) :
              RemoveAt(used, i)[j] = IF j < i THEN used[j] ELSE used[j + 1]
    BY <1>2, <2>1, RemoveAtFacts
  <2> QED BY <1>1, <1>2, <2>1, <2>2
<1>4. /\ streams' \in Seq(Streams)
      /\ DOMAIN streams' = DOMAIN streams
      /\ \A r \in DOMAIN streams : streams'[r].key = streams[r].key
      /\ \A r \in DOMAIN streams : r # s => streams'[r] = streams[r]
      /\ ~streams'[s].open
  <2>1. streams \in Seq(Streams) /\ streams[s].key = k
    BY <1>0, <1>1, <1>2 DEF CacheTypeOK, CacheInv, s
  <2>2. [key |-> k, open |-> FALSE, buf |-> << >>] \in Streams
    BY <1>2 DEF Streams
  <2> QED BY <1>1, <1>2, <2>1, <2>2
<1>5. CacheTypeOK'
  BY <1>0, <1>1, <1>3, <1>4 DEF CacheTypeOK, Steps
<1>6. FdInv' /\ CallInv'
  BY <1>0, <1>1 DEF FdInv, CallInv, CacheTypeOK
<1>7. CacheInv'
  <2>1. \A j \in DOMAIN used' : used'[j] # k /\ used'[j] \in Keys
    <3>1. \A j \in DOMAIN used : used[j] = k => j = i
      BY <1>0, <1>2 DEF CacheInv, k
    <3> SUFFICES ASSUME NEW j \in DOMAIN used' PROVE used'[j] # k /\ used'[j] \in Keys
      OBVIOUS
    <3>2. j \in DOMAIN used /\ j + 1 \in DOMAIN used /\ j \in 1..(Len(used) - 1)
      BY <1>3
    <3>3. used[j] \in Keys /\ used[j + 1] \in Keys
      BY <1>0, <3>2 DEF CacheTypeOK
    <3>4. CASE j < i
      BY <1>3, <3>1, <3>2, <3>3, <3>4
    <3>5. CASE ~(j < i)
      <4>1. j + 1 # i
        BY <1>3, <3>2, <3>5
      <4> QED BY <1>3, <3>1, <3>2, <3>3, <3>5, <4>1
    <3> QED BY <3>4, <3>5
  <2>2. \A j, l \in DOMAIN used' : used'[j] = used'[l] => j = l
    <3>1. \A j, l \in 1..Len(used) : used[j] = used[l] => j = l
      BY <1>0, <1>3 DEF CacheInv
    <3> SUFFICES ASSUME NEW j \in DOMAIN used', NEW l \in DOMAIN used', used'[j] = used'[l]
                 PROVE  j = l
      OBVIOUS
    <3>2. /\ j \in 1..(Len(used) - 1) /\ l \in 1..(Len(used) - 1)
          /\ {j, j + 1, l, l + 1} \subseteq 1..Len(used)
      BY <1>3
    <3>3. (used'[j] = used[j] /\ j < i) \/ (used'[j] = used[j + 1] /\ j >= i)
      BY <1>3, <3>2
    <3>4. (used'[l] = used[l] /\ l < i) \/ (used'[l] = used[l + 1] /\ l >= i)
      BY <1>3, <3>2
    <3> QED BY <1>3, <3>1, <3>2, <3>3, <3>4
  <2>3. \A j \in DOMAIN used' : \E l \in DOMAIN used : used'[j] = used[l]
    <3> SUFFICES ASSUME NEW j \in DOMAIN used' PROVE \E l \in DOMAIN used : used'[j] = used[l]
      OBVIOUS
    <3>1. j \in DOMAIN used /\ j + 1 \in DOMAIN used
      BY <1>3
    <3> QED BY <1>3, <3>1
  <2>4. \A j \in DOMAIN used' : files'[used'[j]] # None
    BY <1>0, <1>1, <1>2, <2>1, <2>3 DEF CacheInv, CacheTypeOK
  <2>5. ASSUME NEW kk \in Keys, files'[kk] # None
        PROVE  /\ \E j \in DOMAIN used' : used'[j] = kk
               /\ streams'[files'[kk]].key = kk
               /\ streams'[files'[kk]].open
    <3>1. kk # k /\ files'[kk] = files[kk] /\ files[kk] \in DOMAIN streams
      BY <1>0, <1>1, <1>2, <2>5 DEF CacheTypeOK
    <3>2. PICK l \in DOMAIN used : used[l] = kk
      BY <1>0, <2>5, <3>1 DEF CacheInv
    <3>3. l # i
      BY <3>1, <3>2 DEF k
    <3>4. \E j \in DOMAIN used' : used'[j] = kk
      <4>1. CASE l < i
        <5>1. l \in DOMAIN used'
          BY <1>3, <3>2, <4>1
        <5> QED BY <1>3, <3>2, <4>1, <5>1
      <4>2. CASE l > i
        <5>1. l - 1 \in 1..(Len(used) - 1) /\ ~(l - 1 < i) /\ (l - 1) + 1 = l
          BY <1>3, <3>2, <4>2
        <5>2. used'[l - 1] = kk
          BY <1>3, <3>2, <5>1
        <5>3. l - 1 \in DOMAIN used'
          BY <1>3, <5>1
        <5> QED BY <5>2, <5>3
      <4> QED BY <1>3, <3>2, <3>3, <4>1, <4>2
    <3>5. streams[files[kk]].key = kk /\ streams[files[kk]].open
      BY <1>0, <2>5, <3>1 DEF CacheInv
    <3>6. files[kk] # s
      BY <1>0, <1>1, <1>2, <3>1, <3>5 DEF CacheInv, s
    <3> QED BY <1>4, <3>1, <3>4, <3>5, <3>6
  <2>6. OneStream'
    <3> SUFFICES ASSUME NEW r \in DOMAIN streams', streams'[r].open
                 PROVE  files'[streams'[r].key] = r
      BY DEF OneStream
    <3>1. r # s /\ r \in DOMAIN streams /\ streams'[r] = streams[r]
      BY <1>4
    <3>2. files[streams[r].key] = r /\ streams[r].key \in Keys
      <4>1. streams[r].open /\ streams[r] \in Streams
        BY <1>0, <3>1 DEF CacheTypeOK
      <4> QED BY <1>0, <3>1, <4>1 DEF CacheInv, OneStream, Streams
    <3>3. streams[r].key # k
      BY <3>1, <3>2 DEF s
    <3> QED BY <1>0, <1>1, <3>1, <3>2, <3>3 DEF CacheTypeOK
  <2> QED BY <2>2, <2>4, <2>5, <2>6 DEF CacheInv
<1>8. ASSUME NEW u \in Threads PROVE ThreadOK(u)'
  <2>1. CASE u = t
    <3>1. KeyOf(t)' = KeyOf(t) /\ KeyOf(t) \in Keys /\ files[KeyOf(t)] = None
      BY <1>0, <1>1, KeyOfType DEF KeyOf, ThreadOK
    <3>2. KeyOf(t) # k
      BY <1>1, <3>1 DEF s
    <3>3. files'[KeyOf(t)] = None /\ owner'[KeyOf(t)] = owner[KeyOf(t)]
      BY <1>0, <1>1, <3>1, <3>2 DEF CacheTypeOK
    <3>4. pc'[t] = "open"
      BY <1>0, <1>1 DEF CacheTypeOK
    <3> QED BY <1>0, <1>1, <2>1, <3>1, <3>3, <3>4 DEF ThreadOK, Getting
  <2>2. CASE u # t
    <3>1. pc[u] \notin {"evict", "close", "open"}
      BY <1>0, <1>1, <2>2 DEF FdInv
    <3>2. \A kk \in Keys : owner[kk] = u => kk # k
      BY <1>2, <2>2
    <3>3. \A kk \in Keys : owner[kk] = u => owner'[kk] = u /\ files'[kk] = files[kk]
      BY <1>0, <1>1, <3>2 DEF CacheTypeOK
    <3>5. pc[u] \in {"write", "read"} => files'[KeyOf(u)] = files[KeyOf(u)]
      <4>1. pc[u] \in {"write", "read"} => owner[KeyOf(u)] = u /\ KeyOf(u) \in Keys
        BY <1>0, KeyOfType DEF LInv, ThreadInv, ThreadOK
      <4> QED BY <3>3, <4>1
    <3>4. /\ pc'[u] = pc[u] /\ call'[u] = call[u] /\ handle'[u] = handle[u]
          /\ cursor'[u] = cursor[u]
      BY <1>0, <1>1, <2>2 DEF CacheTypeOK
    <3> QED BY <1>4, <3>1, <3>3, <3>4, <3>5, Bystander
  <2> QED BY <2>1, <2>2
<1> QED BY <1>5, <1>6, <1>7, <1>8 DEF LInv, ThreadInv

\* A new stream for a key that has none.
LEMMA OpenLogger ==
    ASSUME LInv, NEW t \in Threads, OpenStream(t)
    PROVE  LInv'
<1> USE LoggerAssumption
<1> DEFINE k == KeyOf(t)
           n == Len(streams) + 1
           s == [key |-> k, open |-> TRUE, buf |-> << >>]
<1>0. /\ CacheTypeOK /\ FdInv /\ CallInv /\ CacheInv /\ ThreadOK(t)
  BY DEF LInv, ThreadInv
<1>1. /\ pc[t] = "open"
      /\ used' = Append(used, k)
      /\ streams' = Append(streams, s)
      /\ files' = [files EXCEPT ![k] = n]
      /\ handle' = [handle EXCEPT ![t] = n]
      /\ fdMutex' = None
      /\ pc' = [pc EXCEPT ![t] = AfterGet(t)]
      /\ UNCHANGED << owner, call, calls, cursor >>
  BY DEF OpenStream, GotStream
<1>2. k \in Keys /\ call[t].op \in {"log", "decode"} /\ files[k] = None
  BY <1>0, <1>1, KeyOfType DEF ThreadOK
<1>3. AfterGet(t) \in {"read", "write", "find_mutex"}
  BY DEF AfterGet
<1> HIDE DEF k
<1>4. /\ streams' \in Seq(Streams)
      /\ n \in Nat /\ n \notin DOMAIN streams
      /\ DOMAIN streams' = DOMAIN streams \cup {n}
      /\ \A r \in DOMAIN streams : streams'[r] = streams[r]
      /\ streams'[n] = s
  <2>1. streams \in Seq(Streams) /\ s \in Streams
    BY <1>0, <1>2 DEF CacheTypeOK, Streams
  <2> HIDE DEF s
  <2> QED BY <1>1, <2>1
<1>5. /\ used' \in Seq(Keys) /\ Len(used) + 1 \notin DOMAIN used
      /\ DOMAIN used' = DOMAIN used \cup {Len(used) + 1}
      /\ \A i \in DOMAIN used : used'[i] = used[i]
      /\ used'[Len(used) + 1] = k
  <2>1. used \in Seq(Keys)
    BY <1>0 DEF CacheTypeOK
  <2> QED BY <1>1, <1>2, <2>1
<1>6. \A i \in DOMAIN used : used[i] # k
  BY <1>0, <1>2 DEF CacheInv
<1>7. n # None
  BY <1>4
<1>8. n \in DOMAIN streams' /\ DOMAIN streams \subseteq DOMAIN streams'
  BY <1>4
<1> HIDE DEF n
<1>9. CacheTypeOK'
  <2>1. pc' \in [Threads -> Steps]
    BY <1>0, <1>1, <1>3 DEF CacheTypeOK, Steps
  <2>2. /\ files' \in [Keys -> DOMAIN streams' \cup {None}]
        /\ handle' \in [Threads -> DOMAIN streams' \cup {None}]
    BY <1>0, <1>1, <1>8 DEF CacheTypeOK
  <2> QED BY <1>0, <1>1, <1>4, <1>5, <2>1, <2>2 DEF CacheTypeOK
<1>10. FdInv' /\ CallInv'
  <2>1. fdMutex = t
    BY <1>0, <1>1 DEF FdInv
  <2>2. pc'[t] \notin {"lookup", "evict", "close", "open"}
    BY <1>0, <1>1, <1>3 DEF CacheTypeOK
  <2>3. \A u \in Threads : u # t => pc'[u] = pc[u]
    BY <1>0, <1>1 DEF CacheTypeOK
  <2>4. FdInv'
    BY <1>0, <1>1, <2>1, <2>2, <2>3 DEF FdInv
  <2>5. CallInv'
    BY <1>0, <1>1, <2>3 DEF CallInv
  <2> QED BY <2>4, <2>5
<1>11. CacheInv'
  <2>1. \A i, j \in DOMAIN used' : used'[i] = used'[j] => i = j
    BY <1>0, <1>5, <1>6 DEF CacheInv
  <2>2. \A kk \in Keys : files'[kk] = IF kk = k THEN n ELSE files[kk]
    BY <1>0, <1>1 DEF CacheTypeOK
  <2>3. \A i \in DOMAIN used' : files'[used'[i]] # None
    <3>1. \A i \in DOMAIN used : used[i] \in Keys /\ files[used[i]] # None
      BY <1>0 DEF CacheInv, CacheTypeOK
    <3> QED BY <1>2, <1>5, <1>7, <2>2, <3>1
  <2>4. ASSUME NEW kk \in Keys, files'[kk] # None
        PROVE  /\ \E i \in DOMAIN used' : used'[i] = kk
               /\ streams'[files'[kk]].key = kk
               /\ streams'[files'[kk]].open
    <3>1. CASE kk = k
      BY <1>4, <1>5, <2>2, <3>1
    <3>2. CASE kk # k
      <4>1. files'[kk] = files[kk] /\ files[kk] \in DOMAIN streams
        BY <1>0, <2>2, <2>4, <3>2 DEF CacheTypeOK
      <4>2. /\ \E i \in DOMAIN used : used[i] = kk
            /\ streams[files[kk]].key = kk
            /\ streams[files[kk]].open
        BY <1>0, <2>4, <4>1 DEF CacheInv
      <4> QED BY <1>4, <1>5, <4>1, <4>2
    <3> QED BY <3>1, <3>2
  <2>5. OneStream'
    <3> SUFFICES ASSUME NEW r \in DOMAIN streams', streams'[r].open
                 PROVE  files'[streams'[r].key] = r
      BY DEF OneStream
    <3>1. CASE r = n
      BY <1>2, <1>4, <2>2, <3>1
    <3>2. CASE r # n
      <4>1. r \in DOMAIN streams /\ streams'[r] = streams[r]
        BY <1>4, <3>2
      <4>2. files[streams[r].key] = r /\ streams[r] \in Streams
        BY <1>0, <4>1 DEF CacheInv, OneStream, CacheTypeOK
      <4>3. streams[r].key \in Keys
        BY <4>2 DEF Streams
      <4>4. r # None
        BY <1>0, <4>1 DEF CacheTypeOK
      <4> QED BY <1>2, <2>2, <4>1, <4>2, <4>3, <4>4
    <3> QED BY <3>1, <3>2
  <2> QED BY <2>1, <2>3, <2>4, <2>5 DEF CacheInv
<1>12. ASSUME NEW u \in Threads PROVE ThreadOK(u)'
  <2>1. CASE u = t
    <3>1. KeyOf(t)' = k
      BY <1>1 DEF KeyOf, k
    <3>2. handle'[t] = n /\ files'[k] = n /\ pc'[t] = AfterGet(t) /\ streams'[n].key = k
      BY <1>0, <1>1, <1>2, <1>4 DEF CacheTypeOK
    <3>3. call[t].op = "decode" => owner[k] = t
      BY <1>0, <1>1 DEF ThreadOK, Getting, k
    <3>4. /\ pc'[t] = "read" => call[t].op = "decode"
          /\ pc'[t] = "write" => call[t].op = "log" /\ owner[k] = t
      BY <1>2, <3>2 DEF AfterGet, k
    <3>5. pc'[t] \in {"read", "write", "find_mutex"}
      BY <1>3, <3>2
    <3> QED BY <1>1, <1>7, <2>1, <3>1, <3>2, <3>3, <3>4, <3>5 DEF ThreadOK, Getting
  <2>2. CASE u # t
    <3>1. pc[u] \notin {"evict", "close", "open"}
      BY <1>0, <1>1, <2>2 DEF FdInv
    <3>2. pc[u] \in {"write", "read"} => files'[KeyOf(u)] = files[KeyOf(u)]
      <4> SUFFICES ASSUME pc[u] \in {"write", "read"} PROVE files'[KeyOf(u)] = files[KeyOf(u)]
        OBVIOUS
      <4>1. files[KeyOf(u)] # None
        BY DEF LInv, ThreadInv, ThreadOK
      <4>2. KeyOf(u) \in Keys /\ KeyOf(u) # k
        BY <1>0, <1>2, <4>1, KeyOfType
      <4> QED BY <1>0, <1>1, <4>2 DEF CacheTypeOK
    <3>3. /\ pc'[u] = pc[u] /\ call'[u] = call[u] /\ handle'[u] = handle[u]
          /\ cursor'[u] = cursor[u] /\ owner' = owner
      BY <1>0, <1>1, <2>2 DEF CacheTypeOK
    <3> QED BY <1>4, <3>1, <3>2, <3>3, Bystander
  <2> QED BY <2>1, <2>2
<1> QED BY <1>9, <1>10, <1>11, <1>12 DEF LInv, ThreadInv

\* log_decode goes on only if the key has a log file.
LEMMA CheckExistsLogger ==
    ASSUME LInv, NEW t \in Threads, CheckExists(t)
    PROVE  LInv'
<1> USE LoggerAssumption
<1>0. CacheTypeOK /\ FdInv /\ CallInv /\ CacheInv /\ ThreadOK(t)
  BY DEF LInv, ThreadInv
<1>1. pc[t] = "exists" /\ UNCHANGED << fdMutex, files, streams, used, calls, cursor >>
  BY DEF CheckExists, cache
<1>2. CASE Return(t)
  BY <1>0, <1>1, <1>2, ReturnLogger DEF CacheTypeOK
<1>3. CASE pc' = [pc EXCEPT ![t] = "find_mutex"] /\ UNCHANGED << call, handle, owner >>
  <2>1. CacheTypeOK' /\ FdInv' /\ CallInv'
    BY <1>0, <1>1, <1>3 DEF CacheTypeOK, FdInv, CallInv, Steps
  <2>2. CacheInv'
    BY <1>0, <1>1 DEF CacheInv, OneStream
  <2>3. ASSUME NEW u \in Threads PROVE ThreadOK(u)'
    <3>1. CASE u = t
      BY <1>0, <1>1, <1>3, <3>1 DEF CacheTypeOK, ThreadOK, Getting
    <3>2. CASE u # t
      BY <1>0, <1>1, <1>3, <3>2, Bystander DEF CacheTypeOK
    <3> QED BY <3>1, <3>2
  <2> QED BY <2>1, <2>2, <2>3 DEF LInv, ThreadInv
<1> QED BY <1>2, <1>3 DEF CheckExists

\* Writing an entry, or failing to, and reading a log: the end of a call.
LEMMA UseLogger ==
    ASSUME LInv, NEW t \in Threads, Write(t) \/ WriteNothing(t) \/ Read(t)
    PROVE  LInv'
<1> USE LoggerAssumption
<1>0. CacheTypeOK /\ CallInv /\ ThreadOK(t)
  BY DEF LInv, ThreadInv
<1>1. /\ pc[t] \in {"write", "read"} /\ Return(t)
      /\ UNCHANGED << fdMutex, files, used, calls, cursor >>
  BY DEF Write, WriteNothing, Read, cache
<1>2. handle[t] \in DOMAIN streams /\ streams \in Seq(Streams) /\ streams[handle[t]] \in Streams
  BY <1>0, <1>1 DEF ThreadOK, CacheTypeOK
<1>3. \/ streams' = streams
      \/ streams' = [streams EXCEPT ![handle[t]].buf = Append(@, Entry(t))]
      \/ streams' = [streams EXCEPT ![handle[t]].buf = << >>]
  BY DEF Write, WriteNothing, Read, cache
<1>4. PICK b \in Seq(LogEntries) :
         streams' = streams \/ streams' = [streams EXCEPT ![handle[t]].buf = b]
  <2>1. Entry(t) \in LogEntries
    <3>1. call[t] \in Calls
      BY <1>0, <1>1 DEF CallInv
    <3> QED BY <3>1 DEF Entry, LogEntries, Calls
  <2>2. Append(streams[handle[t]].buf, Entry(t)) \in Seq(LogEntries)
    BY <1>2, <2>1 DEF Streams
  <2>3. << >> \in Seq(LogEntries)
    OBVIOUS
  <2> QED BY <1>3, <2>2, <2>3
<1>5. /\ streams' \in Seq(Streams)
      /\ Len(streams') = Len(streams)
      /\ \A s \in DOMAIN streams : /\ streams'[s].key = streams[s].key
                                    /\ streams'[s].open = streams[s].open
  <2>1. CASE streams' = streams
    BY <1>2, <2>1
  <2>2. CASE streams' = [streams EXCEPT ![handle[t]].buf = b]
    <3>1. [streams[handle[t]] EXCEPT !.buf = b] \in Streams
      BY <1>2 DEF Streams
    <3> QED BY <1>2, <2>2, <3>1 DEF Streams
  <2> QED BY <1>4, <2>1, <2>2
<1> QED BY <1>1, <1>5, ReturnLogger

-----------------------------------------------------------------------------

\* Every step preserves the invariant, if opening a log file does not fail.
LEMMA NextLogger ==
    ASSUME LInv, [Next]_vars, ~OpenFaults
    PROVE  LInv'
<1>1. CASE UNCHANGED vars
  BY <1>1 DEF vars, cache, locals, LInv, CacheTypeOK, FdInv, CallInv, CacheInv, OneStream,
              ThreadInv, ThreadOK, KeyOf, Getting
<1>2. CASE Crash
  BY <1>2, RestartLogger DEF Crash
<1>3. ASSUME NEW t \in Threads, Start(t) \/ Work(t) PROVE LInv'
  <2>1. CASE Start(t) \/ LockFds(t) \/ Lookup(t) \/ TryEvict(t) \/ FindMutex(t) \/ LockKey(t)
    BY <2>1, LockStepsLogger
  <2>2. CASE CloseOlder(t)
    BY <2>2, CloseLogger
  <2>3. CASE CloseNull(t)
    BY <2>3, RestartLogger DEF CloseNull
  <2>4. CASE OpenStream(t)
    BY <2>4, OpenLogger
  <2>5. CASE CheckExists(t)
    BY <2>5, CheckExistsLogger
  <2>6. CASE Write(t) \/ WriteNothing(t) \/ Read(t)
    BY <2>6, UseLogger
  <2>7. ~OpenFails(t)
    BY DEF OpenFails
  <2> QED BY <1>3, <2>1, <2>2, <2>3, <2>4, <2>5, <2>6, <2>7 DEF Work
<1> QED BY <1>1, <1>2, <1>3 DEF Next

\* The invariant holds in every behaviour without failing opens.
LEMMA LoggerInductive ==
    ASSUME ~OpenFaults PROVE Spec => []LInv
<1>1. LInv /\ [Next]_vars => LInv'
  BY NextLogger
<1> QED BY InitLogger, <1>1, PTL DEF Spec

(***************************************************************************)
(* Entries land in their files: when log_encoded_query writes or           *)
(* log_decode reads, the thread has the key's mutex, and its stream is     *)
(* open and the cached one, whatever other threads evicted in between.     *)
(***************************************************************************)
THEOREM EntriesLand ==
    ASSUME ~OpenFaults PROVE Spec => []WritesLand
<1>1. LInv => WritesLand
  <2> SUFFICES ASSUME LInv, NEW t \in Threads, pc[t] \in {"write", "read"}
               PROVE  owner[KeyOf(t)] = t /\ IsOpen(handle[t]) /\ files[KeyOf(t)] = handle[t]
    BY DEF WritesLand
  <2>1. owner[KeyOf(t)] = t /\ handle[t] # None /\ handle[t] = files[KeyOf(t)]
    BY DEF LInv, ThreadInv, ThreadOK
  <2>2. KeyOf(t) \in Keys
    BY KeyOfType DEF LInv
  <2> QED BY <2>1, <2>2 DEF LInv, CacheInv, IsOpen
<1> QED BY <1>1, LoggerInductive, PTL

(***************************************************************************)
(* A key never has two open streams, so two threads that log the same key  *)
(* never write into different buffers of one file.                         *)
(***************************************************************************)
THEOREM SingleStream ==
    ASSUME ~OpenFaults PROVE Spec => []OneStream
<1>1. LInv => OneStream
  BY DEF LInv, CacheInv
<1> QED BY <1>1, LoggerInductive, PTL

(***************************************************************************)
(* close_older_fd never dereferences a null stream, as long as every file  *)
(* could be opened: list and map name the same keys.                       *)
(***************************************************************************)
THEOREM EvictionFindsStream ==
    ASSUME ~OpenFaults PROVE Spec => []NoNullStream
<1>1. LInv => NoNullStream
  BY DEF LInv, CacheInv, ThreadInv, ThreadOK, NoNullStream
<1> QED BY <1>1, LoggerInductive, PTL

=============================================================================
