-------------------------- MODULE HistoryLogProofs --------------------------
(***************************************************************************)
(* What the logs hold and how many files are open, for any number of       *)
(* threads, keys and crashes: the logger implements one append-only        *)
(* sequence per key, its types hold, and the limit of open files is        *)
(* exceeded only by keys in use.  The stream cache's invariant, LInv, is   *)
(* that of HistoryLoggerProofs.                                            *)
(***************************************************************************)
EXTENDS HistoryLoggerProofs, FiniteSetTheorems, FunctionTheorems

\* What a file holds.
Bytes == LogEntries \cup {Torn}

(***************************************************************************)
(* The files and what was read of them.  A key without a file has an empty *)
(* log and no stream, so a decode that finds no file misses nothing.       *)
(***************************************************************************)
FileInv ==
    /\ crashes \in Nat
    /\ exists \subseteq Keys
    /\ disk \in [Keys -> Seq(Bytes)]
    /\ mutexes \subseteq Keys
    /\ entries \in [Threads -> Seq(Bytes)]
    /\ \A t \in Threads : Front(entries[t]) \in Seq(LogEntries)
    /\ \A k \in Keys \ exists : disk[k] = << >> /\ files[k] = None
    /\ \A t \in Threads : /\ pc[t] = "idle" => call[t] = None
                          /\ pc[t] # "idle" => entries[t] = << >>

\* The mutexes a thread has: its key's, and that of the key it evicts.
OwnInv ==
    \A u \in Threads, k \in Keys : owner[k] = u =>
       \/ pc[u] \in Getting \cup {"write", "read"} /\ k = KeyOf(u)
       \/ pc[u] = "close" /\ k = used[cursor[u]]

\* Nobody reads logs.
NoDecode == \A t \in Threads : Ops[t] \subseteq {"log"}

Limit == Max({MaxOpen, Cardinality(Threads)})

\* The keys that close_older_fd found in use.
Passed(t) == {used[i] : i \in 1..(cursor[t] - 1)}

\* u uses k, or gave its key up and cannot take another one before t is done.
SpentOn(u, k) ==
    owner[k] = u \/ (pc[u] \in {"idle", "want_fd"} /\ \A j \in Keys : owner[j] # u)

\* Each of the keys that t has passed is due to another thread of its own.
EvictOK(t) ==
    /\ cursor[t] <= Len(used) + 1
    /\ \E g \in [Passed(t) -> Threads \ {t}] :
          /\ \A p, q \in Passed(t) : g[p] = g[q] => p = q
          /\ \A p \in Passed(t) : SpentOn(g[p], p)

\* There is room for the stream that a thread is about to open.
LimitInv ==
    /\ \A t \in Threads : pc[t] # "idle" => call[t].op = "log"
    /\ IsFiniteSet(Cached)
    /\ Cardinality(Cached) <= Limit
    /\ \A t \in Threads : pc[t] = "open" => Cardinality(Cached) < Limit
    /\ \A t \in Threads : pc[t] = "evict" => EvictOK(t)

-----------------------------------------------------------------------------

\* A set of positions that is not empty has a first one.
LEMMA MinFacts ==
    ASSUME NEW I \in SUBSET Nat, I # {}
    PROVE  Min(I) \in I /\ \A i \in I : Min(I) <= i
<1> DEFINE R == {ss \in Nat \X Nat : ss[1] < ss[2]}
<1>1. IsWellFoundedOn(R, Nat)
  BY NatLessThanWellFounded DEF OpToRel
<1>2. \E m \in I : \A i \in I : <<i, m>> \notin R
  <2> HIDE DEF R
  <2> QED BY <1>1, WFMin
<1>3. \E m \in I : \A i \in I : m <= i
  <2>1. PICK m \in I : \A i \in I : <<i, m>> \notin R
    BY <1>2
  <2>2. ASSUME NEW i \in I PROVE m <= i
    <3>1. i \in Nat /\ m \in Nat /\ <<i, m>> \notin R
      BY <2>1
    <3>2. ~(i < m)
      BY <3>1
    <3> QED BY <3>1, <3>2
  <2> QED BY <2>2
<1> QED BY <1>3 DEF Min

\* What a decode returns of a file: what it holds, up to the first torn entry.
LEMMA ReadableFacts ==
    ASSUME NEW s \in Seq(Bytes)
    PROVE  Readable(s) \in Seq(Bytes) /\ Front(Readable(s)) \in Seq(LogEntries)
<1> DEFINE I == {i \in 1..Len(s) : s[i] = Torn}
           n == SelectInSeq(s, LAMBDA e : e = Torn)
           r == IF n = 0 THEN s ELSE SubSeq(s, 1, n)
<1>0. n = IF I # {} THEN Min(I) ELSE 0
  BY DEF SelectInSeq
<1>1. Readable(s) = r
  BY DEF Readable
<1>2. \A i \in 1..Len(s) : s[i] \in Bytes
  OBVIOUS
<1>3. I # {} => Min(I) \in I /\ \A i \in I : Min(I) <= i
  <2>1. I \in SUBSET Nat
    OBVIOUS
  <2> HIDE DEF I
  <2> QED BY <2>1, MinFacts
<1> HIDE DEF n
<1>4. /\ n \in 0..Len(s)
      /\ n = 0 => I = {}
      /\ \A i \in I : n <= i
  BY <1>0, <1>3
<1>5. /\ r \in Seq(Bytes) /\ Len(r) \in Nat /\ Len(r) <= Len(s)
      /\ \A i \in 1..Len(r) : r[i] = s[i]
      /\ n # 0 => Len(r) = n
  <2>1. CASE n = 0
    BY <2>1
  <2>2. CASE n # 0
    BY <1>2, <1>4, <2>2, SubSeqProperties
  <2> QED BY <2>1, <2>2
<1> HIDE DEF r
<1>6. \A i \in 1..(Len(r) - 1) : r[i] \in LogEntries
  <2> SUFFICES ASSUME NEW i \in 1..(Len(r) - 1) PROVE r[i] \in LogEntries
    OBVIOUS
  <2>1. r[i] = s[i] /\ i \in 1..Len(s) /\ s[i] \in Bytes
    BY <1>2, <1>5
  <2>2. i \notin I
    BY <1>4, <1>5, <2>1
  <2> QED BY <2>1, <2>2 DEF Bytes
<1>7. SubSeq(r, 1, Len(r) - 1) \in Seq(LogEntries)
  BY <1>5, <1>6, SubSeqProperties
<1> QED BY <1>1, <1>5, <1>7 DEF Front

\* What reaches a file of a lost buffer is made of the buffer's entries.
LEMMA PartsType ==
    ASSUME NEW b \in Seq(LogEntries), NEW p \in Parts(b)
    PROVE  p \in Seq(Bytes)
<1>1. \A n \in 0..Len(b) : SubSeq(b, 1, n) \in Seq(Bytes)
  <2> SUFFICES ASSUME NEW n \in 0..Len(b) PROVE SubSeq(b, 1, n) \in Seq(Bytes)
    OBVIOUS
  <2>1. \A i \in 1..n : b[i] \in Bytes
    BY DEF Bytes
  <2> QED BY <2>1, SubSeqProperties
<1>2. Torn \in Bytes
  BY DEF Bytes
<1>3. \A n \in 0..(Len(b) - 1) : Append(SubSeq(b, 1, n), Torn) \in Seq(Bytes)
  BY <1>1, <1>2
<1> QED BY <1>1, <1>3 DEF Parts

\* A lost buffer may also leave nothing behind.
LEMMA NothingLeft ==
    ASSUME NEW S, NEW b \in Seq(S) PROVE << >> \in Parts(b)
<1>1. SubSeq(b, 1, 0) = << >>
  BY SubSeqEmpty
<1>2. 0 \in 0..Len(b)
  OBVIOUS
<1> QED BY <1>1, <1>2 DEF Parts

\* Appending to the second half appends to the whole.
LEMMA AppendConcat ==
    ASSUME NEW S, NEW d \in Seq(S), NEW b \in Seq(S), NEW e \in S
    PROVE  d \o Append(b, e) = Append(d \o b, e)
<1>1. Append(b, e) = b \o << e >> /\ << e >> \in Seq(S)
  BY AppendIsConcat
<1>2. (d \o b) \o << e >> = d \o (b \o << e >>) /\ d \o b \in Seq(S)
  BY <1>1, ConcatAssociative, ConcatProperties
<1>3. Append(d \o b, e) = (d \o b) \o << e >>
  BY <1>2, AppendIsConcat
<1> QED BY <1>1, <1>2, <1>3

\* Both halves of a sequence that was put together.
LEMMA Halves ==
    ASSUME NEW S, NEW d \in Seq(S), NEW b \in Seq(S)
    PROVE  /\ SubSeq(d \o b, 1, Len(d)) = d
           /\ SubSeq(d \o b, Len(d) + 1, Len(d \o b)) = b
<1> DEFINE c == d \o b
<1>1. /\ c \in Seq(S) /\ Len(c) = Len(d) + Len(b)
      /\ \A i \in 1..(Len(d) + Len(b)) : c[i] = IF i <= Len(d) THEN d[i] ELSE b[i - Len(d)]
      /\ \A i \in 1..Len(c) : c[i] \in S
  BY ConcatProperties
<1> HIDE DEF c
<1>2. SubSeq(c, 1, Len(d)) = d
  <2> DEFINE e == SubSeq(c, 1, Len(d))
  <2>1. /\ e \in Seq(S) /\ Len(e) = Len(d)
        /\ \A i \in 1..Len(d) : e[i] = c[i]
    BY <1>1, SubSeqProperties
  <2> HIDE DEF e
  <2>2. \A i \in 1..Len(e) : e[i] = d[i]
    BY <1>1, <2>1
  <2>3. e = d
    BY <2>1, <2>2, SeqEqual
  <2> QED BY <2>3 DEF e
<1>3. SubSeq(c, Len(d) + 1, Len(c)) = b
  <2> DEFINE e == SubSeq(c, Len(d) + 1, Len(c))
  <2>1. /\ e \in Seq(S) /\ Len(e) = Len(b)
        /\ \A i \in 1..Len(b) : e[i] = c[Len(d) + i]
    <3>1. /\ Len(d) + 1 \in Int /\ Len(c) \in Int
          /\ \A i \in (Len(d) + 1)..Len(c) : c[i] \in S
      BY <1>1
    <3>2. /\ e \in Seq(S)
          /\ Len(e) = IF Len(d) + 1 <= Len(c) THEN Len(c) - (Len(d) + 1) + 1 ELSE 0
          /\ \A i \in 1..(Len(c) - (Len(d) + 1) + 1) : e[i] = c[Len(d) + 1 + i - 1]
      BY <3>1, SubSeqProperties
    <3> HIDE DEF e
    <3> QED BY <1>1, <3>2
  <2> HIDE DEF e
  <2>2. ASSUME NEW i \in 1..Len(e) PROVE e[i] = b[i]
    <3>1. i \in 1..Len(b) /\ e[i] = c[Len(d) + i]
      BY <2>1
    <3>2. Len(d) + i \in 1..(Len(d) + Len(b)) /\ ~(Len(d) + i <= Len(d)) /\ (Len(d) + i) - Len(d) = i
      BY <3>1
    <3> QED BY <1>1, <3>1, <3>2
  <2>3. e = b
    BY <2>1, <2>2, SeqEqual
  <2> QED BY <2>3 DEF e
<1> QED BY <1>2, <1>3 DEF c

-----------------------------------------------------------------------------

\* The initial state satisfies the invariant.
LEMMA FileInit == Init => FileInv
<1> SUFFICES ASSUME Init PROVE FileInv
  OBVIOUS
<1>1. Front(<< >>) \in Seq(LogEntries)
  BY SubSeqEmpty DEF Front
<1> QED BY <1>1 DEF Init, FileInv, Bytes

\* What is left of a log file after the end of the process is a log file, and
\* a key that had none still has none.
LEMMA FileRestart ==
    ASSUME LInv, FileInv, Restarted PROVE FileInv'
<1> DEFINE B(k) == {streams[s].buf : s \in {i \in DOMAIN streams : streams[i].key = k /\ streams[i].open}}
<1>0. disk \in [Keys -> Seq(Bytes)] /\ streams \in Seq(Streams)
  BY DEF FileInv, LInv, CacheTypeOK
<1>1. ASSUME NEW k \in Keys, NEW l \in Left(k)
      PROVE  l \in Seq(Bytes) /\ (k \notin exists => l = << >>)
  <2>1. CASE l = disk[k]
    BY <1>0, <2>1 DEF FileInv
  <2>2. CASE l # disk[k]
    <3>1. PICK b \in B(k) : \E p \in Parts(b) : l = disk[k] \o p
      <4>1. l \in {disk[k]} \cup UNION {{disk[k] \o p : p \in Parts(b)} : b \in B(k)}
        BY Zenon DEF Left
      <4> HIDE DEF B
      <4>2. PICK L \in {{disk[k] \o p : p \in Parts(b)} : b \in B(k)} : l \in L
        BY <2>2, <4>1
      <4>3. PICK b \in B(k) : L = {disk[k] \o p : p \in Parts(b)}
        BY <4>2
      <4>4. \E p \in Parts(b) : l = disk[k] \o p
        BY <4>2, <4>3, Zenon
      <4> QED BY <4>3, <4>4
    <3>2. PICK s \in DOMAIN streams : streams[s].key = k /\ streams[s].open /\ b = streams[s].buf
      BY <3>1
    <3> HIDE DEF B
    <3>3. b \in Seq(LogEntries)
      <4>1. streams[s] \in Streams
        BY <1>0
      <4> QED BY <3>2, <4>1 DEF Streams
    <3>4. PICK p \in Parts(b) : l = disk[k] \o p
      BY <3>1
    <3>5. p \in Seq(Bytes)
      BY <3>3, PartsType
    <3>6. files[k] = s /\ s # None
      BY <3>2, LoggerAssumption DEF LInv, CacheInv, OneStream, CacheTypeOK
    <3> QED BY <1>0, <3>4, <3>5, <3>6, ConcatProperties DEF FileInv
  <2> QED BY <2>1, <2>2
<1>2. /\ \A k \in Keys : disk'[k] \in Left(k)
      /\ \E D : disk' \in [Keys -> D]
  BY DEF Restarted
<1>3. disk' \in [Keys -> Seq(Bytes)] /\ \A k \in Keys \ exists' : disk'[k] = << >>
  BY <1>1, <1>2 DEF Restarted
<1>4. Front(<< >>) \in Seq(LogEntries)
  BY SubSeqEmpty DEF Front
<1> QED BY <1>3, <1>4 DEF Restarted, FileInv

\* The stream a thread is about to write to or read from.
LEMMA StreamInHand ==
    ASSUME LInv, NEW t \in Threads, pc[t] \in {"write", "read"}
    PROVE  /\ KeyOf(t) \in Keys /\ call[t] \in Calls
           /\ call[t].op = IF pc[t] = "write" THEN "log" ELSE "decode"
           /\ handle[t] \in DOMAIN streams /\ files[KeyOf(t)] = handle[t]
           /\ IsOpen(handle[t])
           /\ streams[handle[t]] \in Streams
           /\ streams[handle[t]].key = KeyOf(t)
           /\ streams[handle[t]].buf \in Seq(LogEntries)
           /\ streams[handle[t]].buf \in Seq(Bytes)
<1>1. KeyOf(t) \in Keys /\ call[t] \in Calls
  BY KeyOfType DEF LInv
<1>2. handle[t] # None /\ handle[t] = files[KeyOf(t)] /\ handle[t] \in DOMAIN streams
  BY DEF LInv, ThreadInv, ThreadOK, CacheTypeOK
<1>3. streams[handle[t]].key = KeyOf(t) /\ IsOpen(handle[t])
  BY <1>1, <1>2 DEF LInv, CacheInv, IsOpen
<1>4. streams[handle[t]] \in Streams
  BY <1>2 DEF LInv, CacheTypeOK
<1>5. streams[handle[t]].buf \in Seq(LogEntries)
  BY <1>4 DEF Streams
<1>6. streams[handle[t]].buf \in Seq(Bytes)
  BY <1>5, SeqMonotonic DEF Bytes
<1>7. call[t].op = IF pc[t] = "write" THEN "log" ELSE "decode"
  BY DEF LInv, ThreadInv, ThreadOK
<1> QED BY <1>1, <1>2, <1>3, <1>4, <1>5, <1>6, <1>7

\* The key and the stream that close_older_fd is about to close.
LEMMA StreamToClose ==
    ASSUME LInv, NEW t \in Threads, pc[t] = "close"
    PROVE  LET k == used[cursor[t]] IN
           /\ cursor[t] \in DOMAIN used /\ k \in Keys /\ owner[k] = t
           /\ files[k] # None /\ files[k] \in DOMAIN streams
           /\ streams[files[k]] \in Streams
           /\ streams[files[k]].key = k /\ streams[files[k]].open
           /\ streams[files[k]].buf \in Seq(Bytes)
<1> DEFINE k == used[cursor[t]]
<1>1. cursor[t] \in DOMAIN used /\ k \in Keys /\ owner[k] = t
  BY DEF LInv, ThreadInv, ThreadOK, CacheTypeOK
<1>2. files[k] # None
  BY <1>1 DEF LInv, CacheInv
<1> HIDE DEF k
<1>3. files[k] \in DOMAIN streams /\ streams[files[k]].key = k /\ streams[files[k]].open
  BY <1>1, <1>2 DEF LInv, CacheInv, CacheTypeOK
<1>4. streams[files[k]] \in Streams
  BY <1>3 DEF LInv, CacheTypeOK
<1>5. streams[files[k]].buf \in Seq(LogEntries)
  BY <1>4 DEF Streams
<1>6. streams[files[k]].buf \in Seq(Bytes)
  BY <1>5, SeqMonotonic DEF Bytes
<1> QED BY <1>1, <1>2, <1>3, <1>4, <1>6 DEF k

\* Every step keeps the files and what was read of them well-formed.
LEMMA FileStep ==
    ASSUME LInv, FileInv, [Next]_vars, ~OpenFaults
    PROVE  FileInv'
<1> USE LoggerAssumption
<1>0. pc \in [Threads -> Steps] /\ call \in [Threads -> Calls \cup {None}] /\ files \in [Keys -> DOMAIN streams \cup {None}]
  BY DEF LInv, CacheTypeOK
<1>a. Front(<< >>) \in Seq(LogEntries) /\ << >> \in Seq(Bytes)
  BY SubSeqEmpty DEF Front
<1>1. CASE UNCHANGED vars
  BY <1>1 DEF vars, store, cache, locals, FileInv
<1>2. CASE Crash
  BY <1>2, FileRestart DEF Crash
<1>3. ASSUME NEW t \in Threads, Start(t) \/ Work(t) PROVE FileInv'
  <2>0. pc[t] # "idle" => KeyOf(t) \in Keys
    BY KeyOfType DEF LInv
  <2>1. CASE Start(t)
    BY <1>0, <1>a, <2>1 DEF Start, FileInv, store, cache
  <2>2. CASE LockFds(t) \/ Lookup(t) \/ TryEvict(t) \/ FindMutex(t) \/ LockKey(t)
    <3>1. /\ UNCHANGED << crashes, exists, disk, files, call, entries >>
          /\ mutexes' = mutexes \/ mutexes' = mutexes \cup {KeyOf(t)}
          /\ pc[t] # "idle"
      BY <2>2 DEF LockFds, Lookup, TryEvict, FindMutex, LockKey, store, cache, locals
    <3>2. pc'[t] # "idle"
      <4>1. AfterGet(t) # "idle"
        BY DEF AfterGet
      <4> QED BY <1>0, <2>2, <4>1 DEF LockFds, Lookup, TryEvict, FindMutex, LockKey, GotStream
    <3>3. \A u \in Threads \ {t} : pc'[u] = pc[u]
      BY <1>0, <2>2 DEF LockFds, Lookup, TryEvict, FindMutex, LockKey, GotStream
    <3> QED BY <2>0, <3>1, <3>2, <3>3 DEF FileInv
  <2>3. CASE CloseOlder(t)
    <3> DEFINE k == used[cursor[t]]
               b == streams[files[k]].buf
    <3>1. k \in Keys /\ files[k] # None /\ b \in Seq(Bytes)
      BY <2>3, StreamToClose DEF CloseOlder
    <3>2. /\ disk' = [disk EXCEPT ![k] = @ \o b]
          /\ files' = [files EXCEPT ![k] = None]
          /\ pc' = [pc EXCEPT ![t] = "open"] /\ pc[t] # "idle"
          /\ UNCHANGED << crashes, exists, mutexes, call, entries >>
      BY <2>3 DEF CloseOlder, locals
    <3> HIDE DEF k, b
    <3>3. disk[k] \o b \in Seq(Bytes)
      BY <3>1, ConcatProperties DEF FileInv
    <3>4. k \in exists
      BY <3>1 DEF FileInv
    <3> QED BY <1>0, <3>1, <3>2, <3>3, <3>4 DEF FileInv
  <2>4. CASE CloseNull(t)
    BY <2>4, FileRestart DEF CloseNull
  <2>5. CASE OpenStream(t)
    <3>1. AfterGet(t) # "idle"
      BY DEF AfterGet
    <3> QED BY <1>0, <2>0, <2>5, <3>1 DEF OpenStream, GotStream, FileInv
  <2>6. CASE CheckExists(t)
    BY <1>0, <2>6 DEF CheckExists, Return, FileInv, store, cache
  <2>7. CASE Write(t) \/ WriteNothing(t)
    <3>1. UNCHANGED << crashes, exists, disk, mutexes, files, entries >> /\ Return(t)
      BY <2>7 DEF Write, WriteNothing, store, cache
    <3> QED BY <1>0, <3>1 DEF Return, FileInv
  <2>8. CASE Read(t)
    <3> DEFINE k == KeyOf(t)
               b == streams[handle[t]].buf
    <3>1. k \in Keys /\ files[k] = handle[t] /\ handle[t] \in DOMAIN streams /\ b \in Seq(Bytes) /\ IsOpen(handle[t])
      BY <2>8, StreamInHand DEF Read
    <3>2. /\ disk' = [disk EXCEPT ![k] = @ \o b]
          /\ entries' = [entries EXCEPT ![t] = Readable(disk'[k])]
          /\ Return(t)
          /\ UNCHANGED << crashes, exists, mutexes, files >>
      BY <2>8, <3>1 DEF Read
    <3> HIDE DEF k, b
    <3>3. disk[k] \o b \in Seq(Bytes) /\ disk'[k] = disk[k] \o b
      BY <3>1, <3>2, ConcatProperties DEF FileInv
    <3>4. k \in exists
      BY <3>1 DEF FileInv, LInv, CacheTypeOK
    <3>5. Readable(disk'[k]) \in Seq(Bytes) /\ Front(Readable(disk'[k])) \in Seq(LogEntries)
      BY <3>3, ReadableFacts
    <3> QED BY <1>0, <3>1, <3>2, <3>3, <3>4, <3>5 DEF FileInv, Return
  <2>9. ~OpenFails(t)
    BY DEF OpenFails
  <2> QED BY <1>3, <2>1, <2>2, <2>3, <2>4, <2>5, <2>6, <2>7, <2>8, <2>9 DEF Work
<1> QED BY <1>1, <1>2, <1>3 DEF Next

\* Files and cache together.
LEMMA FilesInductive ==
    ASSUME ~OpenFaults PROVE Spec => [](LInv /\ FileInv)
<1>1. (LInv /\ FileInv) /\ [Next]_vars => (LInv /\ FileInv)'
  BY NextLogger, FileStep
<1> QED BY InitLogger, FileInit, <1>1, PTL DEF Spec

(***************************************************************************)
(* Type correctness of the logger: also after any number of crashes, a     *)
(* decode returns entries that were written, with at most one torn one,    *)
(* the last.                                                               *)
(***************************************************************************)
THEOREM LoggerTypes ==
    ASSUME ~OpenFaults PROVE Spec => []TypeOK
<1>1. LInv /\ FileInv => TypeOK
  BY DEF LInv, FileInv, TypeOK, Bytes
<1> QED BY <1>1, FilesInductive, PTL

-----------------------------------------------------------------------------
(* One append-only sequence per key.                                       *)

\* extract_key_from_filename gives back every key.
NamesReadBack == \A k \in Keys : FileKey[k] = k

\* The abstract log is decoded like a file.
LEMMA SameReadable == \A s : Log!Readable(s) = Readable(s)
BY DEF Readable, Log!Readable, SelectInSeq, Log!SelectInSeq, Min, Log!Min

\* The abstract log loses what a buffer may lose.
LEMMA SameParts == \A b : Log!Parts(b) = Parts(b)
BY DEF Parts, Log!Parts

\* The buffer of a key's stream, if it has one.
Buffer(k) == IF files[k] = None THEN << >> ELSE streams[files[k]].buf

\* What is logged for a key is what its file holds, then what its buffer holds.
LEMMA ContentFacts ==
    ASSUME LInv, FileInv, NEW k \in Keys
    PROVE  /\ Content(k) = disk[k] \o Buffer(k)
           /\ disk[k] \in Seq(Bytes) /\ Buffer(k) \in Seq(Bytes) /\ Content(k) \in Seq(Bytes)
           /\ Len(disk[k]) \in Nat
           /\ SubSeq(Content(k), 1, Len(disk[k])) = disk[k]
           /\ SubSeq(Content(k), Len(disk[k]) + 1, Len(Content(k))) = Buffer(k)
<1>1. Content(k) = disk[k] \o Buffer(k)
  BY DEF Content, Buffer
<1>2. Buffer(k) \in Seq(Bytes)
  <2>1. CASE files[k] = None
    BY <2>1 DEF Buffer
  <2>2. CASE files[k] # None
    <3>1. streams[files[k]] \in Streams
      BY <2>2 DEF LInv, CacheTypeOK
    <3>2. streams[files[k]].buf \in Seq(LogEntries)
      BY <3>1 DEF Streams
    <3> QED BY <2>2, <3>2, SeqMonotonic DEF Buffer, Bytes
  <2> QED BY <2>1, <2>2
<1>3. disk[k] \in Seq(Bytes) /\ Len(disk[k]) \in Nat
  BY DEF FileInv
<1>4. disk[k] \o Buffer(k) \in Seq(Bytes)
  BY <1>2, <1>3, ConcatProperties
<1>5. /\ SubSeq(disk[k] \o Buffer(k), 1, Len(disk[k])) = disk[k]
      /\ SubSeq(disk[k] \o Buffer(k), Len(disk[k]) + 1, Len(disk[k] \o Buffer(k))) = Buffer(k)
  BY <1>2, <1>3, Halves, Zenon
<1> QED BY <1>1, <1>2, <1>3, <1>4, <1>5

\* Steps that callers cannot see.
LEMMA LogStutter ==
    ASSUME UNCHANGED << disk, call, entries >>, \A k \in Keys : Content(k)' = Content(k)
    PROVE  UNCHANGED Log!avars
BY DEF Log!avars

\* The process ends: of every log all that was in its file is left, and a
\* part of what was not.
LEMMA LogCrash ==
    ASSUME LInv, FileInv, Restarted PROVE Log!Crash
<1>0. FileInv' /\ LInv'
  BY FileRestart, RestartLogger
<1>1. ASSUME NEW k \in Keys
      PROVE  Content(k)' = disk'[k] /\ disk'[k] \in Left(k)
  <2>1. Content(k)' = disk'[k] \o << >>
    BY DEF Restarted, Content
  <2>2. disk'[k] \in Seq(Bytes)
    BY <1>0 DEF FileInv
  <2> QED BY <2>1, <2>2, ConcatEmptySeq DEF Restarted
<1>2. ASSUME NEW k \in Keys, NEW l \in Left(k)
      PROVE  \E p \in Parts(Buffer(k)) : l = disk[k] \o p
  <2> DEFINE B == {streams[s].buf : s \in {i \in DOMAIN streams : streams[i].key = k /\ streams[i].open}}
  <2>1. CASE l = disk[k]
    <3>1. << >> \in Parts(Buffer(k)) /\ disk[k] \o << >> = disk[k]
      BY ContentFacts, NothingLeft, ConcatEmptySeq
    <3> QED BY <2>1, <3>1
  <2>2. CASE l # disk[k]
    <3>1. l \in {disk[k]} \cup UNION {{disk[k] \o p : p \in Parts(b)} : b \in B}
      BY Zenon DEF Left
    <3>2. ASSUME NEW b \in B PROVE b = Buffer(k)
      <4>1. PICK s \in DOMAIN streams : streams[s].key = k /\ streams[s].open /\ b = streams[s].buf
        OBVIOUS
      <4>2. files[k] = s /\ s # None
        BY <4>1, LoggerAssumption DEF LInv, CacheInv, OneStream, CacheTypeOK
      <4> QED BY <4>1, <4>2 DEF Buffer
    <3> HIDE DEF B
    <3>3. PICK L \in {{disk[k] \o p : p \in Parts(b)} : b \in B} : l \in L
      BY <2>2, <3>1
    <3>4. PICK b \in B : L = {disk[k] \o p : p \in Parts(b)}
      BY <3>3
    <3>5. \E p \in Parts(b) : l = disk[k] \o p
      BY <3>3, <3>4, Zenon
    <3> QED BY <3>2, <3>5
  <2> QED BY <2>1, <2>2
<1>3. ASSUME NEW k \in Keys
      PROVE  Content(k)' \in Log!Left(k)
  <2>1. PICK p \in Parts(Buffer(k)) : disk'[k] = disk[k] \o p
    BY <1>1, <1>2
  <2>2. Log!Left(k) = {disk[k] \o q : q \in Parts(Buffer(k))}
    BY ContentFacts, SameParts DEF Log!Left
  <2> QED BY <1>1, <2>1, <2>2
<1>4. [k \in Keys |-> Len(disk[k])]' = [k \in Keys |-> Len(Content(k)')]
  BY <1>1
<1> QED BY <1>3, <1>4 DEF Log!Crash, Restarted

\* An entry that is written is appended to its key's log.
LEMMA LogWrite ==
    ASSUME LInv, FileInv, NEW t \in Threads, Write(t)
    PROVE  Log!AppendEntry(t)
<1>0. PICK k, s : k = call[t].key /\ s = handle[t]
  OBVIOUS
<1>1. /\ pc[t] = "write" /\ Return(t)
      /\ UNCHANGED << disk, files, entries >>
  BY DEF Write, store
<1>2. /\ KeyOf(t) = k /\ k \in Keys /\ call[t].op = "log" /\ call[t] \in Calls
      /\ s \in DOMAIN streams /\ files[k] = s /\ streams[s] \in Streams /\ IsOpen(s)
      /\ streams[s].key = k /\ streams[s].buf \in Seq(Bytes)
  BY <1>0, <1>1, StreamInHand DEF KeyOf
<1>3. streams' = [streams EXCEPT ![s].buf = Append(@, Entry(t))]
  BY <1>0, <1>2 DEF Write
<1>4. s # None /\ call[t] # None
  BY <1>2, LoggerAssumption DEF IsOpen, Calls
<1>5. Entry(t) \in Bytes
  BY <1>2 DEF Entry, Bytes, LogEntries, Calls
<1>6. ASSUME NEW j \in Keys
      PROVE  Content(j)' = IF j = k THEN Append(Content(j), Entry(t)) ELSE Content(j)
  <2>1. CASE j = k
    <3>1. Content(k) = disk[k] \o streams[s].buf /\ disk[k] \in Seq(Bytes)
      BY <1>2, <1>4, ContentFacts DEF Buffer
    <3>2. streams'[s].buf = Append(streams[s].buf, Entry(t))
      BY <1>2, <1>3 DEF LInv, CacheTypeOK, Streams
    <3>3. Content(k)' = disk[k] \o Append(streams[s].buf, Entry(t))
      BY <1>1, <1>2, <1>4, <3>2 DEF Content
    <3>4. disk[k] \o Append(streams[s].buf, Entry(t)) = Append(disk[k] \o streams[s].buf, Entry(t))
      <4>1. streams[s].buf \in Seq(Bytes)
        BY <1>2
      <4>2. \A d, b \in Seq(Bytes) : \A e \in Bytes : d \o Append(b, e) = Append(d \o b, e)
        BY AppendConcat
      <4> QED BY <1>5, <3>1, <4>1, <4>2, Zenon
    <3> QED BY <2>1, <3>1, <3>3, <3>4
  <2>2. CASE j # k
    <3>1. files[j] # None => files[j] \in DOMAIN streams /\ files[j] # s
      BY <1>2, <2>2 DEF LInv, CacheTypeOK, CacheInv
    <3>2. files[j] # None => streams'[files[j]] = streams[files[j]]
      BY <1>2, <1>3, <3>1 DEF LInv, CacheTypeOK
    <3> QED BY <1>1, <2>2, <3>2 DEF Content
  <2> QED BY <2>1, <2>2
<1>7. Log!Entry(t) = Entry(t)
  BY DEF Log!Entry, Entry
<1>8. [j \in Keys |-> Content(j)]' = [[j \in Keys |-> Content(j)] EXCEPT ![k] = Append(@, Entry(t))]
  BY <1>2, <1>6
<1> QED BY <1>0, <1>1, <1>2, <1>4, <1>7, <1>8 DEF Log!AppendEntry, Return

\* What is read is the whole log, which is safe from then on.
LEMMA LogRead ==
    ASSUME LInv, FileInv, NamesReadBack, NEW t \in Threads, Read(t)
    PROVE  Log!Decode(t)
<1>0. PICK k, s : k = call[t].key /\ s = handle[t]
  OBVIOUS
<1>1. /\ pc[t] = "read" /\ Return(t)
      /\ UNCHANGED files
  BY DEF Read
<1>2. /\ KeyOf(t) = k /\ k \in Keys /\ call[t].op = "decode" /\ call[t] \in Calls
      /\ s \in DOMAIN streams /\ files[k] = s /\ streams[s] \in Streams /\ IsOpen(s)
      /\ streams[s].key = k /\ streams[s].buf \in Seq(Bytes)
  BY <1>0, <1>1, StreamInHand DEF KeyOf, NamesReadBack, Calls
<1>3. /\ streams' = [streams EXCEPT ![s].buf = << >>]
      /\ disk' = [disk EXCEPT ![k] = @ \o streams[s].buf]
      /\ entries' = [entries EXCEPT ![t] = Readable(disk'[k])]
  BY <1>0, <1>2 DEF Read
<1>4. s # None /\ call[t] # None
  BY <1>2, LoggerAssumption DEF IsOpen, Calls
<1>5. Content(k) = disk[k] \o streams[s].buf /\ Content(k) \in Seq(Bytes)
  BY <1>2, <1>4, ContentFacts DEF Buffer
<1>6. disk'[k] = Content(k)
  BY <1>2, <1>3, <1>5 DEF FileInv
<1>7. ASSUME NEW j \in Keys
      PROVE  Content(j)' = Content(j) /\ (j # k => disk'[j] = disk[j])
  <2>1. CASE j = k
    <3>1. streams'[s].buf = << >>
      BY <1>2, <1>3 DEF LInv, CacheTypeOK, Streams
    <3>2. Content(k)' = disk'[k] \o << >>
      BY <1>1, <1>2, <1>4, <3>1 DEF Content
    <3> QED BY <1>5, <1>6, <2>1, <3>2, ConcatEmptySeq
  <2>2. CASE j # k
    <3>1. files[j] # None => files[j] \in DOMAIN streams /\ files[j] # s
      BY <1>2, <2>2 DEF LInv, CacheTypeOK, CacheInv
    <3>2. files[j] # None => streams'[files[j]] = streams[files[j]]
      BY <1>2, <1>3, <3>1 DEF LInv, CacheTypeOK
    <3>3. disk'[j] = disk[j]
      BY <1>3, <2>2 DEF FileInv
    <3> QED BY <1>1, <2>2, <3>2, <3>3 DEF Content
  <2> QED BY <2>1, <2>2
<1>8. [j \in Keys |-> Content(j)]' = [j \in Keys |-> Content(j)]
  BY <1>7
<1>9. [j \in Keys |-> Len(disk[j])]' = [[j \in Keys |-> Len(disk[j])] EXCEPT ![k] = Len(Content(k))]
  BY <1>2, <1>6, <1>7
<1>10. entries' = [entries EXCEPT ![t] = Log!Readable(Content(k))]
  BY <1>3, <1>6, SameReadable
<1> QED BY <1>0, <1>1, <1>2, <1>4, <1>8, <1>9, <1>10 DEF Log!Decode, Return

\* A key without a file has an empty log, and that is what its decode returns.
LEMMA LogMiss ==
    ASSUME LInv, FileInv, NEW t \in Threads, CheckExists(t), call[t].key \notin exists
    PROVE  Log!Decode(t)
<1>0. PICK k : k = call[t].key
  OBVIOUS
<1>1. /\ pc[t] = "exists" /\ Return(t)
      /\ UNCHANGED << disk, files, streams, entries >>
  BY DEF CheckExists, store, cache
<1>2. call[t] \in Calls /\ call[t].op = "decode"
  BY <1>1 DEF LInv, CallInv, ThreadInv, ThreadOK
<1>3. k \in Keys /\ call[t] # None
  BY <1>0, <1>2, LoggerAssumption DEF Calls
<1>4. disk[k] = << >> /\ files[k] = None /\ entries[t] = << >>
  BY <1>0, <1>1, <1>3 DEF FileInv
<1>5. Content(k) = << >>
  BY <1>4, ConcatEmptySeq DEF Content
<1>6. Readable(<< >>) = << >>
  <2>1. {i \in 1..Len(<< >>) : << >>[i] = Torn} = {}
    OBVIOUS
  <2>2. SelectInSeq(<< >>, LAMBDA e : e = Torn) = 0
    BY <2>1 DEF SelectInSeq
  <2> QED BY <2>2 DEF Readable
<1>7. entries' = [entries EXCEPT ![t] = Log!Readable(Content(k))]
  BY <1>1, <1>4, <1>5, <1>6, SameReadable DEF FileInv
<1>8. [j \in Keys |-> Content(j)]' = [j \in Keys |-> Content(j)]
  BY <1>1 DEF Content
<1>9. [j \in Keys |-> Len(disk[j])]' = [[j \in Keys |-> Len(disk[j])] EXCEPT ![k] = Len(Content(k))]
  BY <1>1, <1>4, <1>5
<1> QED BY <1>0, <1>1, <1>2, <1>3, <1>7, <1>8, <1>9 DEF Log!Decode, Return

\* Closing a stream makes the entries in its buffer safe.
LEMMA LogClose ==
    ASSUME LInv, FileInv, NEW t \in Threads, CloseOlder(t)
    PROVE  \E k \in Keys : Log!Settle(k)
<1>0. PICK k, s : k = used[cursor[t]] /\ s = files[k]
  OBVIOUS
<1>1. /\ pc[t] = "close"
      /\ disk' = [disk EXCEPT ![k] = @ \o streams[s].buf]
      /\ streams' = [streams EXCEPT ![s] = [key |-> k, open |-> FALSE, buf |-> << >>]]
      /\ files' = [files EXCEPT ![k] = None]
      /\ UNCHANGED << call, entries >>
  BY <1>0 DEF CloseOlder, locals
<1>2. /\ k \in Keys /\ s # None /\ s \in DOMAIN streams /\ streams[s].key = k
      /\ streams[s].buf \in Seq(Bytes)
  BY <1>0, <1>1, StreamToClose
<1>3. Content(k) = disk[k] \o streams[s].buf /\ Content(k) \in Seq(Bytes)
  BY <1>0, <1>2, ContentFacts DEF Buffer
<1>4. disk'[k] = Content(k)
  BY <1>1, <1>2, <1>3 DEF FileInv
<1>5. ASSUME NEW j \in Keys
      PROVE  Content(j)' = Content(j) /\ (j # k => disk'[j] = disk[j])
  <2>1. CASE j = k
    <3>1. files'[k] = None
      BY <1>1, <1>2 DEF LInv, CacheTypeOK
    <3>2. Content(k)' = disk'[k] \o << >>
      BY <3>1 DEF Content
    <3> QED BY <1>3, <1>4, <2>1, <3>2, ConcatEmptySeq
  <2>2. CASE j # k
    <3>1. files[j] # None => files[j] \in DOMAIN streams /\ files[j] # s
      BY <1>0, <1>2, <2>2 DEF LInv, CacheTypeOK, CacheInv
    <3>2. files[j] # None => streams'[files[j]] = streams[files[j]]
      BY <1>1, <1>2, <3>1 DEF LInv, CacheTypeOK
    <3>3. disk'[j] = disk[j] /\ files'[j] = files[j]
      BY <1>1, <2>2 DEF FileInv, LInv, CacheTypeOK
    <3> QED BY <2>2, <3>2, <3>3 DEF Content
  <2> QED BY <2>1, <2>2
<1>6. [j \in Keys |-> Content(j)]' = [j \in Keys |-> Content(j)]
  BY <1>5
<1>7. [j \in Keys |-> Len(disk[j])]' = [[j \in Keys |-> Len(disk[j])] EXCEPT ![k] = Len(Content(k))]
  BY <1>2, <1>4, <1>5
<1>8. Log!Settle(k)
  BY <1>1, <1>2, <1>6, <1>7 DEF Log!Settle
<1> QED BY <1>2, <1>8

\* Every step is one of the abstract log or invisible to its callers.
LEMMA LogStep ==
    ASSUME LInv, FileInv, [Next]_vars, ~OpenFaults, NamesReadBack
    PROVE  [Log!Next]_(Log!avars)
<1> USE LoggerAssumption
<1>0. /\ files \in [Keys -> DOMAIN streams \cup {None}] /\ streams \in Seq(Streams)
      /\ call \in [Threads -> Calls \cup {None}] /\ calls \in [Threads -> Nat]
  BY DEF LInv, CacheTypeOK
<1>1. CASE UNCHANGED vars
  BY <1>1, LogStutter DEF vars, store, cache, locals, Content
<1>2. CASE Crash
  BY <1>2, LogCrash DEF Crash, Log!Next
<1>3. ASSUME NEW t \in Threads, Start(t) \/ Work(t) PROVE [Log!Next]_(Log!avars)
  <2>1. CASE Start(t)
    <3>1. UNCHANGED << disk, files, streams >> /\ entries' = [entries EXCEPT ![t] = << >>] /\ pc[t] = "idle"
      BY <2>1 DEF Start, store, cache
    <3>2. call[t] = None
      BY <3>1 DEF FileInv
    <3>3. PICK op \in Ops[t], k \in Keys :
             call' = [call EXCEPT ![t] = [op |-> op, key |-> k, nr |-> calls[t] + 1]]
      BY <2>1 DEF Start
    <3>4. PICK c : c = [op |-> op, key |-> k, nr |-> calls[t] + 1]
      OBVIOUS
    <3>5. c \in [op : {"log", "decode"}, key : Keys, nr : Nat]
      <4>1. op \in {"log", "decode"} /\ calls[t] + 1 \in Nat
        BY <1>0
      <4> QED BY <3>4, <4>1
    <3>6. call' = [call EXCEPT ![t] = c]
      BY <3>3, <3>4
    <3>7. call'[t] = c
      BY <1>0, <3>6
    <3>8. [j \in Keys |-> Content(j)]' = [j \in Keys |-> Content(j)]
      BY <3>1 DEF Content
    <3>9. Log!Start(t)
      BY <3>1, <3>2, <3>5, <3>6, <3>7, <3>8 DEF Log!Start
    <3> QED BY <3>9 DEF Log!Next
  <2>2. CASE LockFds(t) \/ Lookup(t) \/ TryEvict(t) \/ FindMutex(t) \/ LockKey(t)
    <3>1. UNCHANGED << disk, files, streams, call, entries >>
      BY <2>2 DEF LockFds, Lookup, TryEvict, FindMutex, LockKey, store, cache, locals
    <3> QED BY <3>1, LogStutter DEF Content
  <2>3. CASE CloseOlder(t)
    BY <2>3, LogClose DEF Log!Next
  <2>4. CASE CloseNull(t)
    BY <2>4, LogCrash DEF CloseNull, Log!Next
  <2>5. CASE OpenStream(t)
    <3>0. PICK k, n : k = KeyOf(t) /\ n = Len(streams) + 1
      OBVIOUS
    <3>1. /\ UNCHANGED << disk, call, entries >> /\ pc[t] = "open"
          /\ streams' = Append(streams, [key |-> k, open |-> TRUE, buf |-> << >>])
          /\ files' = [files EXCEPT ![k] = n]
      BY <2>5, <3>0 DEF OpenStream
    <3>2. k \in Keys /\ files[k] = None
      BY <3>0, <3>1, KeyOfType DEF LInv, ThreadInv, ThreadOK
    <3>3. /\ \A i \in DOMAIN streams : streams'[i] = streams[i]
          /\ streams'[n].buf = << >> /\ n # None
      <4>1. PICK r : r = [key |-> k, open |-> TRUE, buf |-> << >>]
        OBVIOUS
      <4>2. r \in Streams /\ r.buf = << >>
        BY <3>2, <4>1 DEF Streams
      <4>3. streams' = Append(streams, r)
        BY <3>1, <4>1
      <4>4. streams'[n] = r /\ n \in Nat /\ \A i \in DOMAIN streams : streams'[i] = streams[i]
        BY <1>0, <3>0, <4>2, <4>3, AppendProperties
      <4> QED BY <4>2, <4>4
    <3>4. ASSUME NEW j \in Keys PROVE Content(j)' = Content(j)
      BY <1>0, <3>1, <3>2, <3>3 DEF Content
    <3> QED BY <3>1, <3>4, LogStutter
  <2>6. CASE CheckExists(t)
    <3>1. CASE call[t].key \in exists
      BY <2>6, <3>1, LogStutter DEF CheckExists, store, cache, Content
    <3>2. CASE call[t].key \notin exists
      BY <2>6, <3>2, LogMiss DEF Log!Next
    <3> QED BY <3>1, <3>2
  <2>7. CASE Write(t)
    BY <2>7, LogWrite DEF Log!Next
  <2>8. CASE WriteNothing(t)
    <3>1. /\ EncryptFaults /\ pc[t] = "write" /\ Return(t)
          /\ UNCHANGED << disk, files, streams, entries >>
      BY <2>8 DEF WriteNothing, store, cache
    <3>2. call[t] \in Calls /\ call[t].op = "log"
      BY <3>1 DEF LInv, CallInv, ThreadInv, ThreadOK
    <3>3. call[t] # None
      BY <3>2 DEF Calls
    <3>4. [j \in Keys |-> Content(j)]' = [j \in Keys |-> Content(j)]
      BY <3>1 DEF Content
    <3>5. Log!DropEntry(t)
      BY <3>1, <3>2, <3>3, <3>4 DEF Log!DropEntry, Return
    <3> QED BY <3>5 DEF Log!Next
  <2>9. CASE Read(t)
    BY <2>9, LogRead DEF Log!Next
  <2>10. ~OpenFails(t)
    BY DEF OpenFails
  <2> QED BY <1>3, <2>1, <2>2, <2>3, <2>4, <2>5, <2>6, <2>7, <2>8, <2>9, <2>10 DEF Work
<1> QED BY <1>1, <1>2, <1>3 DEF Next

(***************************************************************************)
(* The logger implements one append-only sequence per key: with any number *)
(* of threads, keys, open files and crashes, every entry goes to its log   *)
(* once and in the order of the writes, a decode returns the log at one    *)
(* moment of the call, and what was in the file is never lost.  Log files  *)
(* can be opened, and their names give back their keys.                    *)
(***************************************************************************)
THEOREM LogPromiseKept ==
    ASSUME ~OpenFaults, NamesReadBack PROVE Spec => ImplementsLog
<1>1. Init => Log!Init
  <2> SUFFICES ASSUME Init PROVE Log!Init
    OBVIOUS
  <2>1. \A k \in Keys : Content(k) = << >> /\ Len(disk[k]) = 0
    BY ConcatEmptySeq DEF Init, Content
  <2> QED BY <2>1 DEF Init, Log!Init
<1>2. (LInv /\ FileInv) /\ [Next]_vars => [Log!Next]_(Log!avars)
  BY LogStep
<1> QED BY <1>1, <1>2, FilesInductive, PTL DEF Spec, ImplementsLog, Log!Spec

-----------------------------------------------------------------------------
(* The limit of open files.                                                *)

\* A step of t leaves the mutexes of another thread alone.
LEMMA OwnBystander ==
    ASSUME OwnInv, NEW u \in Threads, NEW k \in Keys, owner'[k] = u, owner[k] = u,
           pc'[u] = pc[u], call'[u] = call[u], cursor'[u] = cursor[u],
           pc[u] = "close" => used' = used
    PROVE  \/ pc'[u] \in Getting \cup {"write", "read"} /\ k = KeyOf(u)'
           \/ pc'[u] = "close" /\ k = used'[cursor'[u]]
<1>1. KeyOf(u)' = KeyOf(u)
  BY DEF KeyOf
<1> QED BY <1>1 DEF OwnInv

\* Every step keeps the mutexes where they belong.
LEMMA OwnStep ==
    ASSUME LInv, OwnInv, [Next]_vars, ~OpenFaults
    PROVE  OwnInv'
<1> USE LoggerAssumption
<1>0. CacheTypeOK /\ FdInv
  BY DEF LInv
<1>1. CASE UNCHANGED vars
  BY <1>1 DEF vars, cache, locals, OwnInv, KeyOf
<1>2. CASE Restarted
  BY <1>2 DEF Restarted, OwnInv
<1>3. ASSUME NEW t \in Threads, Start(t) \/ Work(t), ~Restarted PROVE OwnInv'
  <2> SUFFICES ASSUME NEW u \in Threads, NEW k \in Keys, owner'[k] = u
               PROVE  \/ pc'[u] \in Getting \cup {"write", "read"} /\ k = KeyOf(u)'
                      \/ pc'[u] = "close" /\ k = used'[cursor'[u]]
    BY DEF OwnInv
  <2>0. u = t /\ owner[k] = t => \/ pc[t] \in Getting \cup {"write", "read"} /\ k = KeyOf(t)
                                 \/ pc[t] = "close" /\ k = used[cursor[t]]
    BY DEF OwnInv
  <2>a. call'[t] = call[t] => KeyOf(t)' = KeyOf(t)
    BY DEF KeyOf
  <2>b. pc[t] # "idle" => KeyOf(t) \in Keys
    BY KeyOfType DEF LInv
  <2>1. CASE Start(t)
    <3>1. owner' = owner /\ used' = used /\ pc[t] = "idle"
      BY <2>1 DEF Start, cache
    <3>2. u # t
      BY <2>0, <3>1 DEF Getting
    <3> QED BY <1>0, <2>1, <3>1, <3>2, OwnBystander DEF Start, CacheTypeOK
  <2>2. CASE LockFds(t)
    <3>1. owner' = owner /\ used' = used /\ call' = call /\ cursor' = cursor
      BY <2>2 DEF LockFds, cache, locals
    <3>2. CASE u = t
      BY <1>0, <2>0, <2>2, <2>a, <3>1, <3>2 DEF LockFds, CacheTypeOK, Getting
    <3>3. CASE u # t
      BY <1>0, <2>2, <3>1, <3>3, OwnBystander DEF LockFds, CacheTypeOK
    <3> QED BY <3>2, <3>3
  <2>3. CASE Lookup(t)
    <3>1. owner' = owner /\ used' = used /\ call' = call /\ pc[t] = "lookup"
          /\ (u # t => pc'[u] = pc[u] /\ cursor'[u] = cursor[u])
      BY <1>0, <2>3 DEF Lookup, GotStream, cache, CacheTypeOK
    <3>2. CASE u = t
      <4>1. k = KeyOf(t) /\ owner[KeyOf(t)] = t
        BY <2>0, <3>1, <3>2
      <4>2. call[t].op \in {"log", "decode"}
        BY <3>1, KeyOfType DEF LInv
      <4>3. AfterGet(t) \in {"read", "write"}
        BY <4>1, <4>2 DEF AfterGet
      <4>4. pc'[t] \in {AfterGet(t), "evict", "open"}
        BY <1>0, <2>3 DEF Lookup, GotStream, CacheTypeOK
      <4> QED BY <2>a, <3>1, <3>2, <4>1, <4>3, <4>4 DEF Getting
    <3>3. CASE u # t
      BY <3>1, <3>3, OwnBystander
    <3> QED BY <3>2, <3>3
  <2>4. CASE TryEvict(t)
    <3>0. UNCHANGED << used, call >> /\ pc[t] = "evict"
      BY <2>4 DEF TryEvict, cache
    <3>1. owner[k] = u \/ (u = t /\ k = used[cursor[t]] /\ pc'[t] = "close" /\ cursor' = cursor)
      BY <1>0, <2>4 DEF TryEvict, CacheTypeOK
    <3>2. CASE u = t /\ owner[k] = t
      <4>1. k = KeyOf(t)
        BY <2>0, <3>0, <3>2
      <4>2. pc'[t] \in {"open", "close", "evict"}
        BY <1>0, <2>4 DEF TryEvict, CacheTypeOK
      <4> QED BY <2>a, <3>0, <3>2, <4>1, <4>2 DEF Getting
    <3>3. CASE u # t
      <4>1. pc'[u] = pc[u] /\ cursor'[u] = cursor[u]
        BY <1>0, <2>4, <3>3 DEF TryEvict, CacheTypeOK
      <4> QED BY <3>0, <3>1, <3>3, <4>1, OwnBystander
    <3> QED BY <3>0, <3>1, <3>2, <3>3
  <2>5. CASE CloseOlder(t)
    <3>1. /\ owner' = [owner EXCEPT ![used[cursor[t]]] = None]
          /\ pc' = [pc EXCEPT ![t] = "open"] /\ pc[t] = "close"
          /\ UNCHANGED << call, cursor >>
      BY <2>5 DEF CloseOlder, locals
    <3>2. owner[k] = u /\ k # used[cursor[t]]
      BY <1>0, <3>1 DEF CacheTypeOK
    <3>3. CASE u = t
      BY <1>0, <2>0, <2>a, <3>1, <3>2, <3>3 DEF CacheTypeOK, Getting
    <3>4. CASE u # t
      <4>1. pc[u] # "close" /\ pc'[u] = pc[u]
        BY <1>0, <3>1, <3>4 DEF FdInv, CacheTypeOK
      <4> QED BY <3>1, <3>2, <4>1, OwnBystander
    <3> QED BY <3>3, <3>4
  <2>6. CASE OpenStream(t)
    <3>1. /\ pc' = [pc EXCEPT ![t] = AfterGet(t)] /\ pc[t] = "open"
          /\ UNCHANGED << owner, call, cursor >>
      BY <2>6 DEF OpenStream, GotStream
    <3>2. CASE u = t
      <4>1. k = KeyOf(t) /\ owner[KeyOf(t)] = t
        BY <2>0, <3>1, <3>2
      <4>2. call[t].op \in {"log", "decode"}
        BY <3>1, KeyOfType DEF LInv
      <4>3. AfterGet(t) \in {"read", "write"}
        BY <4>1, <4>2 DEF AfterGet
      <4> QED BY <1>0, <2>a, <3>1, <3>2, <4>1, <4>3 DEF CacheTypeOK
    <3>3. CASE u # t
      <4>1. pc[u] # "close" /\ pc'[u] = pc[u]
        BY <1>0, <3>1, <3>3 DEF FdInv, CacheTypeOK
      <4> QED BY <3>1, <4>1, OwnBystander
    <3> QED BY <3>2, <3>3
  <2>7. CASE LockKey(t)
    <3>1. /\ owner' = [owner EXCEPT ![KeyOf(t)] = t] /\ pc[t] = "lock_key"
          /\ pc' = [pc EXCEPT ![t] = "write"] \/ pc' = [pc EXCEPT ![t] = "want_fd"]
          /\ UNCHANGED << used, call, cursor >>
      BY <2>7 DEF LockKey, cache, locals
    <3>2. CASE u = t
      <4>1. owner[k] # t
        BY <2>0, <3>1, <3>2 DEF Getting
      <4>2. k = KeyOf(t)
        BY <1>0, <2>b, <3>1, <3>2, <4>1 DEF CacheTypeOK
      <4> QED BY <1>0, <2>a, <3>1, <3>2, <4>2 DEF CacheTypeOK, Getting
    <3>3. CASE u # t
      <4>1. pc'[u] = pc[u] /\ owner[k] = u
        BY <1>0, <2>b, <3>1, <3>3 DEF CacheTypeOK
      <4> QED BY <3>1, <4>1, OwnBystander
    <3> QED BY <3>2, <3>3
  <2>8. CASE FindMutex(t) \/ (CheckExists(t) /\ call[t].key \in exists)
    <3>1. /\ UNCHANGED << owner, used, call, cursor >> /\ pc[t] \in {"find_mutex", "exists"}
          /\ pc' = [pc EXCEPT ![t] = "find_mutex"] \/ pc' = [pc EXCEPT ![t] = "lock_key"]
      BY <2>8 DEF FindMutex, CheckExists, cache, locals
    <3>2. u # t
      BY <2>0, <3>1 DEF Getting
    <3> QED BY <1>0, <3>1, <3>2, OwnBystander DEF CacheTypeOK
  <2>9. CASE Write(t) \/ WriteNothing(t) \/ Read(t) \/ (CheckExists(t) /\ call[t].key \notin exists)
    <3>1. Return(t) /\ UNCHANGED << used, cursor >>
      BY <2>9 DEF Write, WriteNothing, Read, CheckExists, cache
    <3>2. u # t /\ owner[k] = u
      BY <1>0, <3>1 DEF Return, CacheTypeOK
    <3> QED BY <1>0, <3>1, <3>2, OwnBystander DEF Return, CacheTypeOK
  <2>10. ~OpenFails(t) /\ ~CloseNull(t)
    BY <1>3 DEF OpenFails, CloseNull
  <2> QED BY <1>3, <2>1, <2>2, <2>3, <2>4, <2>5, <2>6, <2>7, <2>8, <2>9, <2>10 DEF Work
<1> QED BY <1>1, <1>2, <1>3 DEF Next, Crash

\* The bound is a number, and no less than either of the two.
LEMMA LimitFacts ==
    ASSUME IsFiniteSet(Threads)
    PROVE  /\ Limit \in Nat /\ MaxOpen <= Limit /\ Cardinality(Threads) <= Limit
           /\ MaxOpen \in Nat \ {0} /\ Cardinality(Threads) \in Nat
<1>1. Cardinality(Threads) \in Nat /\ MaxOpen \in Nat \ {0}
  BY FS_CardinalityType, LoggerAssumption
<1>2. \A a, b \in Nat : Max({a, b}) \in Nat /\ a <= Max({a, b}) /\ b <= Max({a, b})
  <2> SUFFICES ASSUME NEW a \in Nat, NEW b \in Nat
               PROVE  \E x \in {a, b} : \A y \in {a, b} : x >= y
    BY DEF Max
  <2>1. a >= b \/ b >= a
    OBVIOUS
  <2> QED BY <2>1
<1> QED BY <1>1, <1>2 DEF Limit

\* When close_older_fd has been through the list and closed nothing, every
\* cached key was in use by a thread of its own, and none by the caller.
LEMMA NoVictim ==
    ASSUME LInv, IsFiniteSet(Threads), NEW t \in Threads, pc[t] = "evict", EvictOK(t),
           cursor[t] > Len(used)
    PROVE  Cardinality(Cached) < Limit
<1>1. cursor[t] = Len(used) + 1 /\ used \in Seq(Keys)
  BY DEF EvictOK, LInv, CacheTypeOK
<1>2. Passed(t) = Cached
  <2>1. cursor[t] - 1 = Len(used) /\ DOMAIN used = 1..Len(used)
    BY <1>1
  <2>2. \A k \in Keys : files[k] # None <=> \E i \in DOMAIN used : used[i] = k
    BY DEF LInv, CacheInv
  <2>3. \A i \in DOMAIN used : used[i] \in Keys
    BY <1>1
  <2> QED BY <2>1, <2>2, <2>3 DEF Passed, Cached
<1>3. PICK g \in [Cached -> Threads \ {t}] : \A p, q \in Cached : g[p] = g[q] => p = q
  BY <1>2 DEF EvictOK
<1>4. g \in Injection(Cached, Threads \ {t})
  BY <1>3, Fun_IsInj
<1>5. /\ IsFiniteSet(Threads \ {t})
      /\ Cardinality(Threads \ {t}) = Cardinality(Threads) - 1
  BY FS_RemoveElement
<1>6. IsFiniteSet(Cached) /\ Cardinality(Cached) <= Cardinality(Threads \ {t})
  BY <1>4, <1>5, FS_Injection
<1>7. Cardinality(Cached) \in Nat
  BY <1>6, FS_CardinalityType
<1> QED BY <1>5, <1>6, <1>7, LimitFacts

\* A key found in use is in use by a thread that no other key was passed for.
LEMMA PassKey ==
    ASSUME LInv, OwnInv, NEW t \in Threads, pc[t] = "evict", EvictOK(t),
           cursor[t] <= Len(used), owner[used[cursor[t]]] # None,
           cursor' = [cursor EXCEPT ![t] = @ + 1], UNCHANGED << used, owner, pc >>
    PROVE  EvictOK(t)'
<1>0. CacheTypeOK /\ FdInv /\ CacheInv /\ ThreadOK(t)
  BY DEF LInv, ThreadInv
<1>1. PICK g \in [Passed(t) -> Threads \ {t}] :
          /\ \A p, q \in Passed(t) : g[p] = g[q] => p = q
          /\ \A p \in Passed(t) : SpentOn(g[p], p)
  BY DEF EvictOK
<1>2. PICK q, u : q = used[cursor[t]] /\ u = owner[q]
  OBVIOUS
<1>3. cursor[t] \in DOMAIN used /\ q \in Keys /\ files[q] # None
  BY <1>0, <1>2 DEF CacheTypeOK, CacheInv
<1>4. u \in Threads
  BY <1>0, <1>2, <1>3 DEF CacheTypeOK
<1>5. u # t
  <2>1. files[KeyOf(t)] = None
    BY <1>0 DEF ThreadOK
  <2> QED BY <1>2, <1>3, <1>4, <2>1 DEF OwnInv
<1>6. cursor'[t] = cursor[t] + 1 /\ cursor[t] \in Nat \ {0}
  BY <1>0 DEF CacheTypeOK
<1>7. Passed(t)' = Passed(t) \cup {q}
  <2>1. 1..(cursor'[t] - 1) = 1..(cursor[t] - 1) \cup {cursor[t]}
    BY <1>6
  <2> QED BY <1>2, <2>1 DEF Passed
<1>8. q \notin Passed(t)
  <2>1. \A i \in 1..(cursor[t] - 1) : i \in DOMAIN used /\ i # cursor[t]
    BY <1>0, <1>3, <1>6 DEF CacheTypeOK
  <2> QED BY <1>0, <1>2, <1>3, <2>1 DEF Passed, CacheInv
<1>9. ASSUME NEW p \in Passed(t) PROVE g[p] # u /\ g[p] \in Threads \ {t} /\ p \in Keys
  <2>1. p \in Keys
    <3>1. PICK i \in 1..(cursor[t] - 1) : p = used[i]
      BY DEF Passed
    <3>2. i \in DOMAIN used
      BY <1>0, <1>3, <1>6, <3>1 DEF CacheTypeOK
    <3> QED BY <1>0, <3>1, <3>2 DEF CacheTypeOK
  <2>2. ASSUME g[p] = u PROVE FALSE
    <3>1. owner[p] = u
      BY <1>1, <1>2, <1>3, <2>2 DEF SpentOn
    <3>2. pc[u] # "close"
      BY <1>0, <1>4, <1>5 DEF FdInv
    <3>3. p = KeyOf(u) /\ q = KeyOf(u)
      BY <1>2, <1>3, <1>4, <2>1, <3>1, <3>2 DEF OwnInv
    <3> QED BY <1>8, <3>3
  <2> QED BY <2>1, <2>2
<1>10. PICK P, h : P = Passed(t) \cup {q} /\ h = [p \in P |-> IF p = q THEN u ELSE g[p]]
  OBVIOUS
<1>11. h \in [P -> Threads \ {t}]
  BY <1>4, <1>5, <1>9, <1>10
<1>12. \A p, r \in P : h[p] = h[r] => p = r
  BY <1>1, <1>8, <1>9, <1>10
<1>13. \A p \in P : SpentOn(h[p], p)'
  <2>1. \A v, k : SpentOn(v, k)' = SpentOn(v, k)
    BY DEF SpentOn
  <2>2. SpentOn(u, q)
    BY <1>2 DEF SpentOn
  <2>3. ASSUME NEW p \in P PROVE SpentOn(h[p], p)
    BY <1>1, <1>8, <1>10, <2>2
  <2> QED BY <2>1, <2>3
<1>14. cursor'[t] <= Len(used') + 1
  BY <1>0, <1>6 DEF CacheTypeOK
<1>15. Passed(t)' = P
  BY <1>7, <1>10
<1> QED BY <1>11, <1>12, <1>13, <1>14, <1>15 DEF EvictOK

\* While close_older_fd runs, a thread that gives its key up cannot take
\* another one: it would have to ask for a stream first.
LEMMA EvictBystander ==
    ASSUME LInv, OwnInv, NEW t \in Threads, pc[t] = "evict", EvictOK(t), NoDecode,
           NEW u \in Threads, u # t, Start(u) \/ Work(u), ~Restarted, ~OpenFaults
    PROVE  UNCHANGED << files, used >> /\ pc'[t] = "evict" /\ EvictOK(t)'
<1> USE LoggerAssumption
<1>0. CacheTypeOK /\ FdInv /\ CallInv
  BY DEF LInv
<1>1. fdMutex = t /\ pc[u] \notin {"lookup", "evict", "close", "open"}
  BY <1>0 DEF FdInv
<1>2. \/ Start(u) \/ CheckExists(u) \/ FindMutex(u) \/ LockKey(u)
      \/ Write(u) \/ WriteNothing(u) \/ Read(u)
  <2>1. ~LockFds(u) /\ ~OpenFails(u) /\ ~CloseNull(u)
    BY <1>1 DEF LockFds, OpenFails, CloseNull
  <2>2. ~Lookup(u) /\ ~TryEvict(u) /\ ~CloseOlder(u) /\ ~OpenStream(u)
    BY <1>1 DEF Lookup, TryEvict, CloseOlder, OpenStream
  <2> QED BY <2>1, <2>2 DEF Work
<1>3. UNCHANGED << files, used, cursor >>
  BY <1>2 DEF Start, CheckExists, FindMutex, LockKey, Write, WriteNothing, Read, cache, locals
<1>4. \A v \in Threads \ {u} : pc'[v] = pc[v]
  BY <1>0, <1>2 DEF Start, CheckExists, FindMutex, LockKey, Write, WriteNothing, Read, Return, CacheTypeOK
<1>5. pc[u] # "idle" => KeyOf(u) \in Keys
  BY <1>0, KeyOfType
<1>6. \A v \in Threads \ {u} : \A k \in Keys : owner'[k] = v <=> owner[k] = v
  <2>1. CASE Start(u) \/ FindMutex(u)
    BY <2>1 DEF Start, FindMutex
  <2>2. CASE LockKey(u)
    BY <1>0, <1>5, <2>2 DEF LockKey, CacheTypeOK
  <2>3. CASE CheckExists(u) /\ owner' = owner
    BY <2>3
  <2>4. CASE Return(u)
    BY <2>4 DEF Return
  <2>5. CheckExists(u) => Return(u) \/ owner' = owner
    BY DEF CheckExists
  <2>6. Write(u) \/ WriteNothing(u) \/ Read(u) => Return(u)
    BY DEF Write, WriteNothing, Read
  <2> QED BY <1>2, <2>1, <2>2, <2>3, <2>4, <2>5, <2>6
<1>7. ASSUME NEW p \in Keys, SpentOn(u, p)
      PROVE  SpentOn(u, p)'
  <2>1. pc[u] \in {"idle", "want_fd", "write", "read"}
    BY <1>1, <1>7 DEF SpentOn, OwnInv, Getting
  <2>2. CASE Start(u)
    <3>1. pc[u] = "idle" /\ owner' = owner
      BY <2>2 DEF Start
    <3>2. \A j \in Keys : owner[j] # u
      BY <3>1 DEF OwnInv, Getting
    <3>3. pc'[u] = "want_fd"
      BY <1>0, <2>2 DEF Start, NoDecode, CacheTypeOK
    <3> QED BY <3>1, <3>2, <3>3 DEF SpentOn
  <2>3. CASE Write(u) \/ WriteNothing(u) \/ Read(u)
    <3>1. Return(u)
      BY <2>3 DEF Write, WriteNothing, Read
    <3>2. pc'[u] = "idle" /\ \A j \in Keys : owner'[j] # u
      BY <1>0, <3>1 DEF Return, CacheTypeOK
    <3> QED BY <3>2 DEF SpentOn
  <2>4. ~CheckExists(u) /\ ~FindMutex(u) /\ ~LockKey(u)
    BY <2>1 DEF CheckExists, FindMutex, LockKey
  <2> QED BY <1>2, <2>2, <2>3, <2>4
<1>8. PICK g, P : /\ P = Passed(t) /\ g \in [P -> Threads \ {t}]
                  /\ \A p, q \in P : g[p] = g[q] => p = q
                  /\ \A p \in P : SpentOn(g[p], p)
  BY DEF EvictOK
<1>9. Passed(t)' = P /\ cursor'[t] <= Len(used') + 1
  BY <1>3, <1>8 DEF Passed, EvictOK
<1>10. P \subseteq Keys
  <2>1. cursor[t] \in Nat /\ used \in Seq(Keys) /\ cursor[t] <= Len(used) + 1
    BY <1>0 DEF CacheTypeOK, EvictOK
  <2>2. \A i \in 1..(cursor[t] - 1) : used[i] \in Keys
    BY <2>1
  <2> QED BY <1>8, <2>2 DEF Passed
<1>11. ASSUME NEW p \in P PROVE SpentOn(g[p], p)'
  <2>1. p \in Keys /\ g[p] \in Threads /\ SpentOn(g[p], p)
    BY <1>8, <1>10
  <2>2. CASE g[p] = u
    BY <1>7, <2>1, <2>2
  <2>3. CASE g[p] # u
    BY <1>4, <1>6, <2>1, <2>3 DEF SpentOn
  <2> QED BY <2>2, <2>3
<1>12. EvictOK(t)'
  BY <1>8, <1>9, <1>11 DEF EvictOK
<1> QED BY <1>3, <1>4, <1>12

\* The initial state satisfies the invariants.
LEMMA LimitInit ==
    ASSUME IsFiniteSet(Threads), Init PROVE OwnInv /\ LimitInv
<1>1. Cached = {} /\ \A t \in Threads : pc[t] = "idle"
  BY DEF Init, Cached
<1>2. IsFiniteSet({}) /\ Cardinality({}) = 0
  BY FS_EmptySet
<1>3. \A k \in Keys : owner[k] = None
  BY DEF Init
<1> QED BY <1>1, <1>2, <1>3, LimitFacts, LoggerAssumption DEF OwnInv, LimitInv

\* Every step keeps the number of open files within its bound.
LEMMA LimitStep ==
    ASSUME LInv, OwnInv, LimitInv, [Next]_vars, IsFiniteSet(Threads), NoDecode, ~OpenFaults
    PROVE  LimitInv'
<1> USE LoggerAssumption
<1>0. CacheTypeOK /\ FdInv /\ CallInv /\ IsFiniteSet(Cached) /\ Cardinality(Cached) <= Limit
  BY DEF LInv, LimitInv
<1>n. Limit \in Nat /\ MaxOpen <= Limit /\ MaxOpen \in Nat /\ Cardinality(Cached) \in Nat
  BY <1>0, LimitFacts, FS_CardinalityType
<1>1. CASE UNCHANGED vars
  <2>1. UNCHANGED << owner, files, used, pc, call, cursor >>
    BY <1>1 DEF vars, cache, locals
  <2>2. Cached' = Cached
    BY <2>1 DEF Cached
  <2>3. ASSUME NEW t \in Threads, EvictOK(t) PROVE EvictOK(t)'
    <3>1. \A u, k : SpentOn(u, k)' = SpentOn(u, k)
      BY <2>1 DEF SpentOn
    <3>2. PICK g, P : /\ P = Passed(t) /\ g \in [P -> Threads \ {t}]
                      /\ \A p, q \in P : g[p] = g[q] => p = q
                      /\ \A p \in P : SpentOn(g[p], p)
      BY <2>3 DEF EvictOK
    <3>3. Passed(t)' = P /\ cursor'[t] <= Len(used') + 1
      BY <2>1, <2>3, <3>2 DEF Passed, EvictOK
    <3> QED BY <3>1, <3>2, <3>3 DEF EvictOK
  <2> QED BY <1>0, <2>1, <2>2, <2>3 DEF LimitInv
<1>2. CASE Restarted
  <2>1. Cached' = {} /\ \A t \in Threads : pc'[t] = "idle"
    BY <1>2 DEF Restarted, Cached
  <2>2. IsFiniteSet({}) /\ Cardinality({}) = 0
    BY FS_EmptySet
  <2> QED BY <1>n, <2>1, <2>2 DEF LimitInv
<1>3. ASSUME NEW t \in Threads, Start(t) \/ Work(t), ~Restarted PROVE LimitInv'
  <2>1. \A u \in Threads : pc'[u] # "idle" => call'[u].op = "log"
    <3>1. CASE Start(t)
      BY <1>0, <3>1 DEF Start, NoDecode, LimitInv, CacheTypeOK
    <3>2. CASE Return(t)
      BY <1>0, <3>2 DEF Return, LimitInv, CacheTypeOK
    <3>3. CASE call' = call /\ pc[t] # "idle" /\ \A u \in Threads \ {t} : pc'[u] = pc[u]
      BY <3>3 DEF LimitInv
    <3>4. Write(t) \/ WriteNothing(t) \/ Read(t) => Return(t)
      BY DEF Write, WriteNothing, Read
    <3>5. LockFds(t) \/ FindMutex(t) \/ LockKey(t) \/ TryEvict(t) \/ CloseOlder(t)
            => call' = call /\ pc[t] # "idle" /\ \A u \in Threads \ {t} : pc'[u] = pc[u]
      BY <1>0 DEF LockFds, FindMutex, LockKey, TryEvict, CloseOlder, locals, CacheTypeOK
    <3>6. Lookup(t) \/ OpenStream(t)
            => call' = call /\ pc[t] # "idle" /\ \A u \in Threads \ {t} : pc'[u] = pc[u]
      BY <1>0 DEF Lookup, OpenStream, GotStream, CacheTypeOK
    <3>7. CheckExists(t) => Return(t) \/ (call' = call /\ pc[t] # "idle" /\ \A u \in Threads \ {t} : pc'[u] = pc[u])
      BY <1>0 DEF CheckExists, CacheTypeOK
    <3>8. ~OpenFails(t) /\ ~CloseNull(t)
      BY <1>3 DEF OpenFails, CloseNull
    <3> QED BY <1>3, <3>1, <3>2, <3>3, <3>4, <3>5, <3>6, <3>7, <3>8 DEF Work
  <2>2. \A u \in Threads \ {t} : pc[u] = "evict" =>
           UNCHANGED << files, used >> /\ pc'[u] = "evict" /\ EvictOK(u)'
    BY <1>3, EvictBystander DEF LimitInv
  <2>3. \A u \in Threads \ {t} : pc'[u] = pc[u]
    <3>1. CASE Start(t) \/ LockFds(t) \/ Lookup(t) \/ TryEvict(t)
      BY <1>0, <3>1 DEF Start, LockFds, Lookup, TryEvict, GotStream, CacheTypeOK
    <3>2. CASE CloseOlder(t) \/ OpenStream(t) \/ CheckExists(t) \/ FindMutex(t) \/ LockKey(t)
      BY <1>0, <3>2 DEF CloseOlder, OpenStream, CheckExists, FindMutex, LockKey, GotStream, Return, CacheTypeOK
    <3>3. CASE Write(t) \/ WriteNothing(t) \/ Read(t)
      BY <1>0, <3>3 DEF Write, WriteNothing, Read, Return, CacheTypeOK
    <3>4. ~OpenFails(t) /\ ~CloseNull(t)
      BY <1>3 DEF OpenFails, CloseNull
    <3> QED BY <1>3, <3>1, <3>2, <3>3, <3>4 DEF Work
  <2>4. CASE TryEvict(t)
    <3>0. Cached' = Cached /\ pc[t] = "evict" /\ EvictOK(t)
      BY <2>4 DEF TryEvict, Cached, cache, LimitInv
    <3>1. pc'[t] \in {"evict", "open", "close"}
      BY <1>0, <2>4 DEF TryEvict, CacheTypeOK
    <3>2. pc'[t] = "open" => Cardinality(Cached) < Limit
      <4>1. pc'[t] = "open" => cursor[t] > Len(used)
        BY <1>0, <2>4 DEF TryEvict, CacheTypeOK
      <4> QED BY <3>0, <4>1, NoVictim
    <3>3. pc'[t] = "evict" => EvictOK(t)'
      <4> SUFFICES ASSUME pc'[t] = "evict" PROVE EvictOK(t)'
        OBVIOUS
      <4>1. /\ ~(cursor[t] > Len(used)) /\ owner[used[cursor[t]]] # None
            /\ cursor' = [cursor EXCEPT ![t] = @ + 1] /\ UNCHANGED << used, owner, pc >>
        BY <1>0, <2>4 DEF TryEvict, CacheTypeOK, cache
      <4>2. cursor[t] <= Len(used)
        BY <1>0, <4>1 DEF CacheTypeOK
      <4> QED BY <3>0, <4>1, <4>2, PassKey
    <3> QED BY <1>0, <2>1, <2>2, <2>3, <3>0, <3>2, <3>3 DEF LimitInv
  <2>5. CASE Lookup(t)
    <3>0. Cached' = Cached /\ pc[t] = "lookup" /\ UNCHANGED << used, owner >>
      BY <2>5 DEF Lookup, Cached, cache
    <3>1. AfterGet(t) \notin {"open", "evict"}
      BY DEF AfterGet
    <3>2. pc'[t] = "open" => Cardinality(Cached) < Limit
      <4>1. pc'[t] = "open" => ~(Cardinality(Cached) >= MaxOpen)
        BY <1>0, <2>5, <3>1 DEF Lookup, GotStream, CacheTypeOK
      <4> QED BY <1>n, <4>1
    <3>3. pc'[t] = "evict" => EvictOK(t)'
      <4> SUFFICES ASSUME pc'[t] = "evict" PROVE EvictOK(t)'
        OBVIOUS
      <4>1. cursor'[t] = 1
        BY <1>0, <2>5, <3>1 DEF Lookup, GotStream, CacheTypeOK
      <4>2. Passed(t)' = {} /\ cursor'[t] <= Len(used') + 1
        BY <1>0, <3>0, <4>1 DEF Passed, CacheTypeOK
      <4>3. [x \in {} |-> t] \in [{} -> Threads \ {t}]
        OBVIOUS
      <4> QED BY <4>2, <4>3 DEF EvictOK
    <3> QED BY <1>0, <2>1, <2>2, <2>3, <3>0, <3>2, <3>3 DEF LimitInv
  <2>6. CASE CloseOlder(t)
    <3>1. PICK k : k = used[cursor[t]]
      OBVIOUS
    <3>2. /\ pc[t] = "close" /\ pc'[t] = "open" /\ files' = [files EXCEPT ![k] = None]
      BY <1>0, <2>6, <3>1 DEF CloseOlder, CacheTypeOK
    <3>3. k \in Keys /\ files[k] # None
      BY <3>1, <3>2, StreamToClose
    <3>4. Cached' = Cached \ {k} /\ k \in Cached
      BY <1>0, <3>2, <3>3 DEF Cached, CacheTypeOK
    <3>5. IsFiniteSet(Cached') /\ Cardinality(Cached') = Cardinality(Cached) - 1
      BY <1>0, <3>4, FS_RemoveElement
    <3>6. \A u \in Threads \ {t} : pc'[u] \notin {"evict", "open"}
      BY <1>0, <2>3, <3>2 DEF FdInv
    <3> QED BY <1>0, <1>n, <2>1, <3>2, <3>5, <3>6 DEF LimitInv
  <2>7. CASE OpenStream(t)
    <3>1. PICK k, n : k = KeyOf(t) /\ n = Len(streams) + 1
      OBVIOUS
    <3>2. /\ pc[t] = "open" /\ pc'[t] = AfterGet(t) /\ files' = [files EXCEPT ![k] = n]
      BY <1>0, <2>7, <3>1 DEF OpenStream, GotStream, CacheTypeOK
    <3>3. k \in Keys /\ n # None /\ Cardinality(Cached) < Limit /\ AfterGet(t) \notin {"open", "evict"}
      <4>1. k \in Keys
        BY <1>0, <3>1, <3>2, KeyOfType
      <4>2. n \in Nat
        BY <1>0, <3>1 DEF CacheTypeOK
      <4>3. Cardinality(Cached) < Limit
        BY <3>2 DEF LimitInv
      <4>4. AfterGet(t) \notin {"open", "evict"}
        BY DEF AfterGet
      <4> QED BY <4>1, <4>2, <4>3, <4>4
    <3>4. Cached' = Cached \cup {k}
      BY <1>0, <3>2, <3>3 DEF Cached, CacheTypeOK
    <3>5. /\ IsFiniteSet(Cached')
          /\ Cardinality(Cached') \in {Cardinality(Cached), Cardinality(Cached) + 1}
      BY <1>0, <3>4, FS_AddElement
    <3>6. \A u \in Threads \ {t} : pc'[u] \notin {"evict", "open"}
      BY <1>0, <2>3, <3>2 DEF FdInv
    <3> QED BY <1>n, <2>1, <3>2, <3>3, <3>5, <3>6 DEF LimitInv
  <2>8. CASE \/ Start(t) \/ LockFds(t) \/ CheckExists(t) \/ FindMutex(t) \/ LockKey(t)
             \/ Write(t) \/ WriteNothing(t) \/ Read(t)
    <3>1. files' = files
      BY <2>8 DEF Start, LockFds, CheckExists, FindMutex, LockKey, Write, WriteNothing, Read, cache
    <3>2. pc'[t] \notin {"evict", "open"}
      BY <1>0, <2>8 DEF Start, LockFds, CheckExists, FindMutex, LockKey, Write, WriteNothing, Read, Return,
                        CacheTypeOK
    <3>3. Cached' = Cached
      BY <3>1 DEF Cached
    <3> QED BY <1>0, <2>1, <2>2, <2>3, <3>2, <3>3 DEF LimitInv
  <2>9. ~OpenFails(t) /\ ~CloseNull(t)
    BY <1>3 DEF OpenFails, CloseNull
  <2> QED BY <1>3, <2>4, <2>5, <2>6, <2>7, <2>8, <2>9 DEF Work
<1> QED BY <1>1, <1>2, <1>3 DEF Next, Crash

(***************************************************************************)
(* The limit of open log files is exceeded only by keys in use: if nobody  *)
(* reads logs, there are never more open files than max_open_log_files, or *)
(* one per thread if that is more, although close_older_fd gives up        *)
(* without closing anything when it finds every key locked.                *)
(***************************************************************************)
THEOREM OpenFilesLimited ==
    ASSUME IsFiniteSet(Threads), NoDecode, ~OpenFaults PROVE Spec => []OpenFilesBound
<1> DEFINE All == LInv /\ OwnInv /\ LimitInv
<1>1. Init => All
  BY InitLogger, LimitInit
<1>2. All /\ [Next]_vars => All'
  BY NextLogger, OwnStep, LimitStep
<1>3. All => OpenFilesBound
  BY DEF LimitInv, Limit, OpenFilesBound
<1> HIDE DEF All
<1> QED BY <1>1, <1>2, <1>3, PTL DEF Spec

=============================================================================
