--------------------------- MODULE GDPRController ---------------------------
(***************************************************************************)
(* The controller (controller.cpp): one detached thread per client         *)
(* connection, all of them in front of one key-value store.  A thread      *)
(* reads a query, reads the pair from the store, validates the query       *)
(* against the pair's metadata, rewrites the value, logs the operation     *)
(* when the pair is monitored, writes to the store and answers.  The steps *)
(* of different threads interleave: nothing is locked between the read     *)
(* and the write of the store.                                             *)
(*                                                                         *)
(* One action per access to something shared (store, clock, log, socket).  *)
(* No handler catches exceptions, so one that is thrown in any thread      *)
(* terminates the process and with it every connection.                    *)
(***************************************************************************)
EXTENDS GDPRPolicy, FiniteSets

CONSTANTS
    Conns,        \* client connections
    Keys,
    Policies,     \* Policies[c]: the policies c may present; None is one that lacks an option
    Workload,     \* Workload[c]: the queries that the client of c sends
    Backend,      \* "redis" or "rocksdb"
    Encryption,   \* built with ENCRYPTION_ENABLED
    ReadFaults,   \* the store may fail to read or to decrypt a pair
    WriteFaults,  \* the store may refuse a write, or its connection may break
    Undecodable,  \* what a lossy putm leaves behind: an empty string
    MaxQueries,   \* bound: MaxQueries[c], the number of queries of c
    MaxTime,      \* bound: seconds on the clock
    MaxRestarts   \* bound: restarts of the process by its operator

Commands == {"get", "put", "delete", "getm", "putm", "getlogs",
             "unknown",   \* any other command word
             "malformed"} \* a predicate that the parser does not support

\* What getLogs names: a key, or one of two words.
LogKeys == Keys \cup {"read_all", "dir"}

Query == Queries(LogKeys, Commands)

ASSUME ConstantsAssumption ==
    /\ \A c \in Conns : Policies[c] \subseteq Optional(DefaultPolicies)
    /\ \A c \in Conns : \A q \in Workload[c] :
          q \in Query /\ (q.cmd # "getlogs" => q.key \in Keys)
    /\ Backend \in {"redis", "rocksdb"}
    /\ {Encryption, ReadFaults, WriteFaults} \subseteq BOOLEAN
    /\ {MaxTime, MaxRestarts} \subseteq Nat
    /\ \A c \in Conns : MaxQueries[c] \in Nat

ASSUME SentinelsAssumption ==
    /\ None \notin Records \cup Query \cup DefaultPolicies
    /\ Undecodable \notin Records \cup {None}

VARIABLES
    up,       \* the process runs
    restarts, \* how often it was started again
    now,      \* the system clock, in seconds
    db,       \* the store: key -> record, None, or Undecodable
    audit,    \* the history log: key -> entries written so far
    durable,  \* key -> how many of them are known to have left the process
    pc,       \* connection -> where its thread is
    policy,   \* connection -> def_policy
    served,   \* connection -> number of queries received
    since,    \* connection -> the clock when its query was received
    qry,      \* connection -> the query being handled
    res,      \* connection -> what the store returned
    valid,    \* connection -> is_valid
    new,      \* connection -> rewriter.new_value()
    todo,     \* connection -> log files that getLogs still has to read, with
              \* the number of their entries that are older than the request
    resp      \* connection -> the response

\* A pair that can be decoded.
IsPair(r) == r \notin {None, Undecodable}

shared == << now, db, audit, durable >>
locals == << qry, since, res, valid, new, todo, resp >>
vars == << up, restarts, shared, pc, policy, served, locals >>

-----------------------------------------------------------------------------

Steps == {"closed", "idle", "fetch", "validate", "rewrite", "monitor", "apply",
          "list_logs", "read_logs", "reply"}

Responses == [code : {"success", "failed", "value", "logs", "invalid_command"},
              view : Optional(Views)]

\* by and nr identify the operation; the code logs a timestamp instead.
Entries == [by : Conns, nr : Nat, cmd : Commands, usr : Users, valid : BOOLEAN,
            new : Optional(Records)]

Failed == [code |-> "failed", view |-> None]
Succeeded == [code |-> "success", view |-> None]

Init ==
    /\ up = TRUE
    /\ restarts = 0
    /\ now = 1
    /\ db = [k \in Keys |-> None]
    /\ audit = [k \in Keys |-> << >>]
    /\ durable = [k \in Keys |-> 0]
    /\ pc = [c \in Conns |-> "closed"]
    /\ policy = [c \in Conns |-> None]
    /\ served = [c \in Conns |-> 0]
    /\ since = [c \in Conns |-> 0]
    /\ qry = [c \in Conns |-> None]
    /\ res = [c \in Conns |-> None]
    /\ valid = [c \in Conns |-> FALSE]
    /\ new = [c \in Conns |-> None]
    /\ todo = [c \in Conns |-> {}]
    /\ resp = [c \in Conns |-> None]

(***************************************************************************)
(* The thread of c leaves its loop iteration: the handler's variables go   *)
(* out of scope.                                                           *)
(***************************************************************************)
EndQuery(c) ==
    /\ qry' = [qry EXCEPT ![c] = None]
    /\ since' = [since EXCEPT ![c] = 0]
    /\ res' = [res EXCEPT ![c] = None]
    /\ valid' = [valid EXCEPT ![c] = FALSE]
    /\ new' = [new EXCEPT ![c] = None]
    /\ todo' = [todo EXCEPT ![c] = {}]
    /\ resp' = [resp EXCEPT ![c] = None]

(***************************************************************************)
(* An exception leaves a thread: std::terminate.  Log streams are not      *)
(* flushed, so the log loses any part of what was not durable yet (whole   *)
(* entries here; an entry cut in two is left out).  flushed is durable, or *)
(* what it became in this step.                                            *)
(***************************************************************************)
Terminate(flushed) ==
    LET Survivors(k) == {SubSeq(audit[k], 1, n) : n \in flushed[k]..Len(audit[k])}
    IN
    /\ up' = FALSE
    /\ pc' = [c \in Conns |-> "closed"]
    /\ policy' = [c \in Conns |-> None]
    /\ qry' = [c \in Conns |-> None]
    /\ since' = [c \in Conns |-> 0]
    /\ res' = [c \in Conns |-> None]
    /\ valid' = [c \in Conns |-> FALSE]
    /\ new' = [c \in Conns |-> None]
    /\ todo' = [c \in Conns |-> {}]
    /\ resp' = [c \in Conns |-> None]
    /\ audit' \in {a \in [Keys -> UNION {Survivors(k) : k \in Keys}] :
                      \A k \in Keys : a[k] \in Survivors(k)}
    /\ durable' = [k \in Keys |-> Len(audit'[k])]
    /\ UNCHANGED << restarts, now, served >>

\* The operator starts the controller again; store and log files are kept.
Restart ==
    /\ ~up
    /\ restarts < MaxRestarts
    /\ up' = TRUE
    /\ restarts' = restarts + 1
    /\ UNCHANGED << shared, pc, policy, served, locals >>

Tick ==
    /\ now < MaxTime
    /\ now' = now + 1
    /\ UNCHANGED << up, restarts, db, audit, durable, pc, policy, served, locals >>

-----------------------------------------------------------------------------
(* Connections.                                                            *)

\* accept, receive_policy, where every option must be there, and a connection
\* to the store.
Accept(c) ==
    /\ up
    /\ pc[c] = "closed"
    /\ \E p \in Policies[c] \ {None} :
          /\ pc' = [pc EXCEPT ![c] = "idle"]
          /\ policy' = [policy EXCEPT ![c] = p]
    /\ UNCHANGED << up, restarts, shared, served, locals >>

\* check_policy throws when an option is missing.
AcceptBadPolicy(c) ==
    /\ up
    /\ pc[c] = "closed"
    /\ None \in Policies[c]
    /\ Terminate(durable)
    /\ UNCHANGED db

\* kv_factory::create throws when the store cannot be reached.
ConnectFails(c) ==
    /\ WriteFaults
    /\ up
    /\ pc[c] = "closed"
    /\ Policies[c] \ {None} # {}
    /\ Terminate(durable)
    /\ UNCHANGED db

\* The client closes its socket, or says so first with an exit query.
Disconnect(c) ==
    /\ pc[c] = "idle"
    /\ pc' = [pc EXCEPT ![c] = "closed"]
    /\ policy' = [policy EXCEPT ![c] = None]
    /\ UNCHANGED << up, restarts, shared, served, locals >>

\* Receive and parse a query, and enter its handler.
Receive(c) ==
    /\ pc[c] = "idle"
    /\ served[c] < MaxQueries[c]
    /\ \E q \in Workload[c] :
          /\ q.cmd # "malformed"
          /\ qry' = [qry EXCEPT ![c] = q]
          /\ pc' = [pc EXCEPT ![c] = CASE q.cmd = "unknown" -> "reply"
                                       [] q.cmd = "getlogs" -> "list_logs"
                                       [] OTHER -> "fetch"]
          /\ resp' = IF q.cmd = "unknown"
                     THEN [resp EXCEPT ![c] = [code |-> "invalid_command", view |-> None]]
                     ELSE resp
    /\ since' = [since EXCEPT ![c] = now]
    /\ served' = [served EXCEPT ![c] = @ + 1]
    /\ UNCHANGED << up, restarts, shared, policy, res, valid, new, todo >>

\* The parser throws on a predicate that it does not support.
ReceiveMalformed(c) ==
    /\ pc[c] = "idle"
    /\ \E q \in Workload[c] : q.cmd = "malformed"
    /\ Terminate(durable)
    /\ UNCHANGED db

\* Send the response and read on; or fail to send it and close.
Reply(c) ==
    /\ pc[c] = "reply"
    /\ \/ /\ pc' = [pc EXCEPT ![c] = "idle"]
          /\ UNCHANGED policy
       \/ /\ pc' = [pc EXCEPT ![c] = "closed"]
          /\ policy' = [policy EXCEPT ![c] = None]
    /\ EndQuery(c)
    /\ UNCHANGED << up, restarts, shared, served >>

-----------------------------------------------------------------------------
(* The handlers of get, put, delete, getm and putm, step by step.          *)

IsWrite(c) == qry[c].cmd \in {"put", "putm", "delete"}

\* What gdpr_get and gdpr_getm may return: an error and a value that cannot
\* be decrypted both look like a key that does not exist.
FetchResults(k) == {db[k]} \cup (IF ReadFaults THEN {None} ELSE {})

\* Read the pair.  A put of a new key is not validated; a putm of one ends.
Fetch(c) ==
    /\ pc[c] = "fetch"
    /\ \E r \in FetchResults(qry[c].key) \ {Undecodable} :
          /\ res' = [res EXCEPT ![c] = r]
          /\ valid' = [valid EXCEPT ![c] = (r = None /\ qry[c].cmd = "put")]
          /\ pc' = [pc EXCEPT ![c] = CASE r = None /\ qry[c].cmd = "put" -> "rewrite"
                                       [] r = None /\ qry[c].cmd = "putm" -> "reply"
                                       [] OTHER -> "validate"]
          /\ resp' = IF r = None /\ qry[c].cmd = "putm"
                     THEN [resp EXCEPT ![c] = Failed] ELSE resp
    /\ UNCHANGED << up, restarts, shared, policy, served, qry, since, new, todo >>

\* The filter's constructor throws on a value without its eight fields.
FetchUndecodable(c) ==
    /\ pc[c] = "fetch"
    /\ db[qry[c].key] = Undecodable
    /\ Terminate(durable)
    /\ UNCHANGED db

\* Compare the metadata with query and policy; the clock is read here.
Validate(c) ==
    LET ok == validate(res[c], qry[c], policy[c], now) IN
    /\ pc[c] = "validate"
    /\ valid' = [valid EXCEPT ![c] = ok]
    /\ pc' = [pc EXCEPT ![c] = IF ok /\ qry[c].cmd \in {"put", "putm"}
                               THEN "rewrite" ELSE "monitor"]
    /\ UNCHANGED << up, restarts, shared, policy, served, qry, since, res, new, todo, resp >>

\* Mutant: the pair is read again for the rewriter.
RewriteRereads(c) ==
    LET r == db[qry[c].key] IN
    /\ pc[c] = "rewrite"
    /\ new' = [new EXCEPT ![c] =
                  CASE ~IsPair(r) -> rewrite_insert(qry[c], policy[c], now)
                    [] IsPair(r) /\ qry[c].cmd = "putm" -> rewrite_putm(r, qry[c], now)
                    [] OTHER -> rewrite_update(r, qry[c])]
    /\ pc' = [pc EXCEPT ![c] = "monitor"]
    /\ UNCHANGED << up, restarts, shared, policy, served, qry, since, res, valid, todo, resp >>

\* Put the new value together; the clock is read again for the expiration.
Rewrite(c) ==
    /\ pc[c] = "rewrite"
    /\ new' = [new EXCEPT ![c] =
                  CASE qry[c].cmd = "putm" -> rewrite_putm(res[c], qry[c], now)
                    [] qry[c].cmd = "put" /\ res[c] # None -> rewrite_update(res[c], qry[c])
                    [] OTHER -> rewrite_insert(qry[c], policy[c], now)]
    /\ pc' = [pc EXCEPT ![c] = "monitor"]
    /\ UNCHANGED << up, restarts, shared, policy, served, qry, since, res, valid, todo, resp >>

Entry(c) == [by |-> c, nr |-> served[c], cmd |-> qry[c].cmd,
             usr |-> session_key(qry[c], policy[c]), valid |-> valid[c], new |-> new[c]]

\* Mutant: the answer depends on the pair being there, not on the verdict.
ReadResponseUnchecked(c) ==
    CASE res[c] # None /\ qry[c].cmd = "get" ->
            [code |-> "value", view |-> remove_gdpr_metadata(res[c])]
      [] res[c] # None /\ qry[c].cmd = "getm" ->
            [code |-> "value", view |-> preserve_only_gdpr_metadata(res[c])]
      [] OTHER -> Failed

\* Mutant: the pair is read again for the answer.
ReadResponseRereads(c) ==
    LET r == db[qry[c].key] IN
    CASE valid[c] /\ IsPair(r) /\ qry[c].cmd = "get" ->
            [code |-> "value", view |-> remove_gdpr_metadata(r)]
      [] valid[c] /\ IsPair(r) /\ qry[c].cmd = "getm" ->
            [code |-> "value", view |-> preserve_only_gdpr_metadata(r)]
      [] OTHER -> Failed

\* What the handler answers when it does not write.
ReadResponse(c) ==
    CASE valid[c] /\ qry[c].cmd = "get" ->
            [code |-> "value", view |-> remove_gdpr_metadata(res[c])]
      [] valid[c] /\ qry[c].cmd = "getm" ->
            [code |-> "value", view |-> preserve_only_gdpr_metadata(res[c])]
      [] OTHER -> Failed

\* Mutant: an accepted write is not logged.
MonitorRejectedOnly(c) ==
    /\ pc[c] = "monitor"
    /\ audit' = IF monitor_needed(res[c], qry[c], policy[c]) /\ ~(valid[c] /\ IsWrite(c))
                THEN [audit EXCEPT ![qry[c].key] = Append(@, Entry(c))] ELSE audit
    /\ IF valid[c] /\ IsWrite(c)
       THEN /\ pc' = [pc EXCEPT ![c] = "apply"]
            /\ UNCHANGED resp
       ELSE /\ pc' = [pc EXCEPT ![c] = "reply"]
            /\ resp' = [resp EXCEPT ![c] = ReadResponse(c)]
    /\ UNCHANGED << up, restarts, now, db, durable, policy, served,
                    qry, since, res, valid, new, todo >>

\* Mutant: the verdict is logged and then forgotten.
MonitorForgetsVerdict(c) ==
    /\ pc[c] = "monitor"
    /\ audit' = IF monitor_needed(res[c], qry[c], policy[c])
                THEN [audit EXCEPT ![qry[c].key] = Append(@, Entry(c))] ELSE audit
    /\ IF qry[c].cmd = "delete" \/ (valid[c] /\ IsWrite(c))
       THEN /\ pc' = [pc EXCEPT ![c] = "apply"]
            /\ UNCHANGED resp
       ELSE /\ pc' = [pc EXCEPT ![c] = "reply"]
            /\ resp' = [resp EXCEPT ![c] = ReadResponse(c)]
    /\ UNCHANGED << up, restarts, now, db, durable, policy, served,
                    qry, since, res, valid, new, todo >>

\* monitor_query: log the verdict, before the store is written.
Monitor(c) ==
    /\ pc[c] = "monitor"
    /\ audit' = IF monitor_needed(res[c], qry[c], policy[c])
                THEN [audit EXCEPT ![qry[c].key] = Append(@, Entry(c))] ELSE audit
    /\ IF valid[c] /\ IsWrite(c)
       THEN /\ pc' = [pc EXCEPT ![c] = "apply"]
            /\ UNCHANGED resp
       ELSE /\ pc' = [pc EXCEPT ![c] = "reply"]
            /\ resp' = [resp EXCEPT ![c] = ReadResponse(c)]
    /\ UNCHANGED << up, restarts, now, db, durable, policy, served,
                    qry, since, res, valid, new, todo >>

\* What the store holds after the write.  The rocksdb server takes a value
\* from a "put" message only: an unencrypted "putm" stores an empty string.
Written(c) ==
    CASE qry[c].cmd = "delete" -> None
      [] qry[c].cmd = "putm" /\ Backend = "rocksdb" /\ ~Encryption -> Undecodable
      [] OTHER -> new[c]

\* redis reports the deletion of a missing key as a failure, rocksdb does not.
ApplySucceeds(c) ==
    qry[c].cmd = "delete" /\ Backend = "redis" => db[qry[c].key] # None

Apply(c) ==
    /\ pc[c] = "apply"
    /\ db' = [db EXCEPT ![qry[c].key] = Written(c)]
    /\ resp' = [resp EXCEPT ![c] = IF ApplySucceeds(c) THEN Succeeded ELSE Failed]
    /\ pc' = [pc EXCEPT ![c] = "reply"]
    /\ UNCHANGED << up, restarts, now, audit, durable, policy, served,
                    qry, since, res, valid, new, todo >>

\* The store, or the encryption of the value, refuses the write.
ApplyFails(c) ==
    /\ WriteFaults
    /\ pc[c] = "apply"
    /\ resp' = [resp EXCEPT ![c] = Failed]
    /\ pc' = [pc EXCEPT ![c] = "reply"]
    /\ UNCHANGED << up, restarts, shared, policy, served, qry, since, res, valid, new, todo >>

\* The connection to the store breaks: the client library throws.  A write
\* that was under way may have reached the store.
StoreLost(c) ==
    /\ WriteFaults
    /\ \/ /\ pc[c] \in {"fetch", "apply"}
          /\ UNCHANGED db
       \/ /\ pc[c] = "apply"
          /\ db' = [db EXCEPT ![qry[c].key] = Written(c)]
    /\ Terminate(durable)

-----------------------------------------------------------------------------
(* handle_get_logs.                                                        *)

LogFiles == {k \in Keys : audit[k] # << >>}

\* Check the regulator's key and find the log files to read.  The regulator's
\* time stamp is taken here: younger entries are not decoded.
ListLogs(c) ==
    /\ pc[c] = "list_logs"
    /\ IF validate_reg_key(qry[c], policy[c])
       THEN /\ pc' = [pc EXCEPT ![c] = "read_logs"]
            /\ todo' = [todo EXCEPT ![c] =
                           {<< k, Len(audit[k]) >> :
                               k \in CASE qry[c].key = "read_all" -> LogFiles
                                       [] qry[c].key = "dir" -> {}
                                       [] OTHER -> {qry[c].key}}]
            /\ UNCHANGED resp
       ELSE /\ pc' = [pc EXCEPT ![c] = "reply"]
            /\ resp' = [resp EXCEPT ![c] = Failed]
            /\ UNCHANGED todo
    /\ UNCHANGED << up, restarts, shared, policy, served, qry, since, res, valid, new >>

\* How many entries of the file f are decoded.  An entry gets its time stamp
\* before it is in the file, under the key's mutex: one that was on its way
\* when the regulator's time stamp was taken may be older.
Decoded(f) == {f[2], f[2] + 1} \cap 0..Len(audit[f[1]])

DecodeThrows(k, n) == \E i \in 1..n : metadata_fmt_throws(audit[k][i].new)

\* Mutant: a file that was read stays on the list.
ReadLogAgain(c) ==
    /\ pc[c] = "read_logs"
    /\ \E f \in todo[c] : \E n \in Decoded(f) :
          /\ ~DecodeThrows(f[1], n)
          /\ durable' = [durable EXCEPT ![f[1]] = Len(audit[f[1]])]
    /\ UNCHANGED << up, restarts, now, db, audit, pc, policy, served, locals >>

\* log_decode: flush the stream of a key, then decode all its entries.
ReadLog(c) ==
    /\ pc[c] = "read_logs"
    /\ \E f \in todo[c] : \E n \in Decoded(f) :
          /\ ~DecodeThrows(f[1], n)
          /\ durable' = [durable EXCEPT ![f[1]] = Len(audit[f[1]])]
          /\ todo' = [todo EXCEPT ![c] = @ \ {f}]
    /\ UNCHANGED << up, restarts, now, db, audit, pc, policy, served,
                    qry, since, res, valid, new, resp >>

ReadLogThrows(c) ==
    /\ pc[c] = "read_logs"
    /\ \E f \in todo[c] : \E n \in Decoded(f) :
          /\ DecodeThrows(f[1], n)
          /\ Terminate([durable EXCEPT ![f[1]] = Len(audit[f[1]])])
    /\ UNCHANGED db

EndLogs(c) ==
    /\ pc[c] = "read_logs"
    /\ todo[c] = {}
    /\ resp' = [resp EXCEPT ![c] = [code |-> "logs", view |-> None]]
    /\ pc' = [pc EXCEPT ![c] = "reply"]
    /\ UNCHANGED << up, restarts, shared, policy, served, qry, since, res, valid, new, todo >>

-----------------------------------------------------------------------------

\* A step of the thread that serves c while it handles a query.
Work(c) ==
    \/ Fetch(c) \/ FetchUndecodable(c) \/ Validate(c) \/ Rewrite(c) \/ Monitor(c)
    \/ Apply(c) \/ ApplyFails(c) \/ StoreLost(c)
    \/ ListLogs(c) \/ ReadLog(c) \/ ReadLogThrows(c) \/ EndLogs(c)
    \/ Reply(c)

Next ==
    \/ Restart \/ Tick
    \/ \E c \in Conns :
          \/ Accept(c) \/ AcceptBadPolicy(c) \/ ConnectFails(c) \/ Disconnect(c)
          \/ Receive(c) \/ ReceiveMalformed(c)
          \/ Work(c)

Spec == Init /\ [][Next]_vars

(***************************************************************************)
(* Threads are detached and scheduled by the operating system, sockets and *)
(* store block only until the peer answers: a thread that can go on does.  *)
(* Clients owe nothing: no fairness on Accept, Receive or Disconnect.      *)
(***************************************************************************)
FairSpec == Spec /\ \A c \in Conns : WF_vars(Work(c))

-----------------------------------------------------------------------------
(* Properties.                                                             *)

\* A pair whose expiration time has passed.
Expired(r) == IsPair(r) /\ ~validate_exp_time(r.meta, now)

\* Every variable holds what the code could put there.
TypeOK ==
    /\ up \in BOOLEAN
    /\ restarts \in 0..MaxRestarts
    /\ now \in Nat
    /\ db \in [Keys -> Records \cup {None, Undecodable}]
    /\ audit \in [Keys -> Seq(Entries)]
    /\ durable \in [Keys -> Nat]
    /\ pc \in [Conns -> Steps]
    /\ policy \in [Conns -> Optional(DefaultPolicies)]
    /\ served \in [Conns -> Nat]
    /\ since \in [Conns -> Nat]
    /\ qry \in [Conns -> Optional(Query)]
    /\ res \in [Conns -> Optional(Records)]
    /\ valid \in [Conns -> BOOLEAN]
    /\ new \in [Conns -> Optional(Records)]
    /\ todo \in [Conns -> SUBSET (Keys \X Nat)]
    /\ resp \in [Conns -> Optional(Responses)]

\* This step is the store write of c.
WritesNow(c) ==
    /\ pc[c] = "apply"
    /\ db'[qry[c].key] # db[qry[c].key]
    /\ db'[qry[c].key] = Written(c)

(***************************************************************************)
(* A put leaves the metadata of an existing pair alone: handle_put says    *)
(* that only putm operations change them.                                  *)
(***************************************************************************)
PutKeepsMetadata ==
    [][\A c \in Conns :
          LET k == qry[c].key IN
          WritesNow(c) /\ qry[c].cmd = "put" /\ IsPair(db[k])
             => db'[k].meta = db[k].meta]_vars

(***************************************************************************)
(* A pair is overwritten or deleted only by a query that its own metadata, *)
(* as they are in the store at that moment, allowed when the query came    *)
(* in: owner or shared, purpose granted, no objection, not expired.        *)
(***************************************************************************)
EffectAuthorised ==
    [][\A k \in Keys : IsPair(db[k]) /\ db'[k] # db[k]
          => \E c \in Conns :
                /\ pc[c] = "apply"
                /\ qry[c].key = k
                /\ validate(db[k], qry[c], policy[c], since[c])]_vars

\* The log of k holds the operation that c is carrying out, with its outcome.
Audited(c, k, outcome) ==
    \E i \in DOMAIN audit[k] : /\ audit[k][i].by = c
                               /\ audit[k][i].nr = served[c]
                               /\ audit[k][i].valid
                               /\ audit[k][i].new = outcome

(***************************************************************************)
(* When a monitored pair changes, or a monitored one is created, the log   *)
(* already holds the operation and the value it is about to write.         *)
(***************************************************************************)
MonitoredChangeAudited ==
    [][\A k \in Keys :
          /\ db'[k] # db[k]
          /\ IF IsPair(db[k]) THEN db[k].meta.log ELSE IsPair(db'[k]) /\ db'[k].meta.log
          => \E c \in Conns : pc[c] = "apply" /\ qry[c].key = k /\ Audited(c, k, db'[k])]_vars

(***************************************************************************)
(* The pair k has expired and no handler is left that read it in time.     *)
(***************************************************************************)
PassedInTime(c, k) ==
    /\ qry[c] # None
    /\ qry[c].key = k
    /\ \/ pc[c] = "validate" /\ res[c] # None /\ ~Expired(res[c])
       \/ pc[c] \in {"rewrite", "monitor", "apply"} /\ valid[c]

Frozen(k) == Expired(db[k]) /\ \A c \in Conns : ~PassedInTime(c, k)

(***************************************************************************)
(* Such a pair never comes back: whatever the clients do, also             *)
(* concurrently, no query reads it, overwrites it or moves its expiration  *)
(* (the filter rejects every operation on it, put and putm included).  All *)
(* that may still happen to it is that it is erased.                       *)
(***************************************************************************)
ExpiredNeverRevived ==
    [][\A k \in Keys :
          Frozen(k) => (db'[k] = db[k] /\ Frozen(k)') \/ db'[k] = None]_vars

\* The process has not ended since the store was empty.
NeverEnded == up /\ restarts = 0

(***************************************************************************)
(* Until the process ends for the first time: while no write is under way, *)
(* the last accepted write in the log of a monitored pair is the one that  *)
(* produced what the store holds.                                          *)
(***************************************************************************)
AuditReflectsStore ==
    \A k \in Keys :
       LET accepted == {i \in DOMAIN audit[k] : /\ audit[k][i].valid
                                                /\ audit[k][i].cmd \in {"put", "putm", "delete"}}
       IN  /\ IsPair(db[k]) /\ db[k].meta.log
           /\ NeverEnded
           /\ \A c \in Conns : ~(pc[c] = "apply" /\ qry[c].key = k)
           => accepted # {} /\ audit[k][Max(accepted)].new = db[k]

-----------------------------------------------------------------------------
(* The promise of GDPRStore.  A query is carried out by the step that      *)
(* fixes its answer.                                                       *)

Phase(c) == CASE pc[c] \in {"closed", "idle"} -> "free"
              [] pc[c] = "reply" -> "done"
              [] OTHER -> "busy"

Promise == INSTANCE GDPRStore WITH
              store <- db, phase <- [c \in Conns |-> Phase(c)], who <- policy,
              ask <- qry, ans <- resp, MayFail <- WriteFaults

(***************************************************************************)
(* The steps of each handler, interleaved with those of other handlers,    *)
(* have the effect and the answer of a single one (GDPRStore).             *)
(***************************************************************************)
ImplementsStore == Promise!Spec

-----------------------------------------------------------------------------

(***************************************************************************)
(* Every query that a thread starts to handle is answered, or its          *)
(* connection is closed: no handler blocks another one.                    *)
(***************************************************************************)
EveryQueryAnswered ==
    \A c \in Conns : pc[c] \notin {"closed", "idle"} ~> pc[c] \in {"closed", "idle"}

-----------------------------------------------------------------------------
(* What comments and documents say and the code does not do.               *)

(***************************************************************************)
(* The controller outlives the queries of its clients: main() accepts      *)
(* connections for ever and every query has an answer.                     *)
(***************************************************************************)
ControllerSurvives == up

=============================================================================
