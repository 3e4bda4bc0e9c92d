------------------------ MODULE GDPRIsolationProofs -------------------------
(***************************************************************************)
(* What the controller guarantees to clients that do not share keys, for   *)
(* any number of them: nobody's write falls between a handler's read and   *)
(* its write, so the verdict of the filter still applies when the store is *)
(* written.  Without the assumption Partitioned the same statements are    *)
(* false (run insert_race).                                                *)
(***************************************************************************)
EXTENDS GDPRControllerProofs

\* No two connections name the same key in a query on the store.
Partitioned ==
    \A c, d \in Conns : c # d =>
       \A q \in Workload[c], r \in Workload[d] :
          q.cmd \in StoreCommands /\ r.cmd \in StoreCommands => q.key # r.key

(***************************************************************************)
(* What a thread knows of the pair that it read, also when keys are        *)
(* shared: an accepted query was accepted by that pair's metadata, and an  *)
(* update carries them over.                                               *)
(***************************************************************************)
VerdictInv ==
    \A c \in Conns :
       /\ since[c] <= now
       /\ pc[c] \in {"rewrite", "monitor", "apply"} /\ valid[c] /\ res[c] # None
             => validate(res[c], qry[c], policy[c], since[c])
       /\ pc[c] \in {"monitor", "apply"} /\ valid[c] /\ res[c] # None /\ qry[c].cmd = "put"
             => new[c].meta = res[c].meta

\* What a handler read is what the store holds until the handler has written.
\* It can be said of clients that do not share keys only.
FreshRead ==
    \A c \in Conns : pc[c] \in {"validate", "rewrite", "monitor", "apply"}
                        => res[c] = db[qry[c].key]

-----------------------------------------------------------------------------

\* A pair that a query may touch now could be touched earlier as well.
LEMMA ValidateEarlier ==
    ASSUME NEW r \in Records, NEW q, NEW p, NEW t \in Nat, NEW u \in Nat, t <= u,
           validate(r, q, p, u)
    PROVE  validate(r, q, p, t)
<1>1. r.meta.exp \in Int
  BY DEF Records, Metadata
<1> QED BY <1>1 DEF validate, validate_exp_time

\* Steps of one thread leave what the others know alone.
LEMMA VerdictStep == IInv /\ VerdictInv /\ [Next]_vars => VerdictInv'
<1> SUFFICES ASSUME IInv, VerdictInv, [Next]_vars PROVE VerdictInv'
  OBVIOUS
<1> USE DEF IInv
<1> DEFINE Same(d) == /\ pc'[d] = pc[d] /\ qry'[d] = qry[d] /\ policy'[d] = policy[d]
                      /\ since'[d] = since[d] /\ res'[d] = res[d] /\ valid'[d] = valid[d]
                      /\ new'[d] = new[d]
           Knows(d) == /\ since[d] <= now
                       /\ pc[d] \in {"rewrite", "monitor", "apply"} /\ valid[d] /\ res[d] # None
                             => validate(res[d], qry[d], policy[d], since[d])
                       /\ pc[d] \in {"monitor", "apply"} /\ valid[d] /\ res[d] # None
                          /\ qry[d].cmd = "put" => new[d].meta = res[d].meta
<1>0. now \in Nat /\ \A d \in Conns : since[d] \in Nat
  BY DEF TypeOK
<1>1. ASSUME NEW d \in Conns, Same(d), now' = now PROVE Knows(d)'
  BY <1>1 DEF VerdictInv
<1>2. ASSUME NEW c \in Conns, now' = now, \A d \in Conns \ {c} : Same(d), Knows(c)'
      PROVE  VerdictInv'
  <2>1. ASSUME NEW d \in Conns PROVE Knows(d)'
    BY <1>1, <1>2
  <2> QED BY <2>1 DEF VerdictInv
<1>3. ASSUME NEW flushed, Terminate(flushed) PROVE VerdictInv'
  BY <1>0, <1>3 DEF Terminate, VerdictInv
<1>4. CASE Restart
  BY <1>4 DEF Restart, VerdictInv, shared, locals
<1>5. CASE Tick
  <2>1. \A d \in Conns : Same(d)
    BY <1>5 DEF Tick, locals
  <2>2. now' = now + 1
    BY <1>5 DEF Tick
  <2>3. ASSUME NEW d \in Conns PROVE Knows(d)'
    <3>1. since'[d] <= now'
      BY <1>0, <2>1, <2>2 DEF VerdictInv
    <3> QED BY <2>1, <3>1 DEF VerdictInv
  <2> QED BY <2>3 DEF VerdictInv
<1>6. ASSUME NEW c \in Conns, Accept(c) \/ Disconnect(c) \/ Receive(c) \/ Reply(c)
                              \/ ListLogs(c) \/ ReadLog(c) \/ EndLogs(c) \/ Apply(c)
                              \/ ApplyFails(c)
      PROVE  VerdictInv'
  <2>1. pc'[c] \notin {"validate", "rewrite", "monitor", "apply"}
    BY <1>6 DEF Accept, Disconnect, Receive, Reply, ListLogs, ReadLog, EndLogs, Apply,
                ApplyFails, TypeOK
  <2>2. since'[c] \in {since[c], now, 0} /\ now' = now
    BY <1>6 DEF Accept, Disconnect, Receive, Reply, EndQuery, ListLogs, ReadLog, EndLogs,
                Apply, ApplyFails, shared, locals, TypeOK
  <2>3. \A d \in Conns \ {c} : Same(d)
    BY <1>6 DEF Accept, Disconnect, Receive, Reply, EndQuery, ListLogs, ReadLog, EndLogs,
                Apply, ApplyFails, shared, locals, TypeOK
  <2>4. Knows(c)'
    BY <1>0, <2>1, <2>2 DEF VerdictInv
  <2> QED BY <1>2, <2>2, <2>3, <2>4
<1>7. ASSUME NEW c \in Conns, Fetch(c) PROVE VerdictInv'
  <2>1. now' = now /\ since' = since
    BY <1>7 DEF Fetch, shared
  <2>2. \A d \in Conns \ {c} : Same(d)
    BY <1>7 DEF Fetch, TypeOK
  <2>3. /\ pc'[c] \in {"rewrite", "reply", "validate"}
        /\ pc'[c] = "rewrite" => res'[c] = None
    BY <1>7 DEF Fetch, TypeOK
  <2>4. Knows(c)'
    BY <2>1, <2>3 DEF VerdictInv
  <2> QED BY <1>2, <2>1, <2>2, <2>4
<1>8. ASSUME NEW c \in Conns, Validate(c) PROVE VerdictInv'
  <2> DEFINE ok == validate(res[c], qry[c], policy[c], now)
  <2>1. /\ now' = now /\ since' = since /\ qry' = qry /\ policy' = policy
        /\ res' = res /\ new' = new
    BY <1>8 DEF Validate, shared
  <2>2. \A d \in Conns \ {c} : Same(d)
    BY <1>8 DEF Validate, TypeOK
  <2>3. /\ valid'[c] = ok
        /\ pc'[c] = IF ok /\ qry[c].cmd \in {"put", "putm"} THEN "rewrite" ELSE "monitor"
    BY <1>8 DEF Validate, TypeOK
  <2>4. ASSUME ok PROVE validate(res[c], qry[c], policy[c], since[c])
    <3>1. res[c] \in Records
      BY <2>4 DEF validate, TypeOK, Optional
    <3>2. since[c] <= now
      BY DEF VerdictInv
    <3> QED BY <1>0, <2>4, <3>1, <3>2, ValidateEarlier
  <2> HIDE DEF ok
  <2>5. since'[c] <= now'
    BY <2>1 DEF VerdictInv
  <2>6. pc'[c] \in {"rewrite", "monitor", "apply"} /\ valid'[c] /\ res'[c] # None
           => validate(res'[c], qry'[c], policy'[c], since'[c])
    BY <2>1, <2>3, <2>4
  <2>7. ~(pc'[c] \in {"monitor", "apply"} /\ valid'[c] /\ qry'[c].cmd = "put")
    BY <2>1, <2>3
  <2>8. Knows(c)'
    BY <2>5, <2>6, <2>7
  <2> QED BY <1>2, <2>1, <2>2, <2>8
<1>9. ASSUME NEW c \in Conns, Rewrite(c) PROVE VerdictInv'
  <2>1. /\ now' = now /\ since' = since /\ qry' = qry /\ policy' = policy
        /\ res' = res /\ valid' = valid
    BY <1>9 DEF Rewrite, shared
  <2>2. \A d \in Conns \ {c} : Same(d)
    BY <1>9 DEF Rewrite, TypeOK
  <2>3. pc[c] = "rewrite" /\ pc'[c] = "monitor"
    BY <1>9 DEF Rewrite, TypeOK
  <2>4. qry[c].cmd = "put" /\ res[c] # None => new'[c].meta = res[c].meta
    <3> SUFFICES ASSUME qry[c].cmd = "put", res[c] # None PROVE new'[c].meta = res[c].meta
      OBVIOUS
    <3>1. new'[c] = rewrite_update(res[c], qry[c])
      BY <1>9 DEF Rewrite, TypeOK
    <3> QED BY <3>1 DEF rewrite_update
  <2>5. Knows(c)'
    BY <2>1, <2>3, <2>4 DEF VerdictInv
  <2> QED BY <1>2, <2>1, <2>2, <2>5
<1>10. ASSUME NEW c \in Conns, Monitor(c) PROVE VerdictInv'
  <2>1. /\ now' = now /\ since' = since /\ qry' = qry /\ policy' = policy
        /\ res' = res /\ valid' = valid /\ new' = new
    BY <1>10 DEF Monitor
  <2>2. \A d \in Conns \ {c} : Same(d)
    BY <1>10 DEF Monitor, TypeOK
  <2>3. pc[c] = "monitor" /\ pc'[c] \in {"apply", "reply"}
    BY <1>10 DEF Monitor, TypeOK
  <2>4. Knows(c)'
    BY <2>1, <2>3 DEF VerdictInv
  <2> QED BY <1>2, <2>1, <2>2, <2>4
<1>11. ASSUME NEW c \in Conns,
              AcceptBadPolicy(c) \/ ConnectFails(c) \/ ReceiveMalformed(c)
              \/ FetchUndecodable(c) \/ ReadLogThrows(c) \/ StoreLost(c)
       PROVE  VerdictInv'
  <2>1. \E flushed : Terminate(flushed)
    BY <1>11 DEF AcceptBadPolicy, ConnectFails, ReceiveMalformed, FetchUndecodable,
                ReadLogThrows, StoreLost
  <2> QED BY <1>3, <2>1
<1>12. CASE UNCHANGED vars
  BY <1>12 DEF vars, shared, locals, VerdictInv
<1> QED
  BY <1>4, <1>5, <1>6, <1>7, <1>8, <1>9, <1>10, <1>11, <1>12 DEF Next, Work

\* Two handlers at work hold different keys.
LEMMA HandlersApart ==
    ASSUME Partitioned, IInv, NEW c \in Conns, NEW d \in Conns, c # d,
           pc[c] \in Handling, pc[d] \in Handling
    PROVE  qry[c].key # qry[d].key
<1>1. /\ qry[c] \in Workload[c] /\ qry[c].cmd \in StoreCommands
      /\ qry[d] \in Workload[d] /\ qry[d].cmd \in StoreCommands
  BY DEF IInv, ThreadInv, Handling
<1> QED BY <1>1 DEF Partitioned

\* A step leaves fresh reads fresh: the store changes under its reader only.
LEMMA FreshStep ==
    ASSUME Partitioned, ~ReadFaults, IInv, FreshRead, [Next]_vars
    PROVE  FreshRead'
<1> USE DEF IInv
<1> DEFINE Reading == {"validate", "rewrite", "monitor", "apply"}
           Same(d) == pc'[d] = pc[d] /\ qry'[d] = qry[d] /\ res'[d] = res[d]
           Fresh(d) == pc[d] \in Reading => res[d] = db[qry[d].key]
<1>1. ASSUME NEW c \in Conns, db' = db, \A d \in Conns \ {c} : Same(d), Fresh(c)'
      PROVE  FreshRead'
  <2>1. ASSUME NEW d \in Conns PROVE Fresh(d)'
    BY <1>1 DEF FreshRead
  <2> QED BY <2>1 DEF FreshRead
<1>2. ASSUME NEW flushed, Terminate(flushed) PROVE FreshRead'
  BY <1>2 DEF Terminate, FreshRead
<1>3. CASE Restart \/ Tick \/ UNCHANGED vars
  BY <1>3 DEF Restart, Tick, vars, shared, locals, FreshRead
<1>4. ASSUME NEW c \in Conns, Accept(c) \/ Disconnect(c) \/ Receive(c) \/ Reply(c)
                              \/ ListLogs(c) \/ ReadLog(c) \/ EndLogs(c) \/ ApplyFails(c)
      PROVE  FreshRead'
  <2>1. pc'[c] \notin Reading
    BY <1>4 DEF Accept, Disconnect, Receive, Reply, ListLogs, ReadLog, EndLogs, ApplyFails,
                TypeOK
  <2>2. db' = db /\ \A d \in Conns \ {c} : Same(d)
    BY <1>4 DEF Accept, Disconnect, Receive, Reply, EndQuery, ListLogs, ReadLog, EndLogs,
                ApplyFails, shared, locals, TypeOK
  <2> QED BY <1>1, <2>1, <2>2
<1>5. ASSUME NEW c \in Conns, Fetch(c) PROVE FreshRead'
  <2>1. db' = db /\ qry' = qry /\ res'[c] = db[qry[c].key]
    BY <1>5 DEF Fetch, FetchResults, shared, TypeOK
  <2>2. \A d \in Conns \ {c} : Same(d)
    BY <1>5 DEF Fetch, TypeOK
  <2> QED BY <1>1, <2>1, <2>2
<1>6. ASSUME NEW c \in Conns, Validate(c) \/ Rewrite(c) \/ Monitor(c) PROVE FreshRead'
  <2>1. db' = db /\ qry' = qry /\ res' = res /\ pc[c] \in Reading
    BY <1>6 DEF Validate, Rewrite, Monitor, shared
  <2>2. \A d \in Conns \ {c} : Same(d)
    BY <1>6, <2>1 DEF Validate, Rewrite, Monitor, TypeOK
  <2>3. Fresh(c)'
    BY <2>1 DEF FreshRead
  <2> QED BY <1>1, <2>1, <2>2, <2>3
<1>7. ASSUME NEW c \in Conns, Apply(c) PROVE FreshRead'
  <2>1. /\ pc[c] = "apply" /\ pc'[c] = "reply" /\ qry' = qry /\ res' = res
        /\ db' = [db EXCEPT ![qry[c].key] = Written(c)]
        /\ \A d \in Conns \ {c} : pc'[d] = pc[d]
    BY <1>7 DEF Apply, TypeOK
  <2>2. ASSUME NEW d \in Conns, pc'[d] \in Reading PROVE res'[d] = db'[qry'[d].key]
    <3>1. d # c /\ pc[d] \in Reading
      BY <2>1, <2>2
    <3>2. qry[c].key # qry[d].key
      BY <2>1, <3>1, HandlersApart DEF Handling
    <3>3. qry[d].key \in Keys
      BY <3>1, QueryFields DEF ThreadInv, Handling, StoreCommands
    <3>4. db'[qry[d].key] = db[qry[d].key]
      BY <2>1, <3>2, <3>3 DEF TypeOK
    <3> QED BY <2>1, <3>1, <3>4 DEF FreshRead
  <2> QED BY <2>2 DEF FreshRead
<1>8. ASSUME NEW c \in Conns,
             AcceptBadPolicy(c) \/ ConnectFails(c) \/ ReceiveMalformed(c)
             \/ FetchUndecodable(c) \/ ReadLogThrows(c) \/ StoreLost(c)
      PROVE  FreshRead'
  <2>1. \E flushed : Terminate(flushed)
    BY <1>8 DEF AcceptBadPolicy, ConnectFails, ReceiveMalformed, FetchUndecodable,
               ReadLogThrows, StoreLost
  <2> QED BY <1>2, <2>1
<1> QED
  BY <1>3, <1>4, <1>5, <1>6, <1>7, <1>8 DEF Next, Work

\* The store changes at one key only, by the write of a thread.
LEMMA WriterOf ==
    ASSUME IInv, [Next]_vars, NEW k \in Keys, db'[k] # db[k]
    PROVE  \E c \in Conns : pc[c] = "apply" /\ qry[c].key = k /\ db'[k] = Written(c)
<1>1. PICK c \in Conns : /\ pc[c] = "apply"
                         /\ db' = [db EXCEPT ![qry[c].key] = Written(c)]
  BY DEF Next, Work, Restart, Tick, Accept, AcceptBadPolicy, ConnectFails, Disconnect, Receive,
         ReceiveMalformed, Fetch, FetchUndecodable, Validate, Rewrite, Monitor, Apply,
         ApplyFails, StoreLost, ListLogs, ReadLog, ReadLogThrows, EndLogs, Reply,
         vars, shared
<1> QED BY <1>1 DEF IInv, TypeOK

-----------------------------------------------------------------------------

\* No client writes to a pair that another one is working on.
LEMMA ReadsStayFresh ==
    ASSUME Partitioned, ~ReadFaults
    PROVE  Spec => []FreshRead
<1>1. Init => FreshRead
  BY DEF Init, FreshRead
<1>2. IInv /\ FreshRead /\ [Next]_vars => FreshRead'
  BY FreshStep
<1> QED
  BY <1>1, <1>2, Inductive, PTL DEF Spec

\* The verdicts that threads hold, for every workload.
LEMMA VerdictsHold == Spec => []VerdictInv
<1>1. Init => VerdictInv
  BY DEF Init, VerdictInv
<1> QED
  BY <1>1, VerdictStep, Inductive, PTL DEF Spec

(***************************************************************************)
(* Clients that do not share keys: a pair is overwritten or deleted only   *)
(* by a query that the pair, as it is in the store, allows.                *)
(***************************************************************************)
THEOREM EffectsAuthorised ==
    ASSUME Partitioned, ~ReadFaults
    PROVE  Spec => EffectAuthorised
<1> DEFINE A == \A k \in Keys : IsPair(db[k]) /\ db'[k] # db[k]
                   => \E c \in Conns : /\ pc[c] = "apply"
                                       /\ qry[c].key = k
                                       /\ validate(db[k], qry[c], policy[c], since[c])
<1>1. IInv /\ FreshRead /\ VerdictInv /\ [Next]_vars => [A]_vars
  <2> SUFFICES ASSUME IInv, FreshRead, VerdictInv, [Next]_vars,
                      NEW k \in Keys, IsPair(db[k]), db'[k] # db[k]
               PROVE  \E c \in Conns : /\ pc[c] = "apply"
                                       /\ qry[c].key = k
                                       /\ validate(db[k], qry[c], policy[c], since[c])
    OBVIOUS
  <2>1. PICK c \in Conns : pc[c] = "apply" /\ qry[c].key = k
    BY WriterOf
  <2>2. res[c] = db[k] /\ res[c] # None
    BY <2>1 DEF FreshRead, IsPair
  <2>3. valid[c]
    BY <2>1 DEF IInv, ThreadInv
  <2> QED BY <2>1, <2>2, <2>3 DEF VerdictInv
<1> QED
  BY <1>1, ReadsStayFresh, VerdictsHold, Inductive, PTL DEF Spec, EffectAuthorised

(***************************************************************************)
(* Clients that do not share keys: only putm changes metadata.             *)
(***************************************************************************)
THEOREM PutsKeepMetadata ==
    ASSUME Partitioned, ~ReadFaults
    PROVE  Spec => PutKeepsMetadata
<1> DEFINE A == \A c \in Conns :
                   LET k == qry[c].key IN
                   WritesNow(c) /\ qry[c].cmd = "put" /\ IsPair(db[k])
                      => db'[k].meta = db[k].meta
<1>1. IInv /\ FreshRead /\ VerdictInv /\ [Next]_vars => [A]_vars
  <2> SUFFICES ASSUME IInv, FreshRead, VerdictInv, [Next]_vars, NEW c \in Conns,
                      WritesNow(c), qry[c].cmd = "put", IsPair(db[qry[c].key])
               PROVE  db'[qry[c].key].meta = db[qry[c].key].meta
    OBVIOUS
  <2>1. pc[c] = "apply" /\ db'[qry[c].key] = new[c]
    BY DEF WritesNow, Written
  <2>2. res[c] = db[qry[c].key] /\ res[c] # None
    BY <2>1 DEF FreshRead, IsPair
  <2>3. new[c].meta = res[c].meta
    BY <2>1, <2>2 DEF IInv, ThreadInv, VerdictInv
  <2> QED BY <2>1, <2>2, <2>3
<1> QED
  BY <1>1, ReadsStayFresh, VerdictsHold, Inductive, PTL DEF Spec, PutKeepsMetadata

-----------------------------------------------------------------------------
(***************************************************************************)
(* The controller keeps the promise of GDPRStore to clients that do not    *)
(* share keys, for any number of them: a handler, with the steps of all    *)
(* other handlers in between, has the effect and the answer of one step.   *)
(***************************************************************************)

\* The store keeps the value of a putm: not the unencrypted rocksdb client.
StoresPutm == Backend = "redis" \/ Encryption

\* The verdict on the query of c with the clock at t.
Accepts(c, t) ==
    \/ qry[c].cmd = "put" /\ res[c] = None
    \/ validate(res[c], qry[c], policy[c], t)

\* The value that the query of c asks for, made with the clock at u.
NewValue(c, u) ==
    CASE qry[c].cmd = "putm" -> rewrite_putm(res[c], qry[c], u)
      [] qry[c].cmd = "put" /\ res[c] # None -> rewrite_update(res[c], qry[c])
      [] qry[c].cmd = "put" /\ res[c] = None -> rewrite_insert(qry[c], policy[c], u)
      [] OTHER -> None

\* Verdict and new value of c are those of the clock readings t and u.
DecidedAt(c, t, u) ==
    /\ t <= u
    /\ valid[c] <=> Accepts(c, t)
    /\ new[c] = IF valid[c] THEN NewValue(c, u) ELSE None

(***************************************************************************)
(* Where the verdict and the new value of a handler come from.  A handler  *)
(* reads the clock twice, for the verdict and for the expiration time, and *)
(* both readings lie between the arrival of its query and now.             *)
(***************************************************************************)
WorkInv ==
    \A c \in Conns :
       /\ pc[c] \in {"list_logs", "read_logs"} => qry[c].cmd = "getlogs"
       /\ pc[c] \notin {"monitor", "apply", "reply"} => new[c] = None
       /\ pc[c] = "validate" => ~(qry[c].cmd = "put" /\ res[c] = None)
       /\ pc[c] = "rewrite" => \E t \in since[c]..now : Accepts(c, t)
       /\ pc[c] \in {"monitor", "apply"} => \E t, u \in since[c]..now : DecidedAt(c, t, u)

-----------------------------------------------------------------------------

\* The initial state: no handler is at work.
LEMMA WorkInit == Init => WorkInv
BY DEF Init, WorkInv

\* A handler's verdict and value outlive the steps of the other threads.
LEMMA WorkStep == IInv /\ VerdictInv /\ WorkInv /\ [Next]_vars => WorkInv'
<1> SUFFICES ASSUME IInv, VerdictInv, WorkInv, [Next]_vars PROVE WorkInv'
  OBVIOUS
<1> USE DEF IInv
<1> DEFINE Same(d) == /\ pc'[d] = pc[d] /\ qry'[d] = qry[d] /\ policy'[d] = policy[d]
                      /\ since'[d] = since[d] /\ res'[d] = res[d] /\ valid'[d] = valid[d]
                      /\ new'[d] = new[d]
           Works(d) ==
              /\ pc[d] \in {"list_logs", "read_logs"} => qry[d].cmd = "getlogs"
              /\ pc[d] \notin {"monitor", "apply", "reply"} => new[d] = None
              /\ pc[d] = "validate" => ~(qry[d].cmd = "put" /\ res[d] = None)
              /\ pc[d] = "rewrite" => \E t \in since[d]..now : Accepts(d, t)
              /\ pc[d] \in {"monitor", "apply"} =>
                    \E t, u \in since[d]..now : DecidedAt(d, t, u)
<1>0. /\ now \in Nat /\ \A d \in Conns : since[d] \in Nat /\ since[d] <= now
      /\ \A d \in Conns : Works(d)
  BY DEF TypeOK, VerdictInv, WorkInv
<1>1. ASSUME NEW d \in Conns, Same(d), now' = now \/ now' = now + 1 PROVE Works(d)'
  <2>1. \A t \in since[d]..now : t \in since'[d]..now'
    BY <1>0, <1>1
  <2>2. ASSUME NEW t PROVE Accepts(d, t) <=> Accepts(d, t)'
    BY <1>1 DEF Accepts
  <2>3. ASSUME NEW t, NEW u PROVE DecidedAt(d, t, u) => DecidedAt(d, t, u)'
    BY <1>1, <2>2 DEF DecidedAt, NewValue
  <2>4. pc'[d] = "rewrite" => \E t \in since'[d]..now' : Accepts(d, t)'
    BY <1>0, <1>1, <2>1, <2>2
  <2>5. pc'[d] \in {"monitor", "apply"} =>
           \E t, u \in since'[d]..now' : DecidedAt(d, t, u)'
    BY <1>0, <1>1, <2>1, <2>3
  <2>6. /\ pc'[d] \in {"list_logs", "read_logs"} => qry'[d].cmd = "getlogs"
        /\ pc'[d] \notin {"monitor", "apply", "reply"} => new'[d] = None
        /\ pc'[d] = "validate" => ~(qry'[d].cmd = "put" /\ res'[d] = None)
    BY <1>0, <1>1
  <2> QED BY <2>4, <2>5, <2>6
<1>2. ASSUME NEW c \in Conns, now' = now, \A d \in Conns \ {c} : Same(d), Works(c)'
      PROVE  WorkInv'
  <2>1. ASSUME NEW d \in Conns PROVE Works(d)'
    BY <1>1, <1>2
  <2> QED BY <2>1 DEF WorkInv
<1>3. ASSUME NEW flushed, Terminate(flushed) PROVE WorkInv'
  BY <1>3 DEF Terminate, WorkInv
<1>4. CASE Restart \/ Tick \/ UNCHANGED vars
  <2>1. ASSUME NEW d \in Conns PROVE Works(d)'
    <3>1. Same(d) /\ (now' = now \/ now' = now + 1)
      BY <1>4 DEF Restart, Tick, vars, shared, locals
    <3> QED BY <1>1, <3>1
  <2> QED BY <2>1 DEF WorkInv
<1>5. ASSUME NEW c \in Conns, Accept(c) \/ Disconnect(c) \/ Receive(c) \/ Reply(c)
                              \/ ListLogs(c) \/ ReadLog(c) \/ EndLogs(c) \/ Apply(c)
                              \/ ApplyFails(c)
      PROVE  WorkInv'
  <2>1. pc'[c] \notin {"validate", "rewrite", "monitor", "apply"}
    BY <1>5 DEF Accept, Disconnect, Receive, Reply, ListLogs, ReadLog, EndLogs, Apply,
                ApplyFails, TypeOK
  <2>2. now' = now /\ \A d \in Conns \ {c} : Same(d)
    BY <1>5 DEF Accept, Disconnect, Receive, Reply, EndQuery, ListLogs, ReadLog, EndLogs,
                Apply, ApplyFails, shared, locals, TypeOK
  <2>3. pc'[c] \in {"list_logs", "read_logs"} => qry'[c].cmd = "getlogs"
    BY <1>0, <1>5 DEF Accept, Disconnect, Receive, Reply, ListLogs, ReadLog, EndLogs, Apply,
                      ApplyFails, shared, locals, TypeOK
  <2>4. pc'[c] # "reply" => new'[c] = None
    BY <1>0, <1>5 DEF Accept, Disconnect, Receive, Reply, EndQuery, ListLogs, ReadLog,
                      EndLogs, Apply, ApplyFails, shared, locals, TypeOK
  <2>5. Works(c)'
    BY <2>1, <2>3, <2>4
  <2> QED BY <1>2, <2>2, <2>5
<1>6. ASSUME NEW c \in Conns, Fetch(c) PROVE WorkInv'
  <2>1. now' = now /\ since' = since /\ qry' = qry /\ new' = new /\ pc[c] = "fetch"
    BY <1>6 DEF Fetch, shared
  <2>2. \A d \in Conns \ {c} : Same(d)
    BY <1>6 DEF Fetch, TypeOK
  <2>3. /\ pc'[c] \in {"rewrite", "reply", "validate"}
        /\ pc'[c] = "rewrite" => res'[c] = None /\ qry[c].cmd = "put"
        /\ pc'[c] = "validate" => ~(qry[c].cmd = "put" /\ res'[c] = None)
    BY <1>6 DEF Fetch, TypeOK
  <2>4. pc'[c] = "rewrite" => Accepts(c, now)'
    BY <2>1, <2>3 DEF Accepts
  <2>5. now \in since[c]..now
    BY <1>0
  <2>6. pc'[c] = "rewrite" => \E t \in since'[c]..now' : Accepts(c, t)'
    BY <2>1, <2>4, <2>5
  <2>7. Works(c)'
    BY <1>0, <2>1, <2>3, <2>6
  <2> QED BY <1>2, <2>1, <2>2, <2>7
<1>7. ASSUME NEW c \in Conns, Validate(c) PROVE WorkInv'
  <2> DEFINE ok == validate(res[c], qry[c], policy[c], now)
  <2>1. /\ now' = now /\ since' = since /\ qry' = qry /\ policy' = policy
        /\ res' = res /\ new' = new /\ pc[c] = "validate"
    BY <1>7 DEF Validate, shared
  <2>2. \A d \in Conns \ {c} : Same(d)
    BY <1>7 DEF Validate, TypeOK
  <2>3. /\ valid'[c] = ok
        /\ pc'[c] = IF ok /\ qry[c].cmd \in {"put", "putm"} THEN "rewrite" ELSE "monitor"
    BY <1>7 DEF Validate, TypeOK
  <2>4. PICK n \in since[c]..now : n = now
    BY <1>0
  <2>5. ~(qry[c].cmd = "put" /\ res[c] = None) /\ new[c] = None
    BY <1>0, <2>1
  <2>6. valid'[c] <=> Accepts(c, n)'
    BY <2>1, <2>3, <2>4, <2>5 DEF Accepts
  <2>7. pc'[c] = "rewrite" => \E t \in since'[c]..now' : Accepts(c, t)'
    BY <2>1, <2>3, <2>4, <2>6
  <2>8. pc'[c] = "monitor" => DecidedAt(c, n, n)'
    <3>1. valid'[c] /\ pc'[c] = "monitor" => qry[c].cmd \notin {"put", "putm"}
      BY <2>3
    <3>2. qry[c].cmd \notin {"put", "putm"} => NewValue(c, n)' = None
      BY <2>1 DEF NewValue
    <3> QED BY <1>0, <2>1, <2>4, <2>5, <2>6, <3>1, <3>2 DEF DecidedAt
  <2>9. pc'[c] = "monitor" => \E t, u \in since'[c]..now' : DecidedAt(c, t, u)'
    BY <2>1, <2>4, <2>8
  <2>10. Works(c)'
    BY <1>0, <2>1, <2>3, <2>7, <2>9
  <2> QED BY <1>2, <2>1, <2>2, <2>10
<1>8. ASSUME NEW c \in Conns, Rewrite(c) PROVE WorkInv'
  <2>1. /\ now' = now /\ since' = since /\ qry' = qry /\ policy' = policy
        /\ res' = res /\ valid' = valid /\ pc[c] = "rewrite" /\ pc'[c] = "monitor"
    BY <1>8 DEF Rewrite, shared, TypeOK
  <2>2. \A d \in Conns \ {c} : Same(d)
    BY <1>8 DEF Rewrite, TypeOK
  <2>3. valid[c] /\ qry[c].cmd \in {"put", "putm"}
    BY <2>1 DEF ThreadInv
  <2>4. PICK t \in since[c]..now, n \in since[c]..now : Accepts(c, t) /\ n = now
    BY <1>0, <2>1
  <2>5. new'[c] = NewValue(c, n)'
    BY <1>8, <2>1, <2>3, <2>4 DEF Rewrite, NewValue, TypeOK
  <2>6. Accepts(c, t)'
    BY <2>1, <2>4 DEF Accepts
  <2>7. t <= n
    BY <1>0, <2>4
  <2>8. DecidedAt(c, t, n)'
    BY <2>1, <2>3, <2>5, <2>6, <2>7 DEF DecidedAt
  <2>9. \E s, u \in since'[c]..now' : DecidedAt(c, s, u)'
    BY <2>1, <2>4, <2>8
  <2>10. Works(c)'
    BY <2>1, <2>9
  <2> QED BY <1>2, <2>1, <2>2, <2>10
<1>9. ASSUME NEW c \in Conns, Monitor(c) PROVE WorkInv'
  <2>1. /\ now' = now /\ since' = since /\ qry' = qry /\ policy' = policy
        /\ res' = res /\ valid' = valid /\ new' = new
        /\ pc[c] = "monitor" /\ pc'[c] \in {"apply", "reply"}
    BY <1>9 DEF Monitor, TypeOK
  <2>2. \A d \in Conns \ {c} : Same(d)
    BY <1>9 DEF Monitor, TypeOK
  <2>3. PICK t \in since[c]..now, u \in since[c]..now : DecidedAt(c, t, u)
    BY <1>0, <2>1
  <2>4. DecidedAt(c, t, u)'
    BY <2>1, <2>3 DEF DecidedAt, Accepts, NewValue
  <2>5. \E s, v \in since'[c]..now' : DecidedAt(c, s, v)'
    BY <2>1, <2>4
  <2>6. Works(c)'
    BY <2>1, <2>5
  <2> QED BY <1>2, <2>1, <2>2, <2>6
<1>10. ASSUME NEW c \in Conns,
              AcceptBadPolicy(c) \/ ConnectFails(c) \/ ReceiveMalformed(c)
              \/ FetchUndecodable(c) \/ ReadLogThrows(c) \/ StoreLost(c)
       PROVE  WorkInv'
  <2>1. \E flushed : Terminate(flushed)
    BY <1>10 DEF AcceptBadPolicy, ConnectFails, ReceiveMalformed, FetchUndecodable,
                ReadLogThrows, StoreLost
  <2> QED BY <1>3, <2>1
<1> QED
  BY <1>4, <1>5, <1>6, <1>7, <1>8, <1>9, <1>10 DEF Next, Work

-----------------------------------------------------------------------------
(* GDPRStore has the filter and the rewriters of the controller.           *)

LEMMA SameValidate ==
    ASSUME NEW r, NEW q, NEW p, NEW t
    PROVE  Promise!validate(r, q, p, t) <=> validate(r, q, p, t)
BY DEF Promise!validate, validate, Promise!validate_session_key, validate_session_key,
       Promise!session_key, session_key, Promise!value_or, value_or,
       Promise!validate_pur, validate_pur, Promise!validate_obj, validate_obj,
       Promise!query_purposes, query_purposes, Promise!validate_exp_time, validate_exp_time

LEMMA SameRewrites ==
    ASSUME NEW r, NEW q, NEW p, NEW t
    PROVE  /\ Promise!rewrite_insert(q, p, t) = rewrite_insert(q, p, t)
           /\ Promise!rewrite_update(r, q) = rewrite_update(r, q)
           /\ Promise!rewrite_putm(r, q, t) = rewrite_putm(r, q, t)
BY DEF Promise!rewrite_insert, rewrite_insert, Promise!rewrite_update, rewrite_update,
       Promise!rewrite_putm, rewrite_putm, Promise!session_key, session_key,
       Promise!value_or, value_or, Promise!get_expiration_time, get_expiration_time,
       Promise!glue_ninth, glue_ninth, Promise!Front, Front

LEMMA SameViews ==
    ASSUME NEW r
    PROVE  /\ Promise!remove_gdpr_metadata(r) = remove_gdpr_metadata(r)
           /\ Promise!preserve_only_gdpr_metadata(r) = preserve_only_gdpr_metadata(r)
BY DEF Promise!remove_gdpr_metadata, remove_gdpr_metadata,
       Promise!preserve_only_gdpr_metadata, preserve_only_gdpr_metadata,
       Promise!Front, Front, Promise!Last, Last

\* The outcome that GDPRStore prescribes, in terms of verdict and new value.
LEMMA OutcomeIs ==
    ASSUME NEW c \in Conns, NEW t, NEW u, qry[c].cmd \in StoreCommands
    PROVE  Promise!Outcome(c, res[c], t, u) =
              [store |-> IF Accepts(c, t) /\ IsWrite(c) THEN NewValue(c, u) ELSE res[c],
               ans   |-> IF Accepts(c, t) /\ IsWrite(c) THEN Succeeded
                         ELSE IF Accepts(c, t) /\ qry[c].cmd = "get"
                         THEN [code |-> "value", view |-> remove_gdpr_metadata(res[c])]
                         ELSE IF Accepts(c, t) /\ qry[c].cmd = "getm"
                         THEN [code |-> "value", view |-> preserve_only_gdpr_metadata(res[c])]
                         ELSE Failed]
<1> DEFINE q == qry[c]
           ok == validate(res[c], qry[c], policy[c], t)
<1>0. Promise!validate(res[c], qry[c], policy[c], t) <=> ok
  BY SameValidate
<1>1. CASE q.cmd = "put" /\ res[c] = None
  <2>1. Accepts(c, t) /\ IsWrite(c) /\ ~ok
    BY <1>1 DEF Accepts, IsWrite, validate
  <2>2. NewValue(c, u) = rewrite_insert(qry[c], policy[c], u)
    BY <1>1 DEF NewValue
  <2>3. Promise!Outcome(c, res[c], t, u) =
           [store |-> Promise!rewrite_insert(qry[c], policy[c], u), ans |-> Succeeded]
    BY <1>0, <1>1, <2>1 DEF Promise!Outcome, Promise!Answer, Succeeded
  <2> QED BY <2>1, <2>2, <2>3, SameRewrites
<1>2. CASE ~(q.cmd = "put" /\ res[c] = None) /\ ~ok
  <2>1. ~Accepts(c, t)
    BY <1>2 DEF Accepts
  <2>3. Promise!Outcome(c, res[c], t, u) = [store |-> res[c], ans |-> Failed]
    BY <1>0, <1>2 DEF Promise!Outcome, Promise!Answer, Promise!Refused, Failed
  <2> QED BY <2>1, <2>3
<1>3. CASE q.cmd = "put" /\ res[c] # None /\ ok
  <2>1. Accepts(c, t) /\ IsWrite(c)
    BY <1>3 DEF Accepts, IsWrite
  <2>2. NewValue(c, u) = rewrite_update(res[c], qry[c])
    BY <1>3 DEF NewValue
  <2>3. Promise!Outcome(c, res[c], t, u) =
           [store |-> Promise!rewrite_update(res[c], qry[c]), ans |-> Succeeded]
    BY <1>0, <1>3 DEF Promise!Outcome, Promise!Answer, Succeeded
  <2> QED BY <2>1, <2>2, <2>3, SameRewrites
<1>4. CASE q.cmd = "putm" /\ ok
  <2>1. Accepts(c, t) /\ IsWrite(c)
    BY <1>4 DEF Accepts, IsWrite
  <2>2. NewValue(c, u) = rewrite_putm(res[c], qry[c], u)
    BY <1>4 DEF NewValue
  <2>3. Promise!Outcome(c, res[c], t, u) =
           [store |-> Promise!rewrite_putm(res[c], qry[c], u), ans |-> Succeeded]
    BY <1>0, <1>4 DEF Promise!Outcome, Promise!Answer, Succeeded
  <2> QED BY <2>1, <2>2, <2>3, SameRewrites
<1>5. CASE q.cmd = "delete" /\ ok
  <2>1. Accepts(c, t) /\ IsWrite(c)
    BY <1>5 DEF Accepts, IsWrite
  <2>2. NewValue(c, u) = None
    BY <1>5 DEF NewValue
  <2>3. Promise!Outcome(c, res[c], t, u) = [store |-> None, ans |-> Succeeded]
    BY <1>0, <1>5 DEF Promise!Outcome, Promise!Answer, Succeeded
  <2> QED BY <2>1, <2>2, <2>3
<1>6. CASE q.cmd = "get" /\ ok
  <2>1. Accepts(c, t) /\ ~IsWrite(c)
    BY <1>6 DEF Accepts, IsWrite
  <2>2. Promise!Outcome(c, res[c], t, u) =
           [store |-> res[c],
            ans |-> [code |-> "value", view |-> Promise!remove_gdpr_metadata(res[c])]]
    BY <1>0, <1>6 DEF Promise!Outcome, Promise!Answer
  <2> QED BY <1>6, <2>1, <2>2, SameViews
<1>7. CASE q.cmd = "getm" /\ ok
  <2>1. Accepts(c, t) /\ ~IsWrite(c)
    BY <1>7 DEF Accepts, IsWrite
  <2>2. Promise!Outcome(c, res[c], t, u) =
           [store |-> res[c],
            ans |-> [code |-> "value", view |-> Promise!preserve_only_gdpr_metadata(res[c])]]
    BY <1>0, <1>7 DEF Promise!Outcome, Promise!Answer
  <2> QED BY <1>7, <2>1, <2>2, SameViews
<1> QED BY <1>1, <1>2, <1>3, <1>4, <1>5, <1>6, <1>7 DEF StoreCommands, validate

\* The outcome for a handler that has its verdict and works on a fresh read.
LEMMA DecidedOutcome ==
    ASSUME IInv, FreshRead, NEW c \in Conns, pc[c] \in {"monitor", "apply"},
           NEW t, NEW u, DecidedAt(c, t, u)
    PROVE  Promise!Outcome(c, db[qry[c].key], t, u) =
              [store |-> IF valid[c] /\ IsWrite(c) THEN new[c] ELSE db[qry[c].key],
               ans   |-> IF valid[c] /\ IsWrite(c) THEN Succeeded ELSE ReadResponse(c)]
<1>1. qry[c].cmd \in StoreCommands
  BY DEF IInv, ThreadInv, Handling
<1>2. res[c] = db[qry[c].key]
  BY DEF FreshRead
<1>3. (valid[c] <=> Accepts(c, t)) /\ new[c] = IF valid[c] THEN NewValue(c, u) ELSE None
  BY DEF DecidedAt
<1>4. ReadResponse(c) = IF valid[c] /\ qry[c].cmd = "get"
                        THEN [code |-> "value", view |-> remove_gdpr_metadata(res[c])]
                        ELSE IF valid[c] /\ qry[c].cmd = "getm"
                        THEN [code |-> "value", view |-> preserve_only_gdpr_metadata(res[c])]
                        ELSE Failed
  BY DEF ReadResponse
<1> QED BY <1>1, <1>2, <1>3, <1>4, OutcomeIs

-----------------------------------------------------------------------------
(* Steps of the controller as steps of GDPRStore.                          *)

\* The thread of c moves on: the phases of the others stay.
LEMMA PhaseMoves ==
    ASSUME pc \in [Conns -> Steps], NEW c \in Conns, NEW s, pc' = [pc EXCEPT ![c] = s]
    PROVE  [d \in Conns |-> Phase(d)]' = [[d \in Conns |-> Phase(d)] EXCEPT ![c] =
              IF s \in {"closed", "idle"} THEN "free" ELSE IF s = "reply" THEN "done" ELSE "busy"]
BY DEF Phase

\* The step that fixes the answer of c carries its query out.
LEMMA PerformStep ==
    ASSUME IInv, NEW c \in Conns, pc[c] \in Handling, pc' = [pc EXCEPT ![c] = "reply"],
           UNCHANGED << now, policy, qry, since >>,
           NEW t \in since[c]..now, NEW u \in since[c]..now, t <= u,
           LET o == Promise!Outcome(c, db[qry[c].key], t, u)
           IN  \/ /\ db' = [db EXCEPT ![qry[c].key] = o.store]
                  /\ resp' = [resp EXCEPT ![c] = o.ans]
               \/ /\ WriteFaults
                  /\ o.ans.code = "success"
                  /\ resp' = [resp EXCEPT ![c] = Failed]
                  /\ db' = db
    PROVE  Promise!Perform(c)
<1> DEFINE ph == [d \in Conns |-> Phase(d)]
<1>1. ph[c] = "busy" /\ qry[c].cmd # "getlogs"
  BY DEF Phase, Handling, IInv, ThreadInv, StoreCommands
<1>2. ph' = [ph EXCEPT ![c] = "done"]
  BY PhaseMoves DEF IInv, TypeOK
<1>3. Failed = Promise!Refused
  BY DEF Failed, Promise!Refused, Promise!Answer
<1> HIDE DEF ph
<1> QED BY <1>1, <1>2, <1>3 DEF Promise!Perform, ph

\* What Apply leaves in the store is the new value, and redis does not
\* report an accepted delete as a failure.
LEMMA WrittenIsNew ==
    ASSUME StoresPutm, IInv, WorkInv, FreshRead, NEW c \in Conns, pc[c] = "apply"
    PROVE  /\ valid[c] /\ IsWrite(c)
           /\ Written(c) = new[c]
           /\ ApplySucceeds(c)
<1>1. valid[c] /\ IsWrite(c)
  BY DEF IInv, ThreadInv
<1>2. qry[c].cmd = "delete" => new[c] = None
  <2>1. PICK t \in since[c]..now, u \in since[c]..now : DecidedAt(c, t, u)
    BY DEF WorkInv
  <2> QED BY <1>1, <2>1 DEF DecidedAt, NewValue
<1>3. Written(c) = new[c]
  <2>1. CASE qry[c].cmd = "delete"
    BY <1>2, <2>1 DEF Written
  <2>2. CASE qry[c].cmd # "delete"
    BY <2>2 DEF Written, StoresPutm
  <2> QED BY <2>1, <2>2
<1>4. ApplySucceeds(c)
  <2>1. qry[c].cmd # "put" => res[c] # None
    BY <1>1, SentinelsAssumption DEF IInv, ThreadInv
  <2> QED BY <2>1 DEF FreshRead, ApplySucceeds
<1> QED BY <1>1, <1>3, <1>4

\* Ending the process is a crash of GDPRStore.
LEMMA CrashStep ==
    ASSUME IInv, NEW flushed, Terminate(flushed),
           \/ db' = db
           \/ \E c \in Conns :
                 /\ WriteFaults
                 /\ pc[c] \in Handling
                 /\ \E t, u \in since[c]..now :
                       /\ t <= u
                       /\ db' = [db EXCEPT ![qry[c].key] =
                                    Promise!Outcome(c, db[qry[c].key], t, u).store]
    PROVE  Promise!Crash
<1> DEFINE ph == [d \in Conns |-> Phase(d)]
<1>1. ph' = [d \in Conns |-> "free"]
  BY DEF Terminate, Phase
<1>2. \A c \in Conns : pc[c] \in Handling => ph[c] = "busy" /\ qry[c].cmd # "getlogs"
  BY DEF Phase, Handling, IInv, ThreadInv, StoreCommands
<1>3. /\ now' = now
      /\ policy' = [c \in Conns |-> None]
      /\ qry' = [c \in Conns |-> None]
      /\ since' = [c \in Conns |-> 0]
      /\ resp' = [c \in Conns |-> None]
  BY DEF Terminate
<1> HIDE DEF ph
<1> QED BY <1>1, <1>2, <1>3 DEF Promise!Crash, ph

\* A thread that goes on within its handler is a stuttering step.
LEMMA InsideStep ==
    ASSUME IInv, NEW c \in Conns, pc[c] \notin {"closed", "idle", "reply"},
           NEW s, s \notin {"closed", "idle", "reply"}, pc' = [pc EXCEPT ![c] = s],
           UNCHANGED << now, db, policy, qry, since, resp >>
    PROVE  UNCHANGED Promise!svars
<1> DEFINE ph == [d \in Conns |-> Phase(d)]
<1>1. ph' = ph
  BY DEF Phase, IInv, TypeOK
<1> HIDE DEF ph
<1> QED BY <1>1 DEF Promise!svars, ph

\* Every step of the controller is one of GDPRStore, or none.
LEMMA RefinementStep ==
    ASSUME StoresPutm, ~ReadFaults, IInv, VerdictInv, FreshRead, WorkInv, [Next]_vars
    PROVE  [Promise!Next]_Promise!svars
<1> DEFINE ph == [d \in Conns |-> Phase(d)]
<1>0. /\ pc \in [Conns -> Steps] /\ now \in Nat
      /\ \A d \in Conns : since[d] \in Nat /\ since[d] <= now
  BY DEF IInv, TypeOK, VerdictInv
<1>1. CASE Restart \/ UNCHANGED vars
  <2>1. UNCHANGED << now, db, pc, policy, qry, since, resp >>
    BY <1>1 DEF Restart, vars, shared, locals
  <2> QED BY <2>1 DEF Promise!svars, Phase
<1>2. CASE Tick
  <2>1. Promise!Tick
    BY <1>2 DEF Tick, Promise!Tick, Phase, locals
  <2> QED BY <2>1 DEF Promise!Next
<1>3. ASSUME NEW c \in Conns, Accept(c) \/ Disconnect(c) PROVE Promise!Session(c)
  <2>1. ph' = ph /\ ph[c] = "free"
    BY <1>0, <1>3 DEF Accept, Disconnect, Phase
  <2>2. /\ UNCHANGED << now, db, qry, since, resp >>
        /\ \E p \in Policies[c] \cup {None} : policy' = [policy EXCEPT ![c] = p]
    BY <1>3 DEF Accept, Disconnect, shared, locals
  <2> HIDE DEF ph
  <2> QED BY <2>1, <2>2 DEF Promise!Session, ph
<1>4. ASSUME NEW c \in Conns, Receive(c) PROVE Promise!Ask(c)
  <2>1. PICK q \in Workload[c] :
           /\ q.cmd # "malformed"
           /\ qry' = [qry EXCEPT ![c] = q]
           /\ pc' = [pc EXCEPT ![c] = CASE q.cmd = "unknown" -> "reply"
                                        [] q.cmd = "getlogs" -> "list_logs"
                                        [] OTHER -> "fetch"]
           /\ resp' = IF q.cmd = "unknown"
                      THEN [resp EXCEPT ![c] = [code |-> "invalid_command", view |-> None]]
                      ELSE resp
    BY <1>4 DEF Receive
  <2>2. ph[c] = "free" /\ ph' = [ph EXCEPT ![c] = IF q.cmd = "unknown" THEN "done" ELSE "busy"]
    BY <1>0, <1>4, <2>1 DEF Receive, Phase
  <2>3. UNCHANGED << now, db, policy >> /\ since' = [since EXCEPT ![c] = now]
    BY <1>4 DEF Receive, shared
  <2> HIDE DEF ph
  <2> QED BY <2>1, <2>2, <2>3 DEF Promise!Ask, Promise!Answer, ph
<1>5. ASSUME NEW c \in Conns, Reply(c) PROVE Promise!Return(c)
  <2>1. ph[c] = "done" /\ ph' = [ph EXCEPT ![c] = "free"]
    BY <1>0, <1>5 DEF Reply, Phase
  <2>2. /\ UNCHANGED policy \/ policy' = [policy EXCEPT ![c] = None]
        /\ qry' = [qry EXCEPT ![c] = None]
        /\ since' = [since EXCEPT ![c] = 0]
        /\ resp' = [resp EXCEPT ![c] = None]
        /\ UNCHANGED << now, db >>
    BY <1>5 DEF Reply, EndQuery, shared
  <2> HIDE DEF ph
  <2> QED BY <2>1, <2>2 DEF Promise!Return, ph
<1>6. ASSUME NEW c \in Conns, Fetch(c) PROVE Promise!Perform(c) \/ UNCHANGED Promise!svars
  <2>1. PICK r \in FetchResults(qry[c].key) \ {Undecodable} :
           /\ pc' = [pc EXCEPT ![c] = CASE r = None /\ qry[c].cmd = "put" -> "rewrite"
                                        [] r = None /\ qry[c].cmd = "putm" -> "reply"
                                        [] OTHER -> "validate"]
           /\ resp' = IF r = None /\ qry[c].cmd = "putm"
                      THEN [resp EXCEPT ![c] = Failed] ELSE resp
    BY <1>6 DEF Fetch
  <2>2. pc[c] = "fetch" /\ UNCHANGED << now, db, policy, qry, since >>
    BY <1>6 DEF Fetch, shared
  <2>3. r = db[qry[c].key]
    BY <2>1 DEF FetchResults
  <2>4. CASE r = None /\ qry[c].cmd = "putm"
    <3>1. PICK n \in since[c]..now : n <= n
      BY <1>0
    <3>2. ~Promise!validate(db[qry[c].key], qry[c], policy[c], n)
      BY <2>3, <2>4 DEF Promise!validate
    <3>3. Promise!Outcome(c, db[qry[c].key], n, n) = [store |-> db[qry[c].key], ans |-> Failed]
      BY <2>4, <3>2 DEF Promise!Outcome, Promise!Refused, Promise!Answer, Failed
    <3>4. db' = [db EXCEPT ![qry[c].key] = db[qry[c].key]]
      BY <2>2 DEF IInv, TypeOK
    <3>5. pc' = [pc EXCEPT ![c] = "reply"] /\ resp' = [resp EXCEPT ![c] = Failed]
      BY <2>1, <2>4
    <3>6. /\ db' = [db EXCEPT ![qry[c].key] = Promise!Outcome(c, db[qry[c].key], n, n).store]
          /\ resp' = [resp EXCEPT ![c] = Promise!Outcome(c, db[qry[c].key], n, n).ans]
      BY <3>3, <3>4, <3>5
    <3> QED BY <2>2, <3>1, <3>5, <3>6, PerformStep DEF Handling
  <2>5. CASE ~(r = None /\ qry[c].cmd = "putm")
    <3>1. \E s \in {"rewrite", "validate"} : pc' = [pc EXCEPT ![c] = s]
      BY <2>1, <2>5
    <3> QED BY <2>1, <2>2, <2>5, <3>1, InsideStep
  <2> QED BY <2>4, <2>5
<1>7. ASSUME NEW c \in Conns, Validate(c) \/ Rewrite(c) PROVE UNCHANGED Promise!svars
  <2>1. \E s \in {"rewrite", "monitor"} : pc' = [pc EXCEPT ![c] = s]
    BY <1>7 DEF Validate, Rewrite
  <2>2. /\ pc[c] \in {"validate", "rewrite"}
        /\ UNCHANGED << now, db, policy, qry, since, resp >>
    BY <1>7 DEF Validate, Rewrite, shared
  <2> QED BY <2>1, <2>2, InsideStep
<1>8. ASSUME NEW c \in Conns, Monitor(c) PROVE Promise!Perform(c) \/ UNCHANGED Promise!svars
  <2>1. pc[c] = "monitor" /\ UNCHANGED << now, db, policy, qry, since >>
    BY <1>8 DEF Monitor
  <2>2. CASE valid[c] /\ IsWrite(c)
    <3>1. pc' = [pc EXCEPT ![c] = "apply"] /\ resp' = resp
      BY <1>8, <2>2 DEF Monitor
    <3> QED BY <2>1, <3>1, InsideStep
  <2>3. CASE ~(valid[c] /\ IsWrite(c))
    <3>1. /\ pc' = [pc EXCEPT ![c] = "reply"]
          /\ resp' = [resp EXCEPT ![c] = ReadResponse(c)]
      BY <1>8, <2>3 DEF Monitor
    <3>2. PICK t \in since[c]..now, u \in since[c]..now : DecidedAt(c, t, u)
      BY <2>1 DEF WorkInv
    <3>3. Promise!Outcome(c, db[qry[c].key], t, u) =
             [store |-> db[qry[c].key], ans |-> ReadResponse(c)]
      BY <2>1, <2>3, <3>2, DecidedOutcome
    <3>4. db' = [db EXCEPT ![qry[c].key] = db[qry[c].key]] /\ t <= u
      BY <2>1, <3>2 DEF IInv, TypeOK, DecidedAt
    <3>5. /\ db' = [db EXCEPT ![qry[c].key] = Promise!Outcome(c, db[qry[c].key], t, u).store]
          /\ resp' = [resp EXCEPT ![c] = Promise!Outcome(c, db[qry[c].key], t, u).ans]
      BY <3>1, <3>3, <3>4
    <3> QED BY <2>1, <3>1, <3>4, <3>5, PerformStep DEF Handling
  <2> QED BY <2>2, <2>3
<1>9. ASSUME NEW c \in Conns, pc[c] = "apply"
      PROVE  \E t, u \in since[c]..now :
                /\ t <= u
                /\ Promise!Outcome(c, db[qry[c].key], t, u) =
                      [store |-> Written(c), ans |-> Succeeded]
  <2>1. PICK t \in since[c]..now, u \in since[c]..now : DecidedAt(c, t, u)
    BY <1>9 DEF WorkInv
  <2>2. valid[c] /\ IsWrite(c) /\ Written(c) = new[c]
    BY <1>9, WrittenIsNew
  <2>3. Promise!Outcome(c, db[qry[c].key], t, u) = [store |-> new[c], ans |-> Succeeded]
    BY <1>9, <2>1, <2>2, DecidedOutcome
  <2> QED BY <2>1, <2>2, <2>3 DEF DecidedAt
<1>10. ASSUME NEW c \in Conns, Apply(c) \/ ApplyFails(c) PROVE Promise!Perform(c)
  <2>1. /\ pc[c] = "apply" /\ pc' = [pc EXCEPT ![c] = "reply"]
        /\ UNCHANGED << now, policy, qry, since >>
    BY <1>10 DEF Apply, ApplyFails, shared
  <2>2. PICK t \in since[c]..now, u \in since[c]..now :
           /\ t <= u
           /\ Promise!Outcome(c, db[qry[c].key], t, u) =
                 [store |-> Written(c), ans |-> Succeeded]
    BY <1>9, <2>1
  <2>3. \/ /\ db' = [db EXCEPT ![qry[c].key] = Written(c)]
           /\ resp' = [resp EXCEPT ![c] = Succeeded]
        \/ WriteFaults /\ resp' = [resp EXCEPT ![c] = Failed] /\ db' = db
    BY <1>10, <2>1, WrittenIsNew DEF Apply, ApplyFails, shared
  <2> DEFINE o == Promise!Outcome(c, db[qry[c].key], t, u)
  <2>4. o.store = Written(c) /\ o.ans = Succeeded /\ o.ans.code = "success"
    BY <2>2 DEF Succeeded
  <2>5. \/ /\ db' = [db EXCEPT ![qry[c].key] = o.store]
           /\ resp' = [resp EXCEPT ![c] = o.ans]
        \/ /\ WriteFaults
           /\ o.ans.code = "success"
           /\ resp' = [resp EXCEPT ![c] = Failed]
           /\ db' = db
    BY <2>3, <2>4
  <2> QED BY <2>1, <2>2, <2>5, PerformStep DEF Handling
<1>11. ASSUME NEW c \in Conns, StoreLost(c) PROVE Promise!Crash
  <2>1. \/ db' = db
        \/ pc[c] = "apply" /\ db' = [db EXCEPT ![qry[c].key] = Written(c)]
    BY <1>11 DEF StoreLost
  <2>2. WriteFaults /\ Terminate(durable)
    BY <1>11 DEF StoreLost
  <2>3. CASE db' = db
    BY <2>2, <2>3, CrashStep
  <2>4. CASE pc[c] = "apply" /\ db' = [db EXCEPT ![qry[c].key] = Written(c)]
    <3>1. PICK t \in since[c]..now, u \in since[c]..now :
             /\ t <= u
             /\ Promise!Outcome(c, db[qry[c].key], t, u) =
                   [store |-> Written(c), ans |-> Succeeded]
      BY <1>9, <2>4
    <3>2. db' = [db EXCEPT ![qry[c].key] = Promise!Outcome(c, db[qry[c].key], t, u).store]
      BY <2>4, <3>1
    <3> QED BY <2>2, <2>4, <3>1, <3>2, CrashStep DEF Handling
  <2> QED BY <2>1, <2>3, <2>4
<1>12. ASSUME NEW c \in Conns, AcceptBadPolicy(c) \/ ConnectFails(c) \/ ReceiveMalformed(c)
                               \/ FetchUndecodable(c) \/ ReadLogThrows(c)
       PROVE  Promise!Crash
  <2>1. db' = db /\ \E flushed : Terminate(flushed)
    BY <1>12 DEF AcceptBadPolicy, ConnectFails, ReceiveMalformed, FetchUndecodable,
                 ReadLogThrows
  <2> QED BY <2>1, CrashStep
<1>13. ASSUME NEW c \in Conns, ListLogs(c) \/ ReadLog(c) \/ EndLogs(c)
       PROVE  Promise!PerformLogs(c) \/ UNCHANGED Promise!svars
  <2>1. /\ pc[c] \in {"list_logs", "read_logs"}
        /\ UNCHANGED << now, db, policy, qry, since >>
    BY <1>13 DEF ListLogs, ReadLog, EndLogs, shared
  <2>2. \/ /\ pc' = [pc EXCEPT ![c] = "reply"]
           /\ \E a \in {[code |-> "logs", view |-> None], Failed} :
                 resp' = [resp EXCEPT ![c] = a]
        \/ pc' = [pc EXCEPT ![c] = "read_logs"] /\ resp' = resp
    BY <1>0, <1>13 DEF ListLogs, ReadLog, EndLogs
  <2>3. CASE pc' = [pc EXCEPT ![c] = "read_logs"] /\ resp' = resp
    BY <2>1, <2>3, InsideStep
  <2>4. ASSUME pc' = [pc EXCEPT ![c] = "reply"],
               NEW a \in {[code |-> "logs", view |-> None], Failed},
               resp' = [resp EXCEPT ![c] = a]
        PROVE  Promise!PerformLogs(c)
    <3>1. ph[c] = "busy" /\ qry[c].cmd = "getlogs"
      BY <2>1 DEF Phase, WorkInv
    <3>2. ph' = [ph EXCEPT ![c] = "done"]
      BY <1>0, <2>4, PhaseMoves
    <3>3. a \in {Promise!Answer("logs", None), Promise!Refused}
      BY <2>4 DEF Promise!Answer, Promise!Refused, Failed
    <3> HIDE DEF ph
    <3> QED BY <2>1, <2>4, <3>1, <3>2, <3>3 DEF Promise!PerformLogs, ph
  <2> QED BY <2>2, <2>3, <2>4
<1> QED
  BY <1>1, <1>2, <1>3, <1>4, <1>5, <1>6, <1>7, <1>8, <1>10, <1>11, <1>12, <1>13
     DEF Next, Work, Promise!Next

-----------------------------------------------------------------------------

\* The clock readings of all handlers, for every workload.
LEMMA WorkHolds == Spec => []WorkInv
BY WorkInit, WorkStep, Inductive, VerdictsHold, PTL DEF Spec

(***************************************************************************)
(* Clients that do not share keys, on a store that reads back what was     *)
(* written: whatever the interleaving, refused writes and crashes of the   *)
(* process included, each query has the effect and the answer of a single  *)
(* step taken while it was under way (controller.cpp, all handlers).       *)
(***************************************************************************)
THEOREM StorePromiseKept ==
    ASSUME Partitioned, ~ReadFaults, StoresPutm
    PROVE  Spec => ImplementsStore
<1>1. Init => Promise!Init
  BY DEF Init, Promise!Init, Phase
<1>2. IInv /\ VerdictInv /\ FreshRead /\ WorkInv /\ [Next]_vars
         => [Promise!Next]_Promise!svars
  BY RefinementStep
<1> QED
  BY <1>1, <1>2, Inductive, VerdictsHold, ReadsStayFresh, WorkHolds, PTL
     DEF Spec, ImplementsStore, Promise!Spec

=============================================================================
