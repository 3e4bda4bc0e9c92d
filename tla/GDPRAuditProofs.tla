-------------------------- MODULE GDPRAuditProofs ---------------------------
(***************************************************************************)
(* The history log and the store.  For clients that do not share keys:     *)
(* what happens to a monitored pair is in the log before it is in the      *)
(* store, and while no write fails the end of the log says what the store  *)
(* holds.  For clients that do: verdict, answer, new value and log entry   *)
(* of a query belong to one state of the pair.                             *)
(***************************************************************************)
EXTENDS GDPRIsolationProofs, GDPRSharedKeys

\* Entry e is that of an accepted write.
AcceptedWrite(e) == e.valid /\ e.cmd \in {"put", "putm", "delete"}

\* The last accepted write in the log s wrote the value v.
LastWrote(s, v) ==
    \E i \in DOMAIN s : /\ AcceptedWrite(s[i])
                        /\ s[i].new = v
                        /\ \A j \in DOMAIN s : AcceptedWrite(s[j]) => j <= i

\* A handler that is about to write has logged what it will write.
Logged(c) ==
    pc[c] = "apply" /\ monitor_needed(res[c], qry[c], policy[c])
       => Audited(c, qry[c].key, new[c])

LoggedInv == \A c \in Conns : Logged(c)

\* ... and this entry is still the last accepted write of its pair.
LoggedLast(c) ==
    pc[c] = "apply" /\ monitor_needed(res[c], qry[c], policy[c])
       => LastWrote(audit[qry[c].key], new[c])

\* A monitored pair that no handler is about to write is the last one logged.
Settled(k) ==
    /\ IsPair(db[k]) /\ db[k].meta.log
    /\ \A c \in Conns : ~(pc[c] = "apply" /\ qry[c].key = k)
    => LastWrote(audit[k], db[k])

(***************************************************************************)
(* AuditReflectsStore is not inductive: it says nothing of a pair while a  *)
(* write is under way.  The threads carry it across.                       *)
(***************************************************************************)
TrailInv ==
    /\ \A c \in Conns : LoggedLast(c)
    /\ \A k \in Keys : Settled(k)

\* No query switches the monitoring of an existing pair on.
NoSwitchOn ==
    \A c \in Conns : \A q \in Workload[c] : q.cmd = "putm" => q.log \in {None, FALSE}

-----------------------------------------------------------------------------
(* Logs that grow.                                                         *)

\* An entry that is in a log stays at its place when another is added.
LEMMA AppendKeeps ==
    ASSUME NEW S, NEW s \in Seq(S), NEW e \in S
    PROVE  /\ DOMAIN Append(s, e) = 1..(Len(s) + 1) /\ DOMAIN s = 1..Len(s)
           /\ Len(s) \in Nat
           /\ \A i \in DOMAIN s : i \in DOMAIN Append(s, e) /\ Append(s, e)[i] = s[i]
           /\ Append(s, e)[Len(s) + 1] = e
<1>1. Len(s) \in Nat /\ DOMAIN s = 1..Len(s)
  BY SMT
<1>2. Len(Append(s, e)) = Len(s) + 1 /\ DOMAIN Append(s, e) = 1..(Len(s) + 1)
  BY SMT
<1>3. \A i \in 1..Len(s) : Append(s, e)[i] = s[i]
  BY SMT
<1>4. Append(s, e)[Len(s) + 1] = e
  BY SMT
<1> QED BY <1>1, <1>2, <1>3, <1>4

\* The entry of an accepted write is the last one of its kind.
LEMMA AppendAccepted ==
    ASSUME NEW s \in Seq(Entries), NEW e \in Entries, AcceptedWrite(e)
    PROVE  LastWrote(Append(s, e), e.new)
<1>1. \A j \in DOMAIN Append(s, e) : j <= Len(s) + 1
  BY AppendKeeps
<1>2. Len(s) + 1 \in DOMAIN Append(s, e) /\ Append(s, e)[Len(s) + 1] = e
  BY AppendKeeps
<1> QED BY <1>1, <1>2 DEF LastWrote

\* Any other entry leaves the last accepted write what it was.
LEMMA AppendOther ==
    ASSUME NEW s \in Seq(Entries), NEW e \in Entries, ~AcceptedWrite(e),
           NEW v, LastWrote(s, v)
    PROVE  LastWrote(Append(s, e), v)
<1>1. PICK i \in DOMAIN s : /\ AcceptedWrite(s[i])
                            /\ s[i].new = v
                            /\ \A j \in DOMAIN s : AcceptedWrite(s[j]) => j <= i
  BY DEF LastWrote
<1>2. i \in DOMAIN Append(s, e) /\ Append(s, e)[i] = s[i]
  BY AppendKeeps
<1>3. ASSUME NEW j \in DOMAIN Append(s, e), AcceptedWrite(Append(s, e)[j]) PROVE j <= i
  <2>1. j \in DOMAIN s \/ j = Len(s) + 1
    BY AppendKeeps
  <2>2. j # Len(s) + 1
    BY <1>3, AppendKeeps
  <2>3. j \in DOMAIN s /\ AcceptedWrite(s[j])
    BY <1>3, <2>1, <2>2, AppendKeeps
  <2> QED BY <1>1, <2>3
<1> QED BY <1>1, <1>2, <1>3 DEF LastWrote

\* LastWrote says the same as the maximum in AuditReflectsStore.
LEMMA LastWroteMax ==
    ASSUME NEW s \in Seq(Entries), NEW v, LastWrote(s, v)
    PROVE  LET accepted == {i \in DOMAIN s : /\ s[i].valid
                                             /\ s[i].cmd \in {"put", "putm", "delete"}}
           IN  accepted # {} /\ s[Max(accepted)].new = v
<1> DEFINE accepted == {i \in DOMAIN s : /\ s[i].valid
                                         /\ s[i].cmd \in {"put", "putm", "delete"}}
<1>1. PICK i \in DOMAIN s : /\ AcceptedWrite(s[i])
                            /\ s[i].new = v
                            /\ \A j \in DOMAIN s : AcceptedWrite(s[j]) => j <= i
  BY DEF LastWrote
<1>2. i \in accepted /\ accepted \subseteq Nat
  BY <1>1 DEF AcceptedWrite
<1>3. \A j \in accepted : i >= j
  BY <1>1, <1>2 DEF AcceptedWrite
<1> HIDE DEF accepted
<1>4. Max(accepted) \in accepted /\ \A j \in accepted : Max(accepted) >= j
  BY <1>2, <1>3 DEF Max
<1>5. Max(accepted) = i
  BY <1>2, <1>3, <1>4
<1> QED BY <1>1, <1>2, <1>5 DEF accepted

-----------------------------------------------------------------------------
(* The log before the store.                                               *)

\* An insertion is logged whenever the pair that it creates is monitored.
LEMMA InsertMonitored ==
    ASSUME IInv, WorkInv, NEW c \in Conns, pc[c] = "apply", res[c] = None, new[c].meta.log
    PROVE  monitor_needed(res[c], qry[c], policy[c])
<1>1. valid[c] /\ qry[c].cmd = "put"
  BY SentinelsAssumption DEF IInv, ThreadInv
<1>2. PICK t \in since[c]..now, u \in since[c]..now : DecidedAt(c, t, u)
  BY DEF WorkInv
<1>3. new[c] = rewrite_insert(qry[c], policy[c], u)
  BY <1>1, <1>2 DEF DecidedAt, NewValue
<1>4. rewrite_insert(qry[c], policy[c], u).meta.log = value_or(qry[c].log, policy[c].log)
  BY Zenon DEF rewrite_insert
<1>5. value_or(qry[c].log, policy[c].log)
  BY <1>3, <1>4, Zenon
<1> QED BY <1>1, <1>5 DEF monitor_needed

\* What is written to a pair that exists is logged when the pair says so.
LEMMA UpdateMonitored ==
    ASSUME NEW c \in Conns, res[c] # None, res[c].meta.log
    PROVE  monitor_needed(res[c], qry[c], policy[c])
BY DEF monitor_needed, check_monitoring

\* A handler logs under a key of the store.
LEMMA EntryType ==
    ASSUME IInv, NEW c \in Conns, pc[c] = "monitor"
    PROVE  Entry(c) \in Entries /\ qry[c].key \in Keys
<1>1. /\ qry[c] \in Query /\ qry[c].cmd \in StoreCommands /\ qry[c].key \in Keys
      /\ policy[c] \in DefaultPolicies
  BY QueryFields DEF IInv, ThreadInv, Handling, StoreCommands
<1>2. session_key(qry[c], policy[c]) \in Users /\ qry[c].cmd \in Commands
  BY <1>1, SessionKeyType DEF StoreCommands, Commands
<1> QED BY <1>1, <1>2 DEF Entry, Entries, IInv, TypeOK

\* Every step keeps the entries that threads rely on.
LEMMA LoggedStep == IInv /\ LoggedInv /\ [Next]_vars => LoggedInv'
<1> SUFFICES ASSUME IInv, LoggedInv, [Next]_vars PROVE LoggedInv'
  OBVIOUS
<1> USE DEF IInv
<1> DEFINE Same(d) == /\ pc'[d] = pc[d] /\ qry'[d] = qry[d] /\ policy'[d] = policy[d]
                      /\ res'[d] = res[d] /\ new'[d] = new[d] /\ served'[d] = served[d]
           Grows(k) == \A i \in DOMAIN audit[k] :
                          i \in DOMAIN audit'[k] /\ audit'[k][i] = audit[k][i]
<1>1. ASSUME NEW d \in Conns, Same(d), \A k \in Keys : Grows(k) PROVE Logged(d)'
  <2> SUFFICES ASSUME pc'[d] = "apply", monitor_needed(res'[d], qry'[d], policy'[d])
               PROVE  Audited(d, qry[d].key, new[d])'
    BY DEF Logged
  <2>1. Audited(d, qry[d].key, new[d])
    BY <1>1 DEF LoggedInv, Logged
  <2>2. qry[d].key \in Keys
    BY <1>1, QueryFields DEF ThreadInv, Handling, StoreCommands
  <2> QED BY <1>1, <2>1, <2>2 DEF Audited
<1>2. ASSUME NEW c \in Conns, \A d \in Conns \ {c} : Same(d), \A k \in Keys : Grows(k),
             Logged(c)'
      PROVE  LoggedInv'
  BY <1>1, <1>2 DEF LoggedInv
<1>3. ASSUME NEW flushed, Terminate(flushed) PROVE LoggedInv'
  BY <1>3 DEF Terminate, LoggedInv, Logged
<1>4. CASE Restart \/ Tick \/ UNCHANGED vars
  <2>1. \A d \in Conns : Same(d)
    BY <1>4 DEF Restart, Tick, vars, shared, locals
  <2>2. \A k \in Keys : Grows(k)
    BY <1>4 DEF Restart, Tick, vars, shared, locals
  <2> QED BY <1>1, <2>1, <2>2 DEF LoggedInv
<1>5. ASSUME NEW c \in Conns, Accept(c) \/ Disconnect(c) \/ Receive(c) \/ Reply(c)
                              \/ Fetch(c) \/ Validate(c) \/ Rewrite(c)
                              \/ Apply(c) \/ ApplyFails(c)
                              \/ ListLogs(c) \/ ReadLog(c) \/ EndLogs(c)
      PROVE  LoggedInv'
  <2>1. pc'[c] # "apply"
    BY <1>5 DEF Accept, Disconnect, Receive, Reply, Fetch, Validate, Rewrite, Apply,
                ApplyFails, ListLogs, ReadLog, EndLogs, TypeOK
  <2>2. audit' = audit
    BY <1>5 DEF Accept, Disconnect, Receive, Reply, Fetch, Validate, Rewrite, Apply,
                ApplyFails, ListLogs, ReadLog, EndLogs, shared
  <2>3. \A d \in Conns \ {c} : Same(d)
    BY <1>5 DEF Accept, Disconnect, Receive, Reply, EndQuery, Fetch, Validate, Rewrite,
                Apply, ApplyFails, ListLogs, ReadLog, EndLogs, shared, locals, TypeOK
  <2> QED BY <1>2, <2>1, <2>2, <2>3 DEF Logged
<1>6. ASSUME NEW c \in Conns, Monitor(c) PROVE LoggedInv'
  <2> DEFINE k == qry[c].key
             needed == monitor_needed(res[c], qry[c], policy[c])
  <2>1. /\ pc[c] = "monitor" /\ qry' = qry /\ policy' = policy /\ res' = res /\ new' = new
        /\ served' = served
    BY <1>6 DEF Monitor
  <2>2. k \in Keys /\ audit[k] \in Seq(Entries) /\ Entry(c) \in Entries
    BY <2>1, EntryType DEF TypeOK
  <2>3. audit' = IF needed THEN [audit EXCEPT ![k] = Append(@, Entry(c))] ELSE audit
    BY <1>6 DEF Monitor
  <2>4. \A d \in Conns \ {c} : Same(d)
    BY <1>6 DEF Monitor, TypeOK
  <2>5. ASSUME NEW j \in Keys PROVE Grows(j)
    <3>1. audit'[j] = audit[j] \/ (j = k /\ audit'[j] = Append(audit[k], Entry(c)))
      BY <2>2, <2>3 DEF TypeOK
    <3>2. \A i \in DOMAIN audit[k] : /\ i \in DOMAIN Append(audit[k], Entry(c))
                                     /\ Append(audit[k], Entry(c))[i] = audit[k][i]
      BY <2>2, AppendKeeps
    <3> HIDE DEF k
    <3>3. CASE audit'[j] = audit[j]
      BY <3>3
    <3>4. CASE j = k /\ audit'[j] = Append(audit[k], Entry(c))
      BY <3>2, <3>4
    <3> QED BY <3>1, <3>3, <3>4
  <2>6. Logged(c)'
    <3> SUFFICES ASSUME pc'[c] = "apply", needed
                 PROVE  Audited(c, k, new[c])'
      BY <2>1 DEF Logged
    <3>1. valid[c]
      BY <1>6 DEF Monitor, TypeOK
    <3>2. audit'[k] = Append(audit[k], Entry(c))
      BY <2>2, <2>3 DEF TypeOK
    <3>3. Len(audit[k]) + 1 \in DOMAIN audit'[k] /\ audit'[k][Len(audit[k]) + 1] = Entry(c)
      BY <2>2, <3>2, AppendKeeps
    <3>4. /\ Entry(c).by = c /\ Entry(c).nr = served[c] /\ Entry(c).valid
          /\ Entry(c).new = new[c]
      BY <3>1 DEF Entry
    <3> QED BY <2>1, <3>3, <3>4 DEF Audited
  <2> QED BY <1>2, <2>4, <2>5, <2>6
<1>7. ASSUME NEW c \in Conns,
             AcceptBadPolicy(c) \/ ConnectFails(c) \/ ReceiveMalformed(c)
             \/ FetchUndecodable(c) \/ ReadLogThrows(c) \/ StoreLost(c)
      PROVE  LoggedInv'
  <2>1. \E flushed : Terminate(flushed)
    BY <1>7 DEF AcceptBadPolicy, ConnectFails, ReceiveMalformed, FetchUndecodable,
                ReadLogThrows, StoreLost
  <2> QED BY <1>3, <2>1
<1> QED
  BY <1>4, <1>5, <1>6, <1>7 DEF Next, Work

(***************************************************************************)
(* Clients that do not share keys: when a monitored pair changes, or is    *)
(* created, its log already holds the operation and the value that it      *)
(* writes (monitor_query before the put, in every handler that writes).    *)
(***************************************************************************)
THEOREM ChangesAudited ==
    ASSUME Partitioned, ~ReadFaults, StoresPutm
    PROVE  Spec => MonitoredChangeAudited
<1> DEFINE A == \A k \in Keys :
                   /\ db'[k] # db[k]
                   /\ IF IsPair(db[k]) THEN db[k].meta.log
                                       ELSE IsPair(db'[k]) /\ db'[k].meta.log
                   => \E c \in Conns :
                         pc[c] = "apply" /\ qry[c].key = k /\ Audited(c, k, db'[k])
<1>1. Init => LoggedInv
  BY DEF Init, LoggedInv, Logged
<1>2. Spec => []LoggedInv
  BY <1>1, LoggedStep, Inductive, PTL DEF Spec
<1>3. IInv /\ FreshRead /\ WorkInv /\ LoggedInv /\ [Next]_vars => [A]_vars
  <2> SUFFICES ASSUME IInv, FreshRead, WorkInv, LoggedInv, [Next]_vars,
                      NEW k \in Keys, db'[k] # db[k],
                      IF IsPair(db[k]) THEN db[k].meta.log
                                       ELSE IsPair(db'[k]) /\ db'[k].meta.log
               PROVE  \E c \in Conns :
                         pc[c] = "apply" /\ qry[c].key = k /\ Audited(c, k, db'[k])
    OBVIOUS
  <2>1. PICK c \in Conns : pc[c] = "apply" /\ qry[c].key = k /\ db'[k] = Written(c)
    BY WriterOf
  <2>2. res[c] = db[k] /\ db'[k] = new[c]
    BY <2>1, WrittenIsNew DEF FreshRead
  <2>3. monitor_needed(res[c], qry[c], policy[c])
    <3>1. CASE IsPair(db[k])
      BY <2>2, <3>1, UpdateMonitored DEF IsPair
    <3>2. CASE ~IsPair(db[k])
      <4>1. res[c] # Undecodable
        BY SentinelsAssumption DEF IInv, TypeOK, Optional
      <4>2. res[c] = None /\ new[c].meta.log
        BY <2>2, <3>2, <4>1 DEF IsPair
      <4> QED BY <2>1, <4>2, InsertMonitored
    <3> QED BY <3>1, <3>2
  <2>4. Audited(c, k, new[c])
    BY <2>1, <2>3 DEF LoggedInv, Logged
  <2> QED BY <2>1, <2>2, <2>4
<1> QED
  BY <1>2, <1>3, ReadsStayFresh, WorkHolds, Inductive, PTL DEF Spec, MonitoredChangeAudited

-----------------------------------------------------------------------------
(* The log after the store.                                                *)

\* What is about to become a monitored pair was logged: an update keeps the
\* metadata and no putm switches monitoring on.
LEMMA MonitoredWasLogged ==
    ASSUME NoSwitchOn, IInv, WorkInv, NEW c \in Conns, pc[c] = "apply",
           new[c] # None, new[c].meta.log
    PROVE  monitor_needed(res[c], qry[c], policy[c])
<1>1. /\ valid[c] /\ qry[c] \in Workload[c] /\ qry[c].cmd \in {"put", "putm", "delete"}
      /\ res[c] \in Records \cup {None}
  BY DEF IInv, ThreadInv, IsWrite, Handling, TypeOK, Optional
<1>2. PICK t \in since[c]..now, u \in since[c]..now : DecidedAt(c, t, u)
  BY DEF WorkInv
<1>3. new[c] = NewValue(c, u)
  BY <1>1, <1>2 DEF DecidedAt
<1>4. CASE res[c] = None
  BY <1>4, InsertMonitored
<1>5. CASE res[c] # None /\ qry[c].cmd = "put"
  <2>1. new[c].meta = res[c].meta
    BY <1>3, <1>5 DEF NewValue, rewrite_update
  <2> QED BY <1>5, <2>1, UpdateMonitored, Zenon
<1>6. CASE res[c] # None /\ qry[c].cmd = "putm"
  <2>1. new[c] = rewrite_putm(res[c], qry[c], u)
    BY <1>3, <1>6 DEF NewValue
  <2>2. rewrite_putm(res[c], qry[c], u).meta.log = value_or(qry[c].log, res[c].meta.log)
    BY Zenon DEF rewrite_putm
  <2>3. value_or(qry[c].log, res[c].meta.log)
    BY <2>1, <2>2, Zenon
  <2>4. qry[c].log = None \/ qry[c].log = FALSE
    BY <1>1, <1>6 DEF NoSwitchOn
  <2>5. res[c].meta.log
    BY <2>3, <2>4, Zenon DEF value_or
  <2> QED BY <1>6, <2>5, UpdateMonitored
<1>7. CASE qry[c].cmd = "delete"
  BY <1>3, <1>7 DEF NewValue
<1> QED BY <1>1, <1>4, <1>5, <1>6, <1>7

\* A process that has not ended yet had not ended before.
LEMMA NeverEndedBefore ==
    ASSUME IInv, [Next]_vars, NeverEnded'
    PROVE  /\ NeverEnded /\ ~Restart
           /\ ~\E flushed : Terminate(flushed)
<1>1. ~\E flushed : Terminate(flushed)
  BY DEF NeverEnded, Terminate
<1>2. ~Restart
  <2>1. restarts + 1 # 0
    BY DEF IInv, TypeOK
  <2> QED BY <2>1 DEF NeverEnded, Restart
<1>3. UNCHANGED << up, restarts >>
  BY <1>1, <1>2 DEF Next, Work, Tick, Accept, AcceptBadPolicy, ConnectFails, Disconnect, Receive,
         ReceiveMalformed, Fetch, FetchUndecodable, Validate, Rewrite, Monitor, Apply,
         ApplyFails, StoreLost, ListLogs, ReadLog, ReadLogThrows, EndLogs, Reply, vars
<1> QED BY <1>1, <1>2, <1>3 DEF NeverEnded

\* One step: the log follows the store, or runs ahead by a write under way.
LEMMA TrailStep ==
    ASSUME Partitioned, ~WriteFaults, NoSwitchOn,
           IInv, WorkInv, NeverEnded => TrailInv, [Next]_vars
    PROVE  NeverEnded' => TrailInv'
<1> SUFFICES ASSUME NeverEnded' PROVE TrailInv'
  OBVIOUS
<1> USE DEF IInv
<1>0. /\ TrailInv /\ ~Restart /\ ~\E flushed : Terminate(flushed)
      /\ \A c \in Conns : pc[c] \in Handling => qry[c].key \in Keys
  <2>1. NeverEnded /\ ~Restart /\ ~\E flushed : Terminate(flushed)
    BY NeverEndedBefore
  <2>2. \A c \in Conns : pc[c] \in Handling => qry[c].key \in Keys
    BY QueryFields DEF ThreadInv, Handling, StoreCommands
  <2> QED BY <2>1, <2>2
<1> DEFINE Same(d) == /\ pc'[d] = pc[d] /\ qry'[d] = qry[d] /\ policy'[d] = policy[d]
                      /\ res'[d] = res[d] /\ new'[d] = new[d]
           Busy(k) == \E c \in Conns : pc[c] = "apply" /\ qry[c].key = k
<1>1. ASSUME NEW d \in Conns, Same(d),
             pc[d] = "apply" => audit'[qry[d].key] = audit[qry[d].key]
      PROVE  LoggedLast(d)'
  BY <1>0, <1>1 DEF TrailInv, LoggedLast
<1>2. ASSUME NEW k \in Keys, db'[k] = db[k], audit'[k] = audit[k], Busy(k) => Busy(k)'
      PROVE  Settled(k)'
  <2> SUFFICES ASSUME IsPair(db[k])', db'[k].meta.log, ~Busy(k)'
               PROVE  LastWrote(audit[k], db[k])'
    BY DEF Settled
  <2>1. IsPair(db[k]) /\ db[k].meta.log /\ ~Busy(k)
    BY <1>2 DEF IsPair
  <2>2. LastWrote(audit[k], db[k])
    BY <1>0, <2>1 DEF TrailInv, Settled
  <2> QED BY <1>2, <2>2
<1>3. CASE Tick \/ UNCHANGED vars
  <2>1. db' = db /\ audit' = audit /\ pc' = pc /\ qry' = qry /\ \A d \in Conns : Same(d)
    BY <1>3 DEF Tick, vars, shared, locals
  <2> QED BY <1>1, <1>2, <2>1 DEF TrailInv
<1>4. ASSUME NEW c \in Conns, Accept(c) \/ Disconnect(c) \/ Receive(c) \/ Reply(c)
                              \/ Fetch(c) \/ Validate(c) \/ Rewrite(c)
                              \/ ListLogs(c) \/ ReadLog(c) \/ EndLogs(c)
      PROVE  TrailInv'
  <2>1. pc[c] # "apply" /\ pc'[c] # "apply"
    BY <1>4 DEF Accept, Disconnect, Receive, Reply, Fetch, Validate, Rewrite,
                ListLogs, ReadLog, EndLogs, TypeOK
  <2>2. audit' = audit /\ db' = db
    BY <1>4 DEF Accept, Disconnect, Receive, Reply, Fetch, Validate, Rewrite,
                ListLogs, ReadLog, EndLogs, shared
  <2>3. \A d \in Conns \ {c} : Same(d)
    BY <1>4 DEF Accept, Disconnect, Receive, Reply, EndQuery, Fetch, Validate, Rewrite,
                ListLogs, ReadLog, EndLogs, shared, locals, TypeOK
  <2>4. \A d \in Conns : LoggedLast(d)'
    BY <1>1, <2>1, <2>2, <2>3 DEF LoggedLast
  <2>5. \A k \in Keys : Busy(k) => Busy(k)'
    BY <2>1, <2>3
  <2> QED BY <1>2, <2>2, <2>4, <2>5 DEF TrailInv
<1>5. ASSUME NEW c \in Conns, Monitor(c) PROVE TrailInv'
  <2> DEFINE k == qry[c].key
             needed == monitor_needed(res[c], qry[c], policy[c])
             writes == valid[c] /\ IsWrite(c)
  <2>1. /\ pc[c] = "monitor" /\ db' = db /\ qry' = qry /\ policy' = policy /\ res' = res
        /\ new' = new
        /\ pc' = [pc EXCEPT ![c] = IF writes THEN "apply" ELSE "reply"]
        /\ audit' = IF needed THEN [audit EXCEPT ![k] = Append(@, Entry(c))] ELSE audit
    BY <1>5 DEF Monitor
  <2>2. k \in Keys /\ audit[k] \in Seq(Entries) /\ Entry(c) \in Entries
    BY <2>1, EntryType DEF TypeOK
  <2>3. AcceptedWrite(Entry(c)) <=> writes
    BY DEF AcceptedWrite, Entry, IsWrite
  <2>4. Entry(c).new = new[c]
    BY DEF Entry
  <2>5. \A j \in Keys \ {k} : audit'[j] = audit[j]
    BY <2>1, <2>2 DEF TypeOK
  <2>6. audit'[k] = IF needed THEN Append(audit[k], Entry(c)) ELSE audit[k]
    BY <2>1, <2>2 DEF TypeOK
  <2>7. /\ \A d \in Conns \ {c} : Same(d)
        /\ pc'[c] = IF writes THEN "apply" ELSE "reply"
    BY <2>1 DEF TypeOK
  <2> HIDE DEF k, needed, writes
  <2>8. LoggedLast(c)'
    <3> SUFFICES ASSUME pc'[c] = "apply", needed PROVE LastWrote(audit[k], new[c])'
      BY <2>1 DEF LoggedLast, k, needed
    <3>1. LastWrote(Append(audit[k], Entry(c)), new[c])
      BY <2>2, <2>3, <2>4, <2>7, AppendAccepted
    <3>2. audit'[k] = Append(audit[k], Entry(c)) /\ new'[c] = new[c] /\ k' = k
      BY <2>1, <2>6 DEF k
    <3> QED BY <3>1, <3>2
  <2>9. ASSUME NEW d \in Conns \ {c} PROVE LoggedLast(d)'
    <3>1. pc[d] = "apply" => qry[d].key \in Keys \ {k}
      BY <1>0, <2>1, <2>9, HandlersApart DEF Handling, k
    <3> QED BY <1>1, <2>5, <2>7, <3>1
  <2>10. ASSUME NEW j \in Keys PROVE Settled(j)'
    <3>1. Busy(j) => Busy(j)'
      BY <2>1, <2>7
    <3>2. CASE j # k
      BY <1>2, <2>1, <2>5, <3>1, <3>2
    <3>3. CASE j = k /\ ~needed
      BY <1>2, <2>1, <2>6, <3>1, <3>3
    <3>4. CASE j = k /\ writes
      <4>1. Busy(j)'
        BY <2>1, <2>7, <3>4 DEF k
      <4> QED BY <4>1 DEF Settled
    <3>5. CASE j = k /\ needed /\ ~writes
      <4> SUFFICES ASSUME IsPair(db[j])', db'[j].meta.log, ~Busy(j)'
                   PROVE  LastWrote(audit[j], db[j])'
        BY DEF Settled
      <4>1. IsPair(db[j]) /\ db[j].meta.log /\ ~Busy(j)
        BY <2>1, <3>1 DEF IsPair
      <4>2. LastWrote(audit[j], db[j])
        BY <1>0, <4>1 DEF TrailInv, Settled
      <4>3. LastWrote(Append(audit[k], Entry(c)), db[j])
        BY <2>2, <2>3, <3>5, <4>2, AppendOther
      <4>4. audit'[j] = Append(audit[k], Entry(c)) /\ db'[j] = db[j]
        BY <2>1, <2>6, <3>5
      <4> QED BY <4>3, <4>4
    <3> QED BY <3>2, <3>3, <3>4, <3>5
  <2> QED BY <2>8, <2>9, <2>10 DEF TrailInv
<1>6. ASSUME NEW c \in Conns, Apply(c) PROVE TrailInv'
  <2> DEFINE k == qry[c].key
  <2>1. /\ pc[c] = "apply" /\ audit' = audit /\ qry' = qry /\ policy' = policy /\ res' = res
        /\ new' = new
        /\ pc' = [pc EXCEPT ![c] = "reply"]
        /\ db' = [db EXCEPT ![k] = Written(c)]
    BY <1>6 DEF Apply
  <2>2. k \in Keys
    BY <1>0, <2>1 DEF Handling
  <2>3. /\ db'[k] = Written(c) /\ \A j \in Keys \ {k} : db'[j] = db[j]
        /\ pc'[c] = "reply" /\ \A d \in Conns \ {c} : Same(d)
    BY <2>1, <2>2 DEF TypeOK
  <2>4. \A d \in Conns : LoggedLast(d)'
    BY <1>1, <2>1, <2>3 DEF LoggedLast
  <2>5. ASSUME NEW j \in Keys \ {k} PROVE Settled(j)'
    <3>1. Busy(j) => Busy(j)'
      BY <2>1, <2>3
    <3> QED BY <1>2, <2>1, <2>3, <3>1
  <2>6. ASSUME NEW j \in Keys, j = k PROVE Settled(j)'
    <3> SUFFICES ASSUME IsPair(Written(c)), Written(c).meta.log
                 PROVE  LastWrote(audit[k], Written(c))
      BY <2>1, <2>3, <2>6 DEF Settled, IsPair
    <3>0. Written(c) = new[c]
      BY DEF Written, IsPair
    <3>1. monitor_needed(res[c], qry[c], policy[c])
      BY <2>1, <3>0, MonitoredWasLogged DEF IsPair
    <3> QED BY <1>0, <2>1, <3>0, <3>1 DEF TrailInv, LoggedLast
  <2>7. \A j \in Keys : Settled(j)'
    BY <2>5, <2>6
  <2> QED BY <2>4, <2>7 DEF TrailInv
<1>7. \A c \in Conns : ~ApplyFails(c) /\ ~StoreLost(c) /\ ~ConnectFails(c)
  BY DEF ApplyFails, StoreLost, ConnectFails
<1>8. \A c \in Conns : /\ ~AcceptBadPolicy(c) /\ ~ReceiveMalformed(c)
                       /\ ~FetchUndecodable(c) /\ ~ReadLogThrows(c)
  BY <1>0 DEF AcceptBadPolicy, ReceiveMalformed, FetchUndecodable, ReadLogThrows
<1> QED
  BY <1>0, <1>3, <1>4, <1>5, <1>6, <1>7, <1>8 DEF Next, Work

(***************************************************************************)
(* Clients that do not share keys, on a store that takes every write, none *)
(* of whom switches the monitoring of an existing pair on: as long as the  *)
(* process has not ended, the last accepted write in the log of a          *)
(* monitored pair is the one that made what the store holds, also when     *)
(* reads fail or a putm is spoilt on its way (handle_put, handle_delete    *)
(* and handle_put_metadata log before they write).                         *)
(***************************************************************************)
THEOREM AuditTrailHolds ==
    ASSUME Partitioned, ~WriteFaults, NoSwitchOn
    PROVE  Spec => []AuditReflectsStore
<1>1. Init => (NeverEnded => TrailInv)
  BY DEF Init, TrailInv, LoggedLast, Settled, IsPair
<1>2. IInv /\ WorkInv /\ (NeverEnded => TrailInv) /\ [Next]_vars
         => (NeverEnded => TrailInv)'
  BY TrailStep
<1>3. IInv /\ (NeverEnded => TrailInv) => AuditReflectsStore
  <2> SUFFICES ASSUME IInv, TrailInv, NeverEnded, NEW k \in Keys,
                      IsPair(db[k]), db[k].meta.log,
                      \A c \in Conns : ~(pc[c] = "apply" /\ qry[c].key = k)
               PROVE  LET accepted == {i \in DOMAIN audit[k] :
                                          /\ audit[k][i].valid
                                          /\ audit[k][i].cmd \in {"put", "putm", "delete"}}
                      IN  accepted # {} /\ audit[k][Max(accepted)].new = db[k]
    BY DEF AuditReflectsStore
  <2>1. LastWrote(audit[k], db[k])
    BY DEF TrailInv, Settled
  <2> QED BY <2>1, LastWroteMax DEF IInv, TypeOK
<1> QED
  BY <1>1, <1>2, <1>3, WorkHolds, Inductive, PTL DEF Spec

-----------------------------------------------------------------------------
(***************************************************************************)
(* Clients that share keys (GDPRSharedKeys), and writes that land after    *)
(* their process has ended.  Without FreshRead, what remains is that each  *)
(* handler works on one state of its pair.                                 *)
(***************************************************************************)

Reading == {"validate", "rewrite", "monitor", "apply"}

\* What the store holds under the key of a handler is among what it held,
\* and so is what the handler has read.
HeldInv ==
    \A c \in Conns :
       /\ pc[c] \in Handling => db[qry[c].key] \in held[c]
       /\ pc[c] \in Reading => res[c] \in held[c]

\* A write that its process left behind was decided on one pair.
LateWrite(w) ==
    /\ w.key \in Keys
    /\ w.val \in Records \cup {None, Undecodable}
    /\ \E r \in w.held : \E t, u \in w.since..w.upto :
          /\ t <= u
          /\ Passes(w, r, t)
          /\ Arrives(w, Makes(w, r, u), w.val)

LateInv == \A w \in late : LateWrite(w)

ThreadsInv == IInv /\ VerdictInv /\ WorkInv /\ LoggedInv

SharedInv == ThreadsInv /\ HeldInv /\ LateInv /\ AnswerDecided

\* A write that lands is no step of a thread.
LEMMA LandKeepsThreads ==
    ASSUME ThreadsInv, LateInv, Land
    PROVE  ThreadsInv'
<1> USE DEF ThreadsInv
<1>1. PICK w \in late : db' = [db EXCEPT ![w.key] = w.val]
  BY DEF Land
<1>2. UNCHANGED << up, restarts, now, audit, durable, pc, policy, served, locals >>
  BY DEF Land
<1>3. w.val \in Records \cup {None, Undecodable}
  BY DEF LateInv, LateWrite
<1>4. db' \in [Keys -> Records \cup {None, Undecodable}]
  BY <1>1, <1>3 DEF IInv, TypeOK
<1>5. TypeOK'
  BY <1>2, <1>4 DEF IInv, TypeOK, locals
<1>6. ThreadInv'
  BY <1>2 DEF IInv, ThreadInv, IsWrite, locals
<1>7. VerdictInv'
  BY <1>2 DEF VerdictInv, locals
<1>8. WorkInv'
  BY <1>2 DEF WorkInv, DecidedAt, Accepts, NewValue, locals
<1>9. LoggedInv'
  BY <1>2 DEF LoggedInv, Logged, Audited, locals
<1> QED BY <1>5, <1>6, <1>7, <1>8, <1>9 DEF IInv

\* Nor are other steps disturbed by the two variables that were added.
LEMMA ThreadsStep ==
    ASSUME ThreadsInv, LateInv, [HNext]_hvars
    PROVE  ThreadsInv' /\ ([Next]_vars \/ Land)
<1>1. [Next]_vars \/ Land
  BY DEF HNext, hvars
<1>2. CASE [Next]_vars
  BY <1>2, NextType, VerdictStep, WorkStep, LoggedStep DEF ThreadsInv
<1> QED BY <1>1, <1>2, LandKeepsThreads

\* The write of a handler was decided on the pair that the handler read.
LEMMA WriteDecided ==
    ASSUME ThreadsInv, HeldInv, NEW c \in Conns, pc[c] = "apply",
           NEW t \in since[c]..now, NEW u \in since[c]..now, DecidedAt(c, t, u)
    PROVE  /\ t <= u
           /\ Passes(Write(c), res[c], t)
           /\ new[c] = Makes(Write(c), res[c], u)
           /\ Arrives(Write(c), new[c], Written(c))
<1> USE DEF ThreadsInv
<1>1. valid[c] /\ qry[c].cmd \in {"put", "putm", "delete"}
  BY DEF IInv, ThreadInv, IsWrite
<1>2. res[c] \in Records \cup {None} /\ Undecodable \notin Records \cup {None}
  BY SentinelsAssumption DEF IInv, TypeOK, Optional
<1>3. Accepts(c, t) /\ new[c] = NewValue(c, u) /\ t <= u
  BY <1>1 DEF DecidedAt
<1>4. Write(c).qry = qry[c] /\ Write(c).policy = policy[c]
  BY DEF Write
<1>5. Passes(Write(c), res[c], t)
  BY <1>2, <1>3, <1>4 DEF Accepts, Passes, IsPair, validate
<1>6. new[c] = Makes(Write(c), res[c], u)
  BY <1>3, <1>4 DEF NewValue, Makes
<1>7. Arrives(Write(c), new[c], Written(c))
  <2>1. qry[c].cmd = "delete" => new[c] = None
    BY <1>3 DEF NewValue
  <2> QED BY <1>4, <2>1 DEF Arrives, Written
<1> QED BY <1>3, <1>5, <1>6, <1>7

\* So is the one that its process leaves behind.
LEMMA WriteIsLate ==
    ASSUME ThreadsInv, HeldInv, NEW c \in Conns, pc[c] = "apply"
    PROVE  LateWrite(Write(c))
<1>1. PICK t \in since[c]..now, u \in since[c]..now : DecidedAt(c, t, u)
  BY DEF ThreadsInv, WorkInv
<1>2. /\ Write(c).key = qry[c].key /\ Write(c).val = Written(c)
      /\ Write(c).held = held[c] /\ Write(c).since = since[c] /\ Write(c).upto = now
  BY DEF Write
<1>3. qry[c].key \in Keys
  BY QueryFields DEF ThreadsInv, IInv, ThreadInv, Handling, StoreCommands
<1>4. Written(c) \in Records \cup {None, Undecodable}
  BY DEF ThreadsInv, IInv, ThreadInv, IsWrite, Written
<1>5. res[c] \in held[c]
  BY DEF HeldInv, Reading
<1>6. /\ t <= u
      /\ Passes(Write(c), res[c], t)
      /\ Arrives(Write(c), Makes(Write(c), res[c], u), Written(c))
  BY <1>1, WriteDecided
<1>7. \E r \in Write(c).held : \E s, v \in Write(c).since..Write(c).upto :
         /\ s <= v
         /\ Passes(Write(c), r, s)
         /\ Arrives(Write(c), Makes(Write(c), r, v), Write(c).val)
  BY <1>2, <1>5, <1>6
<1> QED BY <1>2, <1>3, <1>4, <1>7 DEF LateWrite

LEMMA LateStep ==
    ASSUME ThreadsInv, HeldInv, LateInv, [HNext]_hvars
    PROVE  LateInv'
<1>1. CASE Leave
  <2>1. \/ late' = late
        \/ \E sent \in SUBSET Writing : late' = late \cup {Write(c) : c \in sent}
    BY <1>1 DEF Leave
  <2>2. \A c \in Writing : LateWrite(Write(c))
    BY WriteIsLate DEF Writing
  <2>3. \A w \in late' : LateWrite(w)
    BY <2>1, <2>2 DEF LateInv
  <2> QED BY <2>3 DEF LateInv, LateWrite
<1>2. CASE Land
  BY <1>2 DEF Land, LateInv, LateWrite
<1>3. CASE UNCHANGED hvars
  BY <1>3 DEF hvars, LateInv, LateWrite
<1> QED BY <1>1, <1>2, <1>3 DEF HNext

-----------------------------------------------------------------------------

\* A handler reads once, what the store holds then.
LEMMA ReadOnce ==
    ASSUME ~ReadFaults, IInv, [Next]_vars, NEW c \in Conns, pc'[c] \in Reading
    PROVE  \/ pc[c] \in Reading /\ res'[c] = res[c]
           \/ pc[c] = "fetch" /\ res'[c] = db[qry[c].key]
<1> USE DEF IInv, Reading
<1>1. ASSUME NEW flushed, Terminate(flushed) PROVE FALSE
  BY <1>1 DEF Terminate
<1>2. CASE Restart \/ Tick \/ UNCHANGED vars
  BY <1>2 DEF Restart, Tick, vars, shared, locals
<1>3. ASSUME NEW d \in Conns, Accept(d) \/ Disconnect(d) \/ Receive(d) \/ Reply(d)
                              \/ ListLogs(d) \/ ReadLog(d) \/ EndLogs(d)
                              \/ Apply(d) \/ ApplyFails(d)
      PROVE  pc[c] \in Reading /\ res'[c] = res[c]
  BY <1>3 DEF Accept, Disconnect, Receive, Reply, EndQuery, ListLogs, ReadLog, EndLogs,
              Apply, ApplyFails, shared, locals, TypeOK
<1>4. ASSUME NEW d \in Conns, Validate(d) \/ Rewrite(d) \/ Monitor(d)
      PROVE  pc[c] \in Reading /\ res'[c] = res[c]
  BY <1>4 DEF Validate, Rewrite, Monitor, TypeOK
<1>5. ASSUME NEW d \in Conns, Fetch(d)
      PROVE  \/ pc[c] \in Reading /\ res'[c] = res[c]
             \/ pc[c] = "fetch" /\ res'[c] = db[qry[c].key]
  BY <1>5 DEF Fetch, FetchResults, TypeOK
<1>6. ASSUME NEW d \in Conns,
             AcceptBadPolicy(d) \/ ConnectFails(d) \/ ReceiveMalformed(d)
             \/ FetchUndecodable(d) \/ ReadLogThrows(d) \/ StoreLost(d)
      PROVE  FALSE
  <2>1. \E flushed : Terminate(flushed)
    BY <1>6 DEF AcceptBadPolicy, ConnectFails, ReceiveMalformed, FetchUndecodable,
                ReadLogThrows, StoreLost
  <2> QED BY <1>1, <2>1
<1> QED BY <1>2, <1>3, <1>4, <1>5, <1>6 DEF Next, Work

\* Track keeps what was there and adds what is there now.
LEMMA Tracked ==
    ASSUME Track, NEW c \in Conns, qry'[c] # None
    PROVE  /\ held[c] \subseteq held'[c]
           /\ qry'[c].key \in Keys => db'[qry'[c].key] \in held'[c]
BY DEF Track

LEMMA HeldStep ==
    ASSUME ~ReadFaults, ThreadsInv, ThreadsInv', HeldInv, [HNext]_hvars
    PROVE  HeldInv'
<1>1. CASE UNCHANGED hvars
  BY <1>1 DEF hvars, vars, shared, locals, HeldInv
<1>2. CASE HNext
  <2>1. Track /\ ([Next]_vars \/ Land)
    BY <1>2 DEF HNext, Land
  <2>2. ASSUME NEW c \in Conns, pc'[c] \in Handling
        PROVE  qry'[c] # None /\ qry'[c].key \in Keys
    <3>1. qry'[c] \in Workload[c] /\ qry'[c].cmd \in StoreCommands
      BY <2>2 DEF ThreadsInv, IInv, ThreadInv, Handling
    <3> QED BY <3>1, QueryFields DEF StoreCommands
  <2>3. ASSUME NEW c \in Conns, pc'[c] \in Handling PROVE db'[qry'[c].key] \in held'[c]
    BY <2>1, <2>2, <2>3, Tracked
  <2>4. ASSUME NEW c \in Conns, pc'[c] \in Reading PROVE res'[c] \in held'[c]
    <3>1. held[c] \subseteq held'[c]
      BY <2>1, <2>2, <2>4, Tracked DEF Reading, Handling
    <3>2. \/ pc[c] \in Reading /\ res'[c] = res[c]
          \/ pc[c] = "fetch" /\ res'[c] = db[qry[c].key]
      <4>1. CASE [Next]_vars
        BY <2>4, <4>1, ReadOnce DEF ThreadsInv
      <4>2. CASE Land
        BY <2>4, <4>2 DEF Land, locals
      <4> QED BY <2>1, <4>1, <4>2
    <3>3. res'[c] \in held[c]
      BY <3>2 DEF HeldInv, Handling
    <3> QED BY <3>1, <3>3
  <2> QED BY <2>3, <2>4 DEF HeldInv
<1> QED BY <1>1, <1>2

-----------------------------------------------------------------------------

\* A pair is shown by the step that decided on it.
LEMMA ShownOnce ==
    ASSUME IInv, [Next]_vars, NEW c \in Conns, pc'[c] = "reply", resp'[c].code = "value"
    PROVE  /\ qry'[c] = qry[c] /\ policy'[c] = policy[c] /\ since'[c] = since[c]
           /\ now' = now \/ now' = now + 1
           /\ \/ pc[c] = "reply" /\ resp'[c] = resp[c]
              \/ pc[c] = "monitor" /\ resp'[c] = ReadResponse(c)
<1> USE DEF IInv
<1> DEFINE Kept(d) == /\ qry'[d] = qry[d] /\ policy'[d] = policy[d] /\ since'[d] = since[d]
                      /\ pc'[d] = pc[d] /\ resp'[d] = resp[d]
<1>1. ASSUME NEW flushed, Terminate(flushed) PROVE FALSE
  BY <1>1 DEF Terminate
<1>2. CASE Restart \/ Tick \/ UNCHANGED vars
  BY <1>2 DEF Restart, Tick, vars, shared, locals
<1>3. ASSUME NEW d \in Conns, Accept(d) \/ Disconnect(d) \/ Receive(d) \/ Reply(d)
                              \/ Fetch(d) \/ Validate(d) \/ Rewrite(d)
                              \/ ListLogs(d) \/ ReadLog(d) \/ EndLogs(d)
                              \/ Apply(d) \/ ApplyFails(d)
      PROVE  Kept(c) /\ now' = now
  <2>1. now' = now /\ (d # c => Kept(c))
    BY <1>3 DEF Accept, Disconnect, Receive, Reply, EndQuery, Fetch, Validate, Rewrite,
                ListLogs, ReadLog, EndLogs, Apply, ApplyFails, shared, locals, TypeOK
  <2>2. CASE d = c
    <3>1. ~(Accept(c) \/ Disconnect(c) \/ Reply(c) \/ Validate(c) \/ Rewrite(c) \/ ReadLog(c))
      BY DEF Accept, Disconnect, Reply, Validate, Rewrite, ReadLog, TypeOK
    <3>2. ~(Fetch(c) \/ ListLogs(c) \/ EndLogs(c) \/ Apply(c) \/ ApplyFails(c) \/ Receive(c))
      BY DEF Fetch, ListLogs, EndLogs, Apply, ApplyFails, Receive, Failed, Succeeded, TypeOK
    <3> QED BY <1>3, <2>2, <3>1, <3>2
  <2> QED BY <2>1, <2>2
<1>4. ASSUME NEW d \in Conns, Monitor(d)
      PROVE  /\ qry' = qry /\ policy' = policy /\ since' = since /\ now' = now
             /\ \/ pc[c] = "reply" /\ resp'[c] = resp[c]
                \/ pc[c] = "monitor" /\ resp'[c] = ReadResponse(c)
  BY <1>4 DEF Monitor, TypeOK
<1>5. ASSUME NEW d \in Conns,
             AcceptBadPolicy(d) \/ ConnectFails(d) \/ ReceiveMalformed(d)
             \/ FetchUndecodable(d) \/ ReadLogThrows(d) \/ StoreLost(d)
      PROVE  FALSE
  <2>1. \E flushed : Terminate(flushed)
    BY <1>5 DEF AcceptBadPolicy, ConnectFails, ReceiveMalformed, FetchUndecodable,
                ReadLogThrows, StoreLost
  <2> QED BY <1>1, <2>1
<1> QED BY <1>2, <1>3, <1>4, <1>5 DEF Next, Work

\* What a handler shows is the pair that it read, which let it pass.
LEMMA ShownPasses ==
    ASSUME ThreadsInv, NEW c \in Conns, pc[c] = "monitor", ReadResponse(c).code = "value"
    PROVE  /\ IsPair(res[c])
           /\ \E t \in since[c]..now : validate(res[c], qry[c], policy[c], t)
           /\ ReadResponse(c).view = IF qry[c].cmd = "get" THEN remove_gdpr_metadata(res[c])
                                     ELSE preserve_only_gdpr_metadata(res[c])
<1>1. valid[c] /\ qry[c].cmd \in {"get", "getm"}
  BY DEF ReadResponse, Failed
<1>2. PICK t \in since[c]..now, u \in since[c]..now : DecidedAt(c, t, u)
  BY DEF ThreadsInv, WorkInv
<1>3. validate(res[c], qry[c], policy[c], t)
  BY <1>1, <1>2 DEF DecidedAt, Accepts
<1>4. IsPair(res[c])
  BY <1>3, SentinelsAssumption DEF validate, IsPair, ThreadsInv, IInv, TypeOK, Optional
<1>5. ReadResponse(c).view = IF qry[c].cmd = "get" THEN remove_gdpr_metadata(res[c])
                             ELSE preserve_only_gdpr_metadata(res[c])
  BY <1>1 DEF ReadResponse
<1> QED BY <1>3, <1>4, <1>5

LEMMA AnswerStep ==
    ASSUME ThreadsInv, ThreadsInv', HeldInv, AnswerDecided, [HNext]_hvars
    PROVE  AnswerDecided'
<1> DEFINE Shows(c, r, t) ==
              /\ IsPair(r)
              /\ validate(r, qry[c], policy[c], t)
              /\ resp[c].view = IF qry[c].cmd = "get" THEN remove_gdpr_metadata(r)
                                ELSE preserve_only_gdpr_metadata(r)
           Answered(c) == \E r \in held[c] : \E t \in since[c]..now : Shows(c, r, t)
<1>1. CASE UNCHANGED hvars
  BY <1>1 DEF hvars, vars, shared, locals, AnswerDecided
<1>2. ASSUME NEW c \in Conns, HNext, pc'[c] = "reply", resp'[c].code = "value"
      PROVE  Answered(c)'
  <2>1. Track /\ ([Next]_vars \/ Land)
    BY <1>2 DEF HNext, Land
  <2>2. qry'[c] # None
    BY <1>2, QueryFields DEF ThreadsInv, IInv, ThreadInv
  <2>3. held[c] \subseteq held'[c]
    BY <2>1, <2>2, Tracked
  <2>4. /\ qry'[c] = qry[c] /\ policy'[c] = policy[c] /\ since'[c] = since[c]
        /\ now' = now \/ now' = now + 1
        /\ \/ pc[c] = "reply" /\ resp'[c] = resp[c]
           \/ pc[c] = "monitor" /\ resp'[c] = ReadResponse(c)
    <3>1. CASE [Next]_vars
      BY <1>2, <3>1, ShownOnce DEF ThreadsInv
    <3>2. CASE Land
      BY <1>2, <3>2 DEF Land, locals
    <3> QED BY <2>1, <3>1, <3>2
  <2>5. \E r \in held[c] : \E t \in since[c]..now :
           /\ IsPair(r)
           /\ validate(r, qry[c], policy[c], t)
           /\ resp'[c].view = IF qry[c].cmd = "get" THEN remove_gdpr_metadata(r)
                              ELSE preserve_only_gdpr_metadata(r)
    <3>1. CASE pc[c] = "reply" /\ resp'[c] = resp[c]
      BY <1>2, <3>1 DEF AnswerDecided
    <3>2. CASE pc[c] = "monitor" /\ resp'[c] = ReadResponse(c)
      <4>1. res[c] \in held[c]
        BY <3>2 DEF HeldInv, Reading
      <4> QED BY <1>2, <3>2, <4>1, ShownPasses
    <3> QED BY <2>4, <3>1, <3>2
  <2>6. PICK r \in held[c], t \in since[c]..now :
           /\ IsPair(r)
           /\ validate(r, qry[c], policy[c], t)
           /\ resp'[c].view = IF qry[c].cmd = "get" THEN remove_gdpr_metadata(r)
                              ELSE preserve_only_gdpr_metadata(r)
    BY <2>5
  <2>7. t \in since'[c]..now'
    BY <2>4, <2>6 DEF ThreadsInv, IInv, TypeOK
  <2>8. Shows(c, r, t)'
    BY <2>4, <2>6 DEF IsPair
  <2> QED BY <2>3, <2>7, <2>8
<1>3. CASE HNext
  BY <1>2, <1>3 DEF AnswerDecided
<1> QED BY <1>1, <1>3

-----------------------------------------------------------------------------

\* Everything that is known of the handlers, when reads do not fail.
LEMMA SharedHolds ==
    ASSUME ~ReadFaults
    PROVE  HSpec => []SharedInv
<1>1. HInit => SharedInv
  <2> SUFFICES ASSUME HInit PROVE SharedInv
    OBVIOUS
  <2>1. IInv
    BY InitType DEF HInit
  <2>2. WorkInv
    BY WorkInit DEF HInit
  <2>3. VerdictInv /\ LoggedInv
    BY DEF HInit, Init, VerdictInv, LoggedInv, Logged
  <2>4. HeldInv /\ LateInv /\ AnswerDecided
    BY DEF HInit, Init, HeldInv, Handling, Reading, LateInv, AnswerDecided
  <2> QED BY <2>1, <2>2, <2>3, <2>4 DEF SharedInv, ThreadsInv
<1>2. SharedInv /\ [HNext]_hvars => SharedInv'
  <2> SUFFICES ASSUME SharedInv, [HNext]_hvars PROVE SharedInv'
    OBVIOUS
  <2> USE DEF SharedInv
  <2>1. ThreadsInv'
    BY ThreadsStep
  <2> QED BY <2>1, HeldStep, LateStep, AnswerStep
<1> QED BY <1>1, <1>2, PTL DEF HSpec

(***************************************************************************)
(* For any number of clients, also when they share keys, with crashes and  *)
(* writes that land later: every change of the store was decided, made and *)
(* logged on one state of the pair.  No lock is needed for that; that it   *)
(* is the LAST state is what the controller does not guarantee.            *)
(***************************************************************************)
THEOREM EffectsDecided ==
    ASSUME ~ReadFaults
    PROVE  HSpec => EffectDecided
<1> DEFINE A == \A k \in Keys : db'[k] # db[k] =>
                   \/ \E c \in Writing :
                         /\ qry[c].key = k
                         /\ Arrives(Write(c), new[c], db'[k])
                         /\ \E r \in held[c] :
                               /\ DecidedOn(Write(c), r, new[c])
                               /\ monitor_needed(r, qry[c], policy[c])
                                     => Audited(c, k, new[c])
                   \/ \E w \in late :
                         /\ w.key = k
                         /\ db'[k] = w.val
                         /\ \E r \in w.held : \E t, u \in w.since..w.upto :
                               /\ t <= u
                               /\ Passes(w, r, t)
                               /\ Arrives(w, Makes(w, r, u), w.val)
<1>1. SharedInv /\ [HNext]_hvars => [A]_hvars
  <2> SUFFICES ASSUME SharedInv, HNext, NEW k \in Keys, db'[k] # db[k]
               PROVE  \/ \E c \in Writing :
                            /\ qry[c].key = k
                            /\ Arrives(Write(c), new[c], db'[k])
                            /\ \E r \in held[c] :
                                  /\ DecidedOn(Write(c), r, new[c])
                                  /\ monitor_needed(r, qry[c], policy[c])
                                        => Audited(c, k, new[c])
                      \/ \E w \in late :
                            /\ w.key = k
                            /\ db'[k] = w.val
                            /\ \E r \in w.held : \E t, u \in w.since..w.upto :
                                  /\ t <= u
                                  /\ Passes(w, r, t)
                                  /\ Arrives(w, Makes(w, r, u), w.val)
    OBVIOUS
  <2> USE DEF SharedInv
  <2>1. CASE Next
    <3>1. PICK c \in Conns : pc[c] = "apply" /\ qry[c].key = k /\ db'[k] = Written(c)
      BY <2>1, WriterOf DEF ThreadsInv
    <3>2. PICK t \in since[c]..now, u \in since[c]..now : DecidedAt(c, t, u)
      BY <3>1 DEF ThreadsInv, WorkInv
    <3>3. /\ t <= u
          /\ Passes(Write(c), res[c], t)
          /\ new[c] = Makes(Write(c), res[c], u)
          /\ Arrives(Write(c), new[c], db'[k])
      BY <3>1, <3>2, WriteDecided
    <3>4. Write(c).since = since[c] /\ Write(c).upto = now
      BY DEF Write
    <3>5. DecidedOn(Write(c), res[c], new[c])
      BY <3>2, <3>3, <3>4 DEF DecidedOn
    <3>6. res[c] \in held[c]
      BY <3>1 DEF HeldInv, Reading
    <3>7. monitor_needed(res[c], qry[c], policy[c]) => Audited(c, k, new[c])
      BY <3>1 DEF ThreadsInv, LoggedInv, Logged
    <3> QED BY <3>1, <3>3, <3>5, <3>6, <3>7 DEF Writing
  <2>2. CASE Land
    <3>1. PICK w \in late : db' = [db EXCEPT ![w.key] = w.val]
      BY <2>2 DEF Land
    <3>2. w.key = k /\ db'[k] = w.val
      BY <3>1 DEF ThreadsInv, IInv, TypeOK
    <3> QED BY <3>2 DEF LateInv, LateWrite
  <2> QED BY <2>1, <2>2 DEF HNext
<1> QED
  BY <1>1, SharedHolds, PTL DEF HSpec, EffectDecided

(***************************************************************************)
(* For any number of clients, also when they share keys: a client is shown *)
(* only what the pair allowed at one time while its query was under way.   *)
(***************************************************************************)
THEOREM AnswersDecided ==
    ASSUME ~ReadFaults
    PROVE  HSpec => []AnswerDecided
<1>1. SharedInv => AnswerDecided
  BY DEF SharedInv
<1> QED
  BY <1>1, SharedHolds, PTL

=============================================================================
