------------------------ MODULE GDPRControllerProofs ------------------------
(***************************************************************************)
(* Theorems about GDPRController, for any set of connections, keys,        *)
(* policies and queries, and for any bounds.                               *)
(***************************************************************************)
EXTENDS GDPRController, SequenceTheorems, TLAPS

-----------------------------------------------------------------------------
(* What the rewriters and the conversions of GDPRPolicy return.            *)

(***************************************************************************)
(* All but the last token, followed by a value, is a value again: the      *)
(* update rewriter and the metadata view build their results that way.     *)
(***************************************************************************)
LEMMA FrontAppendType ==
    ASSUME NEW v \in Vals, NEW w \in Vals
    PROVE  /\ Front(v) \in Seq(Tokens)
           /\ Front(v) \o w \in Vals
           /\ Last(v) \in Tokens
           /\ << Last(v) >> \in Vals
<1>1. v \in Seq(Tokens) /\ w \in Seq(Tokens) /\ Len(v) \in Nat \ {0} /\ Len(w) \in Nat \ {0}
  BY SMT DEF Vals
<1>2. Last(v) \in Tokens
  BY <1>1, SMT DEF Last
<1>3. Front(v) \in Seq(Tokens)
  BY <1>1, SMT DEF Front
<1>4. Front(v) \o w \in Seq(Tokens) /\ Len(Front(v) \o w) # 0
  BY <1>1, <1>3, SMT
<1>5. Front(v) \o w # << >>
  BY <1>4, SMT
<1> QED
  BY <1>2, <1>3, <1>4, <1>5, SMT DEF Vals

\* A predicate of the query, else the default: value_or stays in the set.
LEMMA ValueOrType ==
    ASSUME NEW S, NEW o \in Optional(S), NEW d \in S
    PROVE  value_or(o, d) \in S
BY DEF Optional, value_or

\* The record of a first insertion is one that the filter can decode.
LEMMA InsertType ==
    ASSUME NEW K, NEW C, NEW q \in Queries(K, C),
           NEW p \in DefaultPolicies, NEW t \in Int
    PROVE  rewrite_insert(q, p, t) \in Records
<1> DEFINE m == rewrite_insert(q, p, t).meta
<1>1. /\ q.usr \in Optional(Users) /\ q.pur \in Optional(SUBSET Purposes)
      /\ q.obj \in Optional(SUBSET Purposes) /\ q.org \in Optional(Origins)
      /\ q.exp \in Optional(Int) /\ q.shr \in Optional(SUBSET Users)
      /\ q.log \in Optional(BOOLEAN) /\ q.value \in Vals
  BY DEF Queries
<1>2. /\ p.usr \in Users /\ p.encr \in BOOLEAN /\ p.pur \in SUBSET Purposes
      /\ p.obj \in SUBSET Purposes /\ p.org \in Origins /\ p.exp \in Int
      /\ p.shr \in SUBSET Users /\ p.log \in BOOLEAN
  BY DEF DefaultPolicies
<1>3. get_expiration_time(value_or(q.exp, p.exp), t) \in Int
  <2>1. value_or(q.exp, p.exp) \in Int
    BY <1>1, <1>2, ValueOrType
  <2> QED BY <2>1 DEF get_expiration_time
<1>4. /\ session_key(q, p) \in Users
      /\ value_or(q.pur, p.pur) \in SUBSET Purposes
      /\ value_or(q.obj, p.obj) \in SUBSET Purposes
      /\ value_or(q.org, p.org) \in Origins
      /\ value_or(q.shr, p.shr) \in SUBSET Users
      /\ value_or(q.log, p.log) \in BOOLEAN
  BY <1>1, <1>2, ValueOrType DEF session_key
<1> QED
  BY <1>1, <1>2, <1>3, <1>4 DEF rewrite_insert, Records, Metadata

\* An update keeps the metadata and yields a decodable record.
LEMMA UpdateType ==
    ASSUME NEW K, NEW C, NEW q \in Queries(K, C), NEW r \in Records
    PROVE  rewrite_update(r, q) \in Records /\ rewrite_update(r, q).meta = r.meta
<1>1. q.value \in Vals /\ r.val \in Vals /\ r.meta \in Metadata
  BY DEF Queries, Records
<1>2. Front(r.val) \o q.value \in Vals
  BY <1>1, FrontAppendType
<1> QED
  BY <1>1, <1>2 DEF rewrite_update, Records

\* Gluing the first two tokens leaves a value.
LEMMA GlueType ==
    ASSUME NEW v \in Vals
    PROVE  glue_ninth(v) \in Vals
<1>1. v \in Seq(Tokens) /\ Len(v) \in Nat \ {0}
  BY SMT DEF Vals
<1>2. CASE Len(v) = 1
  BY <1>2 DEF glue_ninth
<1>3. CASE Len(v) # 1
  <2>1. v[1] \in Tokens /\ v[2] \in Tokens
    <3>1. Len(v) \in Nat /\ Len(v) # 0 /\ Len(v) # 1
      BY <1>1, <1>3
    <3>2. 1 \in 1..Len(v) /\ 2 \in 1..Len(v)
      <4> DEFINE n == Len(v)
      <4>1. n \in Nat /\ n # 0 /\ n # 1
        BY <3>1
      <4> HIDE DEF n
      <4>2. 1 \in 1..n /\ 2 \in 1..n
        BY <4>1
      <4> QED BY <4>2 DEF n
    <3> QED
      BY <1>1, <3>2, ElementOfSeq
  <2>2. v[1] \o v[2] \in Tokens
    BY <2>1, SMT DEF Tokens
  <2>3. SubSeq(v, 3, Len(v)) \in Seq(Tokens)
    BY <1>1, <1>3, SMT
  <2>4. << v[1] \o v[2] >> \o SubSeq(v, 3, Len(v)) \in Seq(Tokens)
    BY <2>2, <2>3, SMT
  <2>5. Len(<< v[1] \o v[2] >> \o SubSeq(v, 3, Len(v))) # 0
    BY <2>2, <2>3, SMT
  <2>6. << v[1] \o v[2] >> \o SubSeq(v, 3, Len(v)) # << >>
    BY <2>4, <2>5, SMT
  <2> QED
    BY <1>3, <2>4, <2>6 DEF glue_ninth, Vals
<1> QED
  BY <1>2, <1>3

\* putm yields a decodable record.
LEMMA PutmType ==
    ASSUME NEW K, NEW C, NEW q \in Queries(K, C),
           NEW r \in Records, NEW t \in Int
    PROVE  rewrite_putm(r, q, t) \in Records
<1> DEFINE m == r.meta
           e == IF q.exp = None THEN m.exp ELSE get_expiration_time(q.exp, t)
<1>1. /\ q.usr \in Optional(Users) /\ q.pur \in Optional(SUBSET Purposes)
      /\ q.obj \in Optional(SUBSET Purposes) /\ q.org \in Optional(Origins)
      /\ q.exp \in Optional(Int) /\ q.shr \in Optional(SUBSET Users)
      /\ q.log \in Optional(BOOLEAN)
  BY DEF Queries
<1>2. /\ m.usr \in Users /\ m.encr \in BOOLEAN /\ m.pur \in SUBSET Purposes
      /\ m.obj \in SUBSET Purposes /\ m.org \in Origins /\ m.exp \in Int
      /\ m.shr \in SUBSET Users /\ m.log \in BOOLEAN
  BY DEF Records, Metadata
<1>3. e \in Int
  BY <1>1, <1>2 DEF get_expiration_time, Optional
<1>4. /\ value_or(q.usr, m.usr) \in Users
      /\ value_or(q.pur, m.pur) \in SUBSET Purposes
      /\ value_or(q.obj, m.obj) \in SUBSET Purposes
      /\ value_or(q.org, m.org) \in Origins
      /\ value_or(q.shr, m.shr) \in SUBSET Users
      /\ value_or(q.log, m.log) \in BOOLEAN
  BY <1>1, <1>2, ValueOrType
<1>5. glue_ninth(r.val) \in Vals
  BY GlueType DEF Records
<1>6. [usr |-> value_or(q.usr, m.usr), encr |-> m.encr, pur |-> value_or(q.pur, m.pur),
       obj |-> value_or(q.obj, m.obj), org |-> value_or(q.org, m.org), exp |-> e,
       shr |-> value_or(q.shr, m.shr), log |-> value_or(q.log, m.log)] \in Metadata
  BY <1>2, <1>3, <1>4 DEF Metadata
<1> QED
  BY <1>5, <1>6 DEF rewrite_putm, Records

\* What a client is shown of a pair: a value, with or without metadata.
LEMMA ViewTypes ==
    ASSUME NEW r \in Records
    PROVE  remove_gdpr_metadata(r) \in Views /\ preserve_only_gdpr_metadata(r) \in Views
<1>1. r.val \in Vals /\ r.meta \in Metadata /\ r = [meta |-> r.meta, val |-> r.val]
  BY DEF Records
<1>2. << << >> >> \in Vals
  BY SMT DEF Vals, Tokens
<1>3. Front(r.val) \o << << >> >> \in Vals /\ << Last(r.val) >> \in Vals
  BY <1>1, <1>2, FrontAppendType
<1>4. r \in Views
  BY <1>1 DEF Views, Optional
<1>5. remove_gdpr_metadata(r) \in Views
  BY <1>1, <1>3, <1>4 DEF remove_gdpr_metadata, Views, Optional
<1>6. preserve_only_gdpr_metadata(r) \in Views
  BY <1>1, <1>3, <1>4 DEF preserve_only_gdpr_metadata, Views, Optional
<1> QED
  BY <1>5, <1>6

-----------------------------------------------------------------------------
(* The types.                                                              *)

StoreCommands == {"get", "put", "delete", "getm", "putm"}
Handling == {"fetch", "validate", "rewrite", "monitor", "apply"}

(***************************************************************************)
(* What a thread knows at each place of a handler: this is what makes      *)
(* TypeOK inductive.                                                       *)
(***************************************************************************)
ThreadInv ==
    \A c \in Conns :
       /\ pc[c] # "closed" => policy[c] \in DefaultPolicies
       /\ pc[c] \notin {"closed", "idle"} => qry[c] \in Workload[c]
       /\ pc[c] \in Handling => qry[c].cmd \in StoreCommands
       /\ pc[c] = "rewrite" =>
             /\ valid[c]
             /\ qry[c].cmd \in {"put", "putm"}
             /\ qry[c].cmd = "putm" => res[c] \in Records
       /\ pc[c] \in {"monitor", "apply"} /\ valid[c] =>
             /\ qry[c].cmd \in {"put", "putm"} => new[c] \in Records
             /\ qry[c].cmd # "put" => res[c] \in Records
       /\ pc[c] = "apply" => valid[c] /\ IsWrite(c)

IInv == TypeOK /\ ThreadInv

-----------------------------------------------------------------------------

\* A query that a client sends has its fields in the right sets.
LEMMA QueryFields ==
    ASSUME NEW c \in Conns, NEW q \in Workload[c]
    PROVE  /\ q \in Query /\ q # None
           /\ q.cmd \in Commands /\ q.key \in LogKeys
           /\ q.cmd # "getlogs" => q.key \in Keys
BY ConstantsAssumption, SentinelsAssumption DEF Query, Queries

\* A session acts as a user.
LEMMA SessionKeyType ==
    ASSUME NEW q \in Query, NEW p \in DefaultPolicies
    PROVE  session_key(q, p) \in Users
<1>1. q.usr \in Optional(Users) /\ p.usr \in Users
  BY DEF Query, Queries, DefaultPolicies
<1> QED
  BY <1>1, ValueOrType DEF session_key

\* Ending the process leaves every variable well typed, if the store is.
LEMMA TerminateType ==
    ASSUME IInv, NEW flushed \in [Keys -> Nat], Terminate(flushed),
           db' \in [Keys -> Records \cup {None, Undecodable}]
    PROVE  IInv'
<1> DEFINE Survivors(k) == {SubSeq(audit[k], 1, n) : n \in flushed[k]..Len(audit[k])}
<1>1. ASSUME NEW k \in Keys, NEW s \in Survivors(k)
      PROVE  s \in Seq(Entries)
  <2>1. PICK n \in flushed[k]..Len(audit[k]) : s = SubSeq(audit[k], 1, n)
    BY <1>1
  <2>2. audit[k] \in Seq(Entries) /\ flushed[k] \in Nat
    BY DEF IInv, TypeOK
  <2>3. n \in Nat /\ n <= Len(audit[k])
    BY <2>1, <2>2, SMT
  <2>4. SubSeq(audit[k], 1, n) \in Seq(Entries)
    BY <2>2, <2>3, SMT
  <2> QED BY <2>1, <2>4
<1>2. audit' \in [Keys -> Seq(Entries)]
  BY <1>1 DEF Terminate
<1>3. durable' \in [Keys -> Nat]
  BY <1>2 DEF Terminate
<1>4. TypeOK'
  BY <1>2, <1>3 DEF IInv, TypeOK, Terminate, Steps, Optional
<1>5. ThreadInv'
  BY DEF Terminate, ThreadInv, Handling
<1> QED BY <1>4, <1>5 DEF IInv

\* The initial state.
LEMMA InitType == Init => IInv
<1> SUFFICES ASSUME Init PROVE IInv
  OBVIOUS
<1>1. << >> \in Seq(Entries)
  OBVIOUS
<1>2. TypeOK
  BY <1>1, ConstantsAssumption DEF Init, TypeOK, Steps, Optional
<1>3. ThreadInv
  BY DEF Init, ThreadInv, Handling
<1> QED BY <1>2, <1>3 DEF IInv

\* Every step keeps the variables well typed and the threads' knowledge.
LEMMA NextType == IInv /\ [Next]_vars => IInv'
<1> SUFFICES ASSUME IInv, [Next]_vars PROVE IInv'
  OBVIOUS
<1> USE DEF IInv
<1>0. db \in [Keys -> Records \cup {None, Undecodable}] /\ durable \in [Keys -> Nat]
  BY DEF TypeOK
<1>1. CASE Restart
  <2>1. TypeOK' BY <1>1, ConstantsAssumption DEF Restart, TypeOK, shared, locals
  <2>2. ThreadInv' BY <1>1 DEF Restart, ThreadInv, IsWrite, shared, locals
  <2> QED BY <2>1, <2>2
<1>2. CASE Tick
  <2>1. TypeOK' BY <1>2 DEF Tick, TypeOK, locals
  <2>2. ThreadInv' BY <1>2 DEF Tick, ThreadInv, IsWrite, locals
  <2> QED BY <2>1, <2>2
<1>3. ASSUME NEW c \in Conns, Accept(c) PROVE IInv'
  <2>1. PICK p \in Policies[c] \ {None} :
           pc' = [pc EXCEPT ![c] = "idle"] /\ policy' = [policy EXCEPT ![c] = p]
    BY <1>3 DEF Accept
  <2>2. p \in DefaultPolicies
    BY <2>1, ConstantsAssumption DEF Optional
  <2>3. TypeOK' BY <1>3, <2>1, <2>2 DEF Accept, TypeOK, Steps, Optional, shared, locals
  <2>4. ThreadInv'
    BY <1>3, <2>1, <2>2 DEF Accept, TypeOK, ThreadInv, Handling, IsWrite, shared, locals
  <2> QED BY <2>3, <2>4
<1>4. ASSUME NEW c \in Conns, AcceptBadPolicy(c) \/ ConnectFails(c) PROVE IInv'
  BY <1>0, <1>4, TerminateType DEF AcceptBadPolicy, ConnectFails
<1>5. ASSUME NEW c \in Conns, Disconnect(c) PROVE IInv'
  <2>1. TypeOK' BY <1>5 DEF Disconnect, TypeOK, Steps, Optional, shared, locals
  <2>2. ThreadInv'
    BY <1>5 DEF Disconnect, TypeOK, ThreadInv, Handling, IsWrite, shared, locals
  <2> QED BY <2>1, <2>2
<1>6. ASSUME NEW c \in Conns, Receive(c) PROVE IInv'
  <2>1. PICK q \in Workload[c] :
           /\ q.cmd # "malformed"
           /\ qry' = [qry EXCEPT ![c] = q]
           /\ pc' = [pc EXCEPT ![c] = CASE q.cmd = "unknown" -> "reply"
                                        [] q.cmd = "getlogs" -> "list_logs"
                                        [] OTHER -> "fetch"]
           /\ resp' = IF q.cmd = "unknown"
                      THEN [resp EXCEPT ![c] = [code |-> "invalid_command", view |-> None]]
                      ELSE resp
    BY <1>6 DEF Receive
  <2>2. q \in Query /\ q.cmd \in Commands
    BY QueryFields
  <2>3. [code |-> "invalid_command", view |-> None] \in Responses
    BY DEF Responses, Optional
  <2>4. now \in Nat /\ served[c] + 1 \in Nat
    BY DEF TypeOK
  <2>5. TypeOK'
    BY <1>6, <2>1, <2>2, <2>3, <2>4 DEF Receive, TypeOK, Steps, Optional, shared
  <2>6. ThreadInv'
    BY <1>6, <2>1, <2>2 DEF Receive, TypeOK, ThreadInv, Handling, IsWrite, Commands,
                            StoreCommands, shared
  <2> QED BY <2>5, <2>6
<1>7. ASSUME NEW c \in Conns, ReceiveMalformed(c) PROVE IInv'
  BY <1>0, <1>7, TerminateType DEF ReceiveMalformed
<1>8. ASSUME NEW c \in Conns, Reply(c) PROVE IInv'
  <2>1. TypeOK' BY <1>8 DEF Reply, EndQuery, TypeOK, Steps, Optional, shared
  <2>2. ThreadInv'
    BY <1>8 DEF Reply, EndQuery, TypeOK, ThreadInv, Handling, IsWrite, shared
  <2> QED BY <2>1, <2>2
<1>9. ASSUME NEW c \in Conns, Fetch(c) PROVE IInv'
  <2>1. qry[c] \in Workload[c] /\ qry[c].cmd \in StoreCommands /\ qry[c].key \in Keys
    BY <1>9, QueryFields DEF Fetch, ThreadInv, Handling, StoreCommands
  <2>2. PICK r \in FetchResults(qry[c].key) \ {Undecodable} :
           /\ res' = [res EXCEPT ![c] = r]
           /\ valid' = [valid EXCEPT ![c] = (r = None /\ qry[c].cmd = "put")]
           /\ pc' = [pc EXCEPT ![c] = CASE r = None /\ qry[c].cmd = "put" -> "rewrite"
                                        [] r = None /\ qry[c].cmd = "putm" -> "reply"
                                        [] OTHER -> "validate"]
           /\ resp' = IF r = None /\ qry[c].cmd = "putm"
                      THEN [resp EXCEPT ![c] = Failed] ELSE resp
    BY <1>9 DEF Fetch
  <2>3. r \in Records \cup {None}
    BY <2>1, <2>2 DEF FetchResults, TypeOK
  <2>4. Failed \in Responses
    BY DEF Failed, Responses, Optional
  <2>5. TypeOK'
    BY <1>9, <2>2, <2>3, <2>4 DEF Fetch, TypeOK, Steps, Optional, shared
  <2>6. ThreadInv'
    BY <1>9, <2>1, <2>2, <2>3 DEF Fetch, TypeOK, ThreadInv, Handling, IsWrite, shared
  <2> QED BY <2>5, <2>6
<1>10. ASSUME NEW c \in Conns, FetchUndecodable(c) PROVE IInv'
  BY <1>0, <1>10, TerminateType DEF FetchUndecodable
<1>11. ASSUME NEW c \in Conns, Validate(c) PROVE IInv'
  <2> DEFINE ok == validate(res[c], qry[c], policy[c], now)
  <2>1. /\ pc[c] = "validate"
        /\ valid' = [valid EXCEPT ![c] = ok]
        /\ pc' = [pc EXCEPT ![c] = IF ok /\ qry[c].cmd \in {"put", "putm"}
                                   THEN "rewrite" ELSE "monitor"]
    BY <1>11 DEF Validate
  <2>2. ok \in BOOLEAN /\ (ok => res[c] \in Records)
    BY DEF validate, TypeOK, Optional
  <2> HIDE DEF ok
  <2>3. TypeOK' BY <1>11, <2>1, <2>2 DEF Validate, TypeOK, Steps, shared
  <2>4. ThreadInv'
    BY <1>11, <2>1, <2>2 DEF Validate, TypeOK, ThreadInv, Handling, IsWrite, shared
  <2> QED BY <2>3, <2>4
<1>12. ASSUME NEW c \in Conns, Rewrite(c) PROVE IInv'
  <2> DEFINE v == CASE qry[c].cmd = "putm" -> rewrite_putm(res[c], qry[c], now)
                    [] qry[c].cmd = "put" /\ res[c] # None -> rewrite_update(res[c], qry[c])
                    [] OTHER -> rewrite_insert(qry[c], policy[c], now)
  <2>1. /\ pc[c] = "rewrite"
        /\ new' = [new EXCEPT ![c] = v]
        /\ pc' = [pc EXCEPT ![c] = "monitor"]
    BY <1>12 DEF Rewrite
  <2>2. qry[c] \in Query /\ policy[c] \in DefaultPolicies /\ now \in Int
    BY <2>1, QueryFields DEF ThreadInv, TypeOK
  <2>3. v \in Records
    <3>1. CASE qry[c].cmd = "putm"
      BY <2>1, <2>2, <3>1, PutmType DEF ThreadInv, Query
    <3>2. CASE qry[c].cmd = "put" /\ res[c] # None
      <4>1. res[c] \in Records BY <3>2 DEF TypeOK, Optional
      <4>2. rewrite_update(res[c], qry[c]) \in Records
        BY <2>2, <4>1, UpdateType DEF Query
      <4> QED BY <3>2, <4>2
    <3>3. CASE ~(qry[c].cmd = "putm") /\ ~(qry[c].cmd = "put" /\ res[c] # None)
      <4>1. rewrite_insert(qry[c], policy[c], now) \in Records
        BY <2>2, InsertType DEF Query
      <4> QED BY <3>3, <4>1
    <3> QED BY <3>1, <3>2, <3>3
  <2> HIDE DEF v
  <2>4. TypeOK' BY <1>12, <2>1, <2>3 DEF Rewrite, TypeOK, Steps, Optional, shared
  <2>5. ThreadInv'
    BY <1>12, <2>1, <2>3 DEF Rewrite, TypeOK, ThreadInv, Handling, IsWrite, shared
  <2> QED BY <2>4, <2>5
<1>13. ASSUME NEW c \in Conns, Monitor(c) PROVE IInv'
  <2>1. /\ pc[c] = "monitor" /\ qry[c] \in Workload[c] /\ qry[c] \in Query
        /\ qry[c].cmd \in StoreCommands /\ qry[c].key \in Keys
        /\ policy[c] \in DefaultPolicies
    BY <1>13, QueryFields DEF Monitor, ThreadInv, Handling, StoreCommands
  <2>2. Entry(c) \in Entries
    <3>1. session_key(qry[c], policy[c]) \in Users
      BY <2>1, SessionKeyType
    <3>2. qry[c].cmd \in Commands
      BY <2>1 DEF StoreCommands, Commands
    <3> QED
      BY <3>1, <3>2 DEF Entry, Entries, TypeOK
  <2>3. audit' \in [Keys -> Seq(Entries)]
    BY <1>13, <2>1, <2>2 DEF Monitor, TypeOK
  <2>4. ReadResponse(c) \in Responses
    <3>1. CASE valid[c] /\ qry[c].cmd \in {"get", "getm"}
      <4>1. res[c] \in Records BY <2>1, <3>1 DEF ThreadInv
      <4>2. remove_gdpr_metadata(res[c]) \in Views /\ preserve_only_gdpr_metadata(res[c]) \in Views
        BY <4>1, ViewTypes
      <4> QED BY <3>1, <4>2 DEF ReadResponse, Responses, Optional, Failed
    <3>2. CASE ~(valid[c] /\ qry[c].cmd \in {"get", "getm"})
      BY <3>2 DEF ReadResponse, Responses, Optional, Failed
    <3> QED BY <3>1, <3>2
  <2>5. /\ pc' \in [Conns -> Steps]
        /\ resp' \in [Conns -> Optional(Responses)]
    BY <1>13, <2>4 DEF Monitor, TypeOK, Steps, Optional
  <2>6. TypeOK' BY <1>13, <2>3, <2>5 DEF Monitor, TypeOK
  <2>7. ThreadInv'
    BY <1>13, <2>1 DEF Monitor, TypeOK, ThreadInv, Handling, IsWrite
  <2> QED BY <2>6, <2>7
<1>14. ASSUME NEW c \in Conns, pc[c] = "apply" 
       PROVE  /\ Written(c) \in Records \cup {None, Undecodable}
              /\ [db EXCEPT ![qry[c].key] = Written(c)] \in [Keys -> Records \cup {None, Undecodable}]
  <2>1. /\ qry[c].cmd \in {"put", "putm", "delete"}
        /\ qry[c].cmd \in {"put", "putm"} => new[c] \in Records
    BY <1>14 DEF ThreadInv, IsWrite
  <2>2. Written(c) \in Records \cup {None, Undecodable}
    BY <2>1 DEF Written
  <2> QED BY <1>0, <2>2
<1>15. ASSUME NEW c \in Conns, Apply(c) PROVE IInv'
  <2>1. db' \in [Keys -> Records \cup {None, Undecodable}]
    BY <1>14, <1>15 DEF Apply
  <2>2. resp' \in [Conns -> Optional(Responses)]
    BY <1>15 DEF Apply, TypeOK, Succeeded, Failed, Responses, Optional
  <2>3. TypeOK' BY <1>15, <2>1, <2>2 DEF Apply, TypeOK, Steps
  <2>4. ThreadInv' BY <1>15 DEF Apply, TypeOK, ThreadInv, Handling, IsWrite
  <2> QED BY <2>3, <2>4
<1>16. ASSUME NEW c \in Conns, ApplyFails(c) PROVE IInv'
  <2>1. resp' \in [Conns -> Optional(Responses)]
    BY <1>16 DEF ApplyFails, TypeOK, Failed, Responses, Optional
  <2>2. TypeOK' BY <1>16, <2>1 DEF ApplyFails, TypeOK, Steps, shared
  <2>3. ThreadInv' BY <1>16 DEF ApplyFails, TypeOK, ThreadInv, Handling, IsWrite, shared
  <2> QED BY <2>2, <2>3
<1>17. ASSUME NEW c \in Conns, StoreLost(c) PROVE IInv'
  <2>1. db' \in [Keys -> Records \cup {None, Undecodable}]
    BY <1>0, <1>14, <1>17 DEF StoreLost
  <2> QED BY <1>0, <1>17, <2>1, TerminateType DEF StoreLost
<1>18. ASSUME NEW c \in Conns, ListLogs(c) PROVE IInv'
  <2>1. /\ pc' \in [Conns -> Steps]
        /\ resp' \in [Conns -> Optional(Responses)]
        /\ todo' \in [Conns -> SUBSET (Keys \X Nat)]
    <3> DEFINE names == CASE qry[c].key = "read_all" -> LogFiles
                          [] qry[c].key = "dir" -> {}
                          [] OTHER -> {qry[c].key}
               files == {<< k, Len(audit[k]) >> : k \in names}
    <3>0. names \in SUBSET Keys
      <4>1. qry[c].key \in LogKeys
        BY <1>18, ConstantsAssumption DEF ListLogs, ThreadInv, Query, Queries
      <4> QED BY <4>1 DEF LogFiles, LogKeys
    <3>1. files \in SUBSET (Keys \X Nat)
      <4> HIDE DEF names
      <4>1. \A k \in names : Len(audit[k]) \in Nat
        BY <3>0 DEF TypeOK
      <4> QED BY <3>0, <4>1
    <3>2. todo' = todo \/ todo' = [todo EXCEPT ![c] = files]
      BY <1>18 DEF ListLogs
    <3> HIDE DEF files
    <3>3. todo' \in [Conns -> SUBSET (Keys \X Nat)]
      BY <3>1, <3>2 DEF TypeOK
    <3>4. pc' \in [Conns -> Steps]
      <4>1. pc' = [pc EXCEPT ![c] = "read_logs"] \/ pc' = [pc EXCEPT ![c] = "reply"]
        BY <1>18 DEF ListLogs
      <4> QED BY <4>1 DEF TypeOK, Steps
    <3>5. resp' \in [Conns -> Optional(Responses)]
      <4>1. Failed \in Responses
        BY DEF Failed, Responses, Optional
      <4>2. resp' = resp \/ resp' = [resp EXCEPT ![c] = Failed]
        BY <1>18 DEF ListLogs
      <4> QED BY <4>1, <4>2 DEF TypeOK, Optional
    <3> QED BY <3>3, <3>4, <3>5
  <2>2. TypeOK' BY <1>18, <2>1 DEF ListLogs, TypeOK, shared
  <2>3. ThreadInv' BY <1>18 DEF ListLogs, TypeOK, ThreadInv, Handling, IsWrite, shared
  <2> QED BY <2>2, <2>3
<1>19. ASSUME NEW c \in Conns, ReadLog(c) PROVE IInv'
  <2>1. durable' \in [Keys -> Nat] /\ todo' \in [Conns -> SUBSET (Keys \X Nat)]
    BY <1>19 DEF ReadLog, TypeOK
  <2>2. TypeOK' BY <1>19, <2>1 DEF ReadLog, TypeOK
  <2>3. ThreadInv' BY <1>19 DEF ReadLog, ThreadInv, IsWrite
  <2> QED BY <2>2, <2>3
<1>20. ASSUME NEW c \in Conns, ReadLogThrows(c) PROVE IInv'
  <2>1. PICK f \in todo[c] : Terminate([durable EXCEPT ![f[1]] = Len(audit[f[1]])])
    BY <1>20 DEF ReadLogThrows
  <2>2. [durable EXCEPT ![f[1]] = Len(audit[f[1]])] \in [Keys -> Nat]
    BY <2>1 DEF TypeOK
  <2> QED BY <1>0, <1>20, <2>1, <2>2, TerminateType DEF ReadLogThrows
<1>21. ASSUME NEW c \in Conns, EndLogs(c) PROVE IInv'
  <2>1. resp' \in [Conns -> Optional(Responses)]
    BY <1>21 DEF EndLogs, TypeOK, Responses, Optional
  <2>2. TypeOK' BY <1>21, <2>1 DEF EndLogs, TypeOK, Steps, shared
  <2>3. ThreadInv' BY <1>21 DEF EndLogs, TypeOK, ThreadInv, Handling, IsWrite, shared
  <2> QED BY <2>2, <2>3
<1>22. CASE UNCHANGED vars
  <2>1. TypeOK' BY <1>22 DEF vars, shared, locals, TypeOK
  <2>2. ThreadInv' BY <1>22 DEF vars, shared, locals, ThreadInv, IsWrite
  <2> QED BY <2>1, <2>2
<1> QED
  BY <1>1, <1>2, <1>3, <1>4, <1>5, <1>6, <1>7, <1>8, <1>9, <1>10, <1>11, <1>12, <1>13,
     <1>15, <1>16, <1>17, <1>18, <1>19, <1>20, <1>21, <1>22 DEF Next, Work

\* The inductive invariant.
LEMMA Inductive == Spec => []IInv
BY InitType, NextType, PTL DEF Spec

(***************************************************************************)
(* Type correctness for every instance: the variables of GDPRController    *)
(* only ever hold what their code counterparts can hold.                   *)
(***************************************************************************)
THEOREM TypeCorrect == Spec => []TypeOK
<1>1. IInv => TypeOK
  BY DEF IInv
<1> QED
  BY <1>1, Inductive, PTL

-----------------------------------------------------------------------------
(* Expired pairs.                                                          *)

\* The clock does not run backwards, so what has expired stays expired.
LEMMA ExpiredIsForEver ==
    ASSUME IInv, [Next]_vars, NEW r, r \in Records \cup {None, Undecodable}, Expired(r)
    PROVE  r \in Records /\ r # None /\ Expired(r)'
<1>1. now \in Nat /\ now' \in Nat /\ now <= now'
  <2>1. now \in Nat
    BY DEF IInv, TypeOK
  <2>2. now' = now \/ now' = now + 1
    BY DEF Next, Work, Restart, Tick, Accept, AcceptBadPolicy, ConnectFails, Disconnect, Receive,
           ReceiveMalformed, Fetch, FetchUndecodable, Validate, Rewrite, Monitor, Apply,
           ApplyFails, StoreLost, ListLogs, ReadLog, ReadLogThrows, EndLogs, Reply,
           Terminate, vars, shared
  <2> QED BY <2>1, <2>2
<1>2. r \in Records /\ r # None
  BY DEF Expired, IsPair
<1>3. r.meta.exp \in Int
  BY <1>2 DEF Records, Metadata
<1> QED
  BY <1>1, <1>2, <1>3 DEF Expired, IsPair, validate_exp_time

\* Ending the process while k is frozen keeps it so, if the store keeps k.
LEMMA FrozenTerminate ==
    ASSUME IInv, [Next]_vars, NEW k \in Keys, Frozen(k), NEW flushed, Terminate(flushed),
           db'[k] = db[k]
    PROVE  Frozen(k)'
<1>1. Expired(db[k])'
  BY ExpiredIsForEver DEF Frozen, IInv, TypeOK
<1>2. \A d \in Conns : pc'[d] = "closed"
  BY DEF Terminate
<1> QED BY <1>1, <1>2 DEF Frozen, PassedInTime, Expired

\* One step: every handler that meets the frozen pair k is turned away.
LEMMA FrozenStep ==
    ASSUME ~ReadFaults, IInv, [Next]_vars, NEW k \in Keys, Frozen(k)
    PROVE  db'[k] = db[k] /\ Frozen(k)'
<1>0. /\ Expired(db[k]) /\ IsPair(db[k])
      /\ \A d \in Conns : ~PassedInTime(d, k)
  BY DEF Frozen, Expired
<1>1. db'[k] = db[k] => Expired(db[k])'
  BY <1>0, ExpiredIsForEver DEF IInv, TypeOK
\* Steps that leave the store and the other threads alone.
<1>2. ASSUME NEW c \in Conns, db' = db, now' = now,
             \A d \in Conns \ {c} : /\ pc'[d] = pc[d] /\ qry'[d] = qry[d]
                                    /\ res'[d] = res[d] /\ valid'[d] = valid[d],
             ~PassedInTime(c, k)'
      PROVE  db'[k] = db[k] /\ Frozen(k)'
  <2>1. \A d \in Conns \ {c} : ~PassedInTime(d, k)'
    BY <1>0, <1>2 DEF PassedInTime, Expired
  <2> QED BY <1>1, <1>2, <2>1 DEF Frozen
\* The process ends and the store keeps k.
<1>3. ASSUME NEW flushed, Terminate(flushed), db'[k] = db[k]
      PROVE  db'[k] = db[k] /\ Frozen(k)'
  BY <1>3, FrozenTerminate
\* No thread is about to write k.
<1>4. ASSUME NEW c \in Conns, pc[c] \in {"rewrite", "apply"}
      PROVE  qry[c].key # k
  <2>1. valid[c] /\ qry[c] # None
    BY <1>4, QueryFields DEF IInv, ThreadInv
  <2> QED BY <1>0, <1>4, <2>1 DEF PassedInTime
<1>5. CASE Restart
  BY <1>0, <1>1, <1>5 DEF Restart, Frozen, PassedInTime, Expired, shared, locals
<1>6. CASE Tick
  <2>1. \A d \in Conns : ~PassedInTime(d, k)'
    <3> SUFFICES ASSUME NEW d \in Conns, PassedInTime(d, k)' PROVE FALSE
      OBVIOUS
    <3>1. /\ qry[d] # None /\ qry[d].key = k
          /\ \/ pc[d] = "validate" /\ res[d] # None /\ ~Expired(res[d])'
             \/ pc[d] \in {"rewrite", "monitor", "apply"} /\ valid[d]
      BY <1>6 DEF PassedInTime, Tick, locals
    <3>2. res[d] \in Records \cup {None}
      BY DEF IInv, TypeOK, Optional
    <3>3. CASE pc[d] = "validate" /\ res[d] # None /\ ~Expired(res[d])'
      <4>1. ~Expired(res[d])
        BY <1>6, <3>2, <3>3, ExpiredIsForEver DEF Tick, locals
      <4> QED BY <1>0, <3>1, <3>3, <4>1 DEF PassedInTime
    <3>4. CASE pc[d] \in {"rewrite", "monitor", "apply"} /\ valid[d]
      BY <1>0, <3>1, <3>4 DEF PassedInTime
    <3> QED BY <3>1, <3>3, <3>4
  <2> QED BY <1>1, <1>6, <2>1 DEF Tick, Frozen
<1>7. ASSUME NEW c \in Conns, Accept(c) \/ Disconnect(c) \/ Receive(c) \/ Reply(c)
                              \/ ListLogs(c) \/ ReadLog(c) \/ EndLogs(c) \/ ApplyFails(c)
      PROVE  db'[k] = db[k] /\ Frozen(k)'
  <2>1. pc'[c] \notin {"validate", "rewrite", "monitor", "apply"}
    BY <1>7 DEF Accept, Disconnect, Receive, Reply, ListLogs, ReadLog, EndLogs, ApplyFails,
                IInv, TypeOK
  <2>2. ~PassedInTime(c, k)'
    BY <2>1 DEF PassedInTime
  <2>3. db' = db /\ now' = now
    BY <1>7 DEF Accept, Disconnect, Receive, Reply, ListLogs, ReadLog, EndLogs, ApplyFails,
                shared
  <2>4. \A d \in Conns \ {c} : /\ pc'[d] = pc[d] /\ qry'[d] = qry[d]
                               /\ res'[d] = res[d] /\ valid'[d] = valid[d]
    BY <1>7 DEF Accept, Disconnect, Receive, Reply, EndQuery, ListLogs, ReadLog, EndLogs,
                ApplyFails, IInv, TypeOK, locals
  <2> QED BY <1>2, <2>2, <2>3, <2>4
<1>8. ASSUME NEW c \in Conns, Fetch(c) PROVE db'[k] = db[k] /\ Frozen(k)'
  <2>1. db' = db /\ now' = now /\ qry' = qry
    BY <1>8 DEF Fetch, shared
  <2>2. \A d \in Conns \ {c} : /\ pc'[d] = pc[d] /\ qry'[d] = qry[d]
                               /\ res'[d] = res[d] /\ valid'[d] = valid[d]
    BY <1>8 DEF Fetch, IInv, TypeOK
  <2>3. ~PassedInTime(c, k)'
    <3>1. CASE qry[c].key = k
      <4>1. res'[c] = db[k] /\ db[k] # None /\ pc'[c] = "validate"
        BY <1>0, <1>8, <3>1 DEF Fetch, FetchResults, IsPair, IInv, TypeOK
      <4>2. Expired(res[c])'
        BY <1>0, <2>1, <4>1 DEF Expired
      <4> QED BY <4>1, <4>2 DEF PassedInTime
    <3>2. CASE qry[c].key # k
      BY <2>1, <3>2 DEF PassedInTime
    <3> QED BY <3>1, <3>2
  <2> QED BY <1>2, <2>1, <2>2, <2>3
<1>9. ASSUME NEW c \in Conns, Validate(c) PROVE db'[k] = db[k] /\ Frozen(k)'
  <2>1. db' = db /\ now' = now /\ qry' = qry
    BY <1>9 DEF Validate, shared
  <2>2. \A d \in Conns \ {c} : /\ pc'[d] = pc[d] /\ qry'[d] = qry[d]
                               /\ res'[d] = res[d] /\ valid'[d] = valid[d]
    BY <1>9 DEF Validate, IInv, TypeOK
  <2>3. ~PassedInTime(c, k)'
    <3>1. CASE qry[c].key = k /\ qry[c] # None
      <4>1. res[c] = None \/ Expired(res[c])
        BY <1>0, <1>9, <3>1 DEF Validate, PassedInTime
      <4>2. ~validate(res[c], qry[c], policy[c], now)
        BY <4>1 DEF validate, Expired
      <4>3. valid'[c] = FALSE /\ pc'[c] = "monitor"
        BY <1>9, <4>2 DEF Validate, IInv, TypeOK
      <4> QED BY <4>3 DEF PassedInTime
    <3>2. CASE qry[c].key # k \/ qry[c] = None
      BY <2>1, <3>2 DEF PassedInTime
    <3> QED BY <3>1, <3>2
  <2> QED BY <1>2, <2>1, <2>2, <2>3
<1>10. ASSUME NEW c \in Conns, Rewrite(c) PROVE db'[k] = db[k] /\ Frozen(k)'
  <2>1. db' = db /\ now' = now /\ qry' = qry
    BY <1>10 DEF Rewrite, shared
  <2>2. \A d \in Conns \ {c} : /\ pc'[d] = pc[d] /\ qry'[d] = qry[d]
                               /\ res'[d] = res[d] /\ valid'[d] = valid[d]
    BY <1>10 DEF Rewrite, IInv, TypeOK
  <2>3. ~PassedInTime(c, k)'
    BY <1>4, <1>10, <2>1 DEF Rewrite, PassedInTime
  <2> QED BY <1>2, <2>1, <2>2, <2>3
<1>11. ASSUME NEW c \in Conns, Monitor(c) PROVE db'[k] = db[k] /\ Frozen(k)'
  <2>1. db' = db /\ now' = now /\ qry' = qry /\ valid' = valid /\ res' = res
    BY <1>11 DEF Monitor
  <2>2. \A d \in Conns \ {c} : /\ pc'[d] = pc[d] /\ qry'[d] = qry[d]
                               /\ res'[d] = res[d] /\ valid'[d] = valid[d]
    BY <1>11 DEF Monitor, IInv, TypeOK
  <2>3. pc[c] = "monitor" /\ pc'[c] \in {"apply", "reply"}
    BY <1>11 DEF Monitor, IInv, TypeOK
  <2>4. ~PassedInTime(c, k)'
    BY <1>0, <2>1, <2>3 DEF PassedInTime
  <2> QED BY <1>2, <2>1, <2>2, <2>4
<1>12. ASSUME NEW c \in Conns, Apply(c) PROVE db'[k] = db[k] /\ Frozen(k)'
  <2>1. db'[k] = db[k]
    BY <1>4, <1>12 DEF Apply, IInv, TypeOK
  <2>2. \A d \in Conns : ~PassedInTime(d, k)'
    BY <1>0, <1>12 DEF Apply, PassedInTime, Expired, IInv, TypeOK
  <2> QED BY <1>1, <2>1, <2>2 DEF Frozen
<1>13. ASSUME NEW c \in Conns, StoreLost(c) PROVE db'[k] = db[k] /\ Frozen(k)'
  <2>1. db'[k] = db[k]
    BY <1>4, <1>13 DEF StoreLost, IInv, TypeOK
  <2> QED BY <1>3, <1>13, <2>1 DEF StoreLost
<1>14. ASSUME NEW c \in Conns, AcceptBadPolicy(c) \/ ConnectFails(c)
                               \/ ReceiveMalformed(c) \/ FetchUndecodable(c)
                               \/ ReadLogThrows(c)
       PROVE  db'[k] = db[k] /\ Frozen(k)'
  <2>1. db' = db /\ \E flushed : Terminate(flushed)
    BY <1>14 DEF AcceptBadPolicy, ConnectFails, ReceiveMalformed, FetchUndecodable,
                 ReadLogThrows
  <2> QED BY <1>3, <2>1
<1>15. CASE UNCHANGED vars
  BY <1>0, <1>1, <1>15 DEF vars, shared, locals, Frozen, PassedInTime, Expired
<1> QED
  BY <1>5, <1>6, <1>7, <1>8, <1>9, <1>10, <1>11, <1>12, <1>13, <1>14, <1>15 DEF Next, Work

(***************************************************************************)
(* As long as reads of the store do not fail: whatever the clients do, a   *)
(* pair that has expired, and that no handler read in time, is never read  *)
(* or changed again; it may only be erased.                                *)
(***************************************************************************)
THEOREM NeverRevived ==
    ASSUME ~ReadFaults
    PROVE  Spec => ExpiredNeverRevived
<1> DEFINE A == \A k \in Keys : Frozen(k) => (db'[k] = db[k] /\ Frozen(k)') \/ db'[k] = None
<1>1. IInv /\ [Next]_vars => [A]_vars
  BY FrozenStep
<1> QED
  BY <1>1, Inductive, PTL DEF Spec, ExpiredNeverRevived

=============================================================================
