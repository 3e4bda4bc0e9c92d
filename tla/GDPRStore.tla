----------------------------- MODULE GDPRStore ------------------------------
(***************************************************************************)
(* What the controller promises its clients: a store in which every query  *)
(* is carried out in one step, between the moment it is received and the   *)
(* moment it is answered, checked against the pair that the step replaces. *)
(* Each reading of the clock lies within the life of the query.            *)
(***************************************************************************)
EXTENDS GDPRPolicy

CONSTANTS Conns, Keys, Policies, Workload, MayFail, MaxTime

VARIABLES now, store, phase, who, ask, since, ans

svars == << now, store, phase, who, ask, since, ans >>

Answer(code, view) == [code |-> code, view |-> view]
Refused == Answer("failed", None)

Init ==
    /\ now = 1
    /\ store = [k \in Keys |-> None]
    /\ phase = [c \in Conns |-> "free"]
    /\ who = [c \in Conns |-> None]
    /\ ask = [c \in Conns |-> None]
    /\ since = [c \in Conns |-> 0]
    /\ ans = [c \in Conns |-> None]

Tick ==
    /\ now < MaxTime
    /\ now' = now + 1
    /\ UNCHANGED << store, phase, who, ask, since, ans >>

\* A client connects or leaves while it has no query under way.
Session(c) ==
    /\ phase[c] = "free"
    /\ \E p \in Policies[c] \cup {None} : who' = [who EXCEPT ![c] = p]
    /\ UNCHANGED << now, store, phase, ask, since, ans >>

Ask(c) ==
    /\ phase[c] = "free"
    /\ \E q \in Workload[c] :
          /\ ask' = [ask EXCEPT ![c] = q]
          /\ IF q.cmd = "unknown"
             THEN /\ phase' = [phase EXCEPT ![c] = "done"]
                  /\ ans' = [ans EXCEPT ![c] = Answer("invalid_command", None)]
             ELSE /\ phase' = [phase EXCEPT ![c] = "busy"]
                  /\ UNCHANGED ans
    /\ since' = [since EXCEPT ![c] = now]
    /\ UNCHANGED << now, store, who >>

(***************************************************************************)
(* The outcomes of the query of c on the pair r: what the store holds      *)
(* afterwards and what the client is told, with the clock at t when the    *)
(* query was checked and at u when the new value was made.                 *)
(***************************************************************************)
Outcome(c, r, t, u) ==
    LET q == ask[c]
        p == who[c]
        ok == validate(r, q, p, t)
        Out(s, a) == [store |-> s, ans |-> a]
        done == Answer("success", None)
    IN  CASE q.cmd = "put" /\ r = None -> Out(rewrite_insert(q, p, u), done)
          [] ~(q.cmd = "put" /\ r = None) /\ ~ok -> Out(r, Refused)
          [] q.cmd = "put" /\ ok -> Out(rewrite_update(r, q), done)
          [] q.cmd = "putm" /\ ok -> Out(rewrite_putm(r, q, u), done)
          [] q.cmd = "delete" /\ ok -> Out(None, done)
          [] q.cmd = "get" /\ ok -> Out(r, Answer("value", remove_gdpr_metadata(r)))
          [] q.cmd = "getm" /\ ok -> Out(r, Answer("value", preserve_only_gdpr_metadata(r)))

\* Carry out the query, or fail at a write and leave the store as it is.
Perform(c) ==
    /\ phase[c] = "busy"
    /\ ask[c].cmd # "getlogs"
    /\ \E t, u \in since[c]..now :
          /\ t <= u
          /\ LET k == ask[c].key
                 o == Outcome(c, store[k], t, u)
             IN  \/ /\ store' = [store EXCEPT ![k] = o.store]
                    /\ ans' = [ans EXCEPT ![c] = o.ans]
                 \/ /\ MayFail
                    /\ o.ans.code = "success"
                    /\ ans' = [ans EXCEPT ![c] = Refused]
                    /\ UNCHANGED store
    /\ phase' = [phase EXCEPT ![c] = "done"]
    /\ UNCHANGED << now, who, ask, since >>

\* getLogs does not touch the store.
PerformLogs(c) ==
    /\ phase[c] = "busy"
    /\ ask[c].cmd = "getlogs"
    /\ \E a \in {Answer("logs", None), Refused} : ans' = [ans EXCEPT ![c] = a]
    /\ phase' = [phase EXCEPT ![c] = "done"]
    /\ UNCHANGED << now, store, who, ask, since >>

\* The client gets its answer, or its connection is gone.
Return(c) ==
    /\ phase[c] = "done"
    /\ phase' = [phase EXCEPT ![c] = "free"]
    /\ \/ UNCHANGED who
       \/ who' = [who EXCEPT ![c] = None]
    /\ ask' = [ask EXCEPT ![c] = None]
    /\ since' = [since EXCEPT ![c] = 0]
    /\ ans' = [ans EXCEPT ![c] = None]
    /\ UNCHANGED << now, store >>

(***************************************************************************)
(* The process ends.  No query is carried out by halves: one write that    *)
(* was under way may have been carried out, without an answer.             *)
(***************************************************************************)
Crash ==
    /\ \/ UNCHANGED store
       \/ \E c \in Conns :
             /\ MayFail
             /\ phase[c] = "busy"
             /\ ask[c].cmd # "getlogs"
             /\ \E t, u \in since[c]..now :
                   /\ t <= u
                   /\ store' = [store EXCEPT ![ask[c].key] =
                                   Outcome(c, store[ask[c].key], t, u).store]
    /\ phase' = [c \in Conns |-> "free"]
    /\ who' = [c \in Conns |-> None]
    /\ ask' = [c \in Conns |-> None]
    /\ since' = [c \in Conns |-> 0]
    /\ ans' = [c \in Conns |-> None]
    /\ UNCHANGED now

Next ==
    \/ Tick \/ Crash
    \/ \E c \in Conns : Session(c) \/ Ask(c) \/ Perform(c) \/ PerformLogs(c) \/ Return(c)

Spec == Init /\ [][Next]_svars

=============================================================================
