------------------------------ MODULE AuditLog ------------------------------
(***************************************************************************)
(* What the history logger promises its callers: one append-only sequence  *)
(* per key.  A log call appends its entry exactly once, between its start  *)
(* and its return; a decode call returns the log of its key as it is at    *)
(* one moment in between, and what it returned survives a crash.           *)
(***************************************************************************)
EXTENDS LogFile

CONSTANTS Threads, Keys,
          MayFail, \* an entry may fail to be encrypted, and is left out
          None

VARIABLES log,  \* key -> entries
          safe, \* key -> how many of them no crash can take away
          req,  \* thread -> its call [op, key, nr], or None
          got   \* thread -> what its last decode returned

avars == << log, safe, req, got >>

\* An entry is identified by the call that made it.
Entry(t) == << t, req[t].nr >>

Init ==
    /\ log = [k \in Keys |-> << >>]
    /\ safe = [k \in Keys |-> 0]
    /\ req = [t \in Threads |-> None]
    /\ got = [t \in Threads |-> << >>]

Start(t) ==
    /\ req[t] = None
    /\ req'[t] \in [op : {"log", "decode"}, key : Keys, nr : Nat]
    /\ req' = [req EXCEPT ![t] = req'[t]]
    /\ got' = [got EXCEPT ![t] = << >>]
    /\ UNCHANGED << log, safe >>

AppendEntry(t) ==
    /\ req[t] # None
    /\ req[t].op = "log"
    /\ log' = [log EXCEPT ![req[t].key] = Append(@, Entry(t))]
    /\ req' = [req EXCEPT ![t] = None]
    /\ UNCHANGED << safe, got >>

DropEntry(t) ==
    /\ MayFail
    /\ req[t] # None
    /\ req[t].op = "log"
    /\ req' = [req EXCEPT ![t] = None]
    /\ UNCHANGED << log, safe, got >>

Decode(t) ==
    /\ req[t] # None
    /\ req[t].op = "decode"
    /\ got' = [got EXCEPT ![t] = Readable(log[req[t].key])]
    /\ safe' = [safe EXCEPT ![req[t].key] = Len(log[req[t].key])]
    /\ req' = [req EXCEPT ![t] = None]
    /\ UNCHANGED log

\* Entries also become safe in between, when a stream is closed.
Settle(k) ==
    /\ safe' = [safe EXCEPT ![k] = Len(log[k])]
    /\ UNCHANGED << log, req, got >>

\* Every log keeps its safe entries and any part of the others.
Left(k) == {SubSeq(log[k], 1, safe[k]) \o p : p \in Parts(SubSeq(log[k], safe[k] + 1, Len(log[k])))}

Crash ==
    /\ \A k \in Keys : log'[k] \in Left(k)
    /\ DOMAIN log' = Keys
    /\ safe' = [k \in Keys |-> Len(log'[k])]
    /\ req' = [t \in Threads |-> None]
    /\ got' = [t \in Threads |-> << >>]

Next ==
    \/ Crash
    \/ \E k \in Keys : Settle(k)
    \/ \E t \in Threads : Start(t) \/ AppendEntry(t) \/ DropEntry(t) \/ Decode(t)

Spec == Init /\ [][Next]_avars

=============================================================================
