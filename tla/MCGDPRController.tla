-------------------------- MODULE MCGDPRController --------------------------
(***************************************************************************)
(* Instances of GDPRController for TLC: users, policies and the workloads  *)
(* of the runs.  Each run picks one workload.                              *)
(***************************************************************************)
EXTENDS GDPRController

CONSTANTS c1, c2, k1, k2, alice, bob, regulator, nobody, ads, billing, site, x, y

MCUsers == {alice, bob, regulator, nobody}

\* The default policy of a user: pairs are monitored and do not expire.
PolicyOf(u) == [usr |-> u, encr |-> FALSE, pur |-> {billing}, obj |-> {ads}, org |-> site,
                exp |-> 0, shr |-> {}, log |-> TRUE]

Plain(u) == [PolicyOf(u) EXCEPT !.log = FALSE]

\* A query without predicates; the value matters for put only.
Q(cmd, k) == [cmd |-> cmd, key |-> k, value |-> << <<x>> >>, usr |-> None, pur |-> None,
              obj |-> None, org |-> None, exp |-> None, shr |-> None, log |-> None, cpur |-> {}]

As(q, u) == [q EXCEPT !.usr = u]
Share(q, us) == [q EXCEPT !.shr = us]
Expiring(q, secs) == [q EXCEPT !.exp = secs]
Monitored(q, b) == [q EXCEPT !.log = b]
For(q, ps) == [q EXCEPT !.cpur = ps]
Value(q, v) == [q EXCEPT !.value = v]

xy == << <<x>>, <<y>> >> \* the value "x|y"

\* What each connection may do with a key of its own.
OwnKey(k) ==
    { Q("put", k), Expiring(Share(Value(Q("put", k), xy), {bob}), 1),
      As(Q("delete", k), bob), As(For(Q("get", k), {billing}), bob),
      Share(Monitored(Q("putm", k), FALSE), {bob}) }

PartitionedWorkload ==
    c1 :> OwnKey(k1)
      @@ c2 :> {Q("put", k2)}
PartitionedQueries == c1 :> 3 @@ c2 :> 1
PartitionedPolicies == c1 :> {PolicyOf(alice)} @@ c2 :> {Plain(alice)}

TwoEach == [c \in Conns |-> 2]

\* A monitored pair and what changes it, one session per key; no putm that
\* switches monitoring on.  A regulator reads the logs, and a policy, a query,
\* a pair or a log entry that cannot be dealt with ends the process.
AuditWorkload ==
    c1 :> {Q("put", k1), Monitored(Value(Q("put", k1), xy), FALSE), Q("delete", k1),
           Share(Q("putm", k1), {bob}), Monitored(Q("putm", k1), FALSE),
           As(Q("get", k1), bob)}
      @@ c2 :> {Q("put", k2), Q("malformed", k2), Q("unknown", k2),
                As(Q("getlogs", "dir"), regulator), As(Q("getlogs", k1), regulator),
                As(Q("getlogs", "read_all"), regulator)}
AuditPolicies == c1 :> {PolicyOf(alice)} @@ c2 :> {PolicyOf(alice), None}
AuditQueries == c1 :> 3 @@ c2 :> 2

AlicePolicies == [c \in Conns |-> {PolicyOf(alice)}]

\* Two users create the same key.
InsertRaceWorkload == c1 :> {As(Q("put", k1), alice)} @@ c2 :> {As(Q("put", k1), bob)}

\* A monitored put, then the regulator's getLogs.
RegulatorWorkload == c1 :> {Q("put", k1)} @@ c2 :> {As(Q("getlogs", k1), regulator)}

=============================================================================
