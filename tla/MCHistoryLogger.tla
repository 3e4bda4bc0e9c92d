-------------------------- MODULE MCHistoryLogger ---------------------------
(***************************************************************************)
(* Instances of HistoryLogger for TLC.                                     *)
(***************************************************************************)
EXTENDS HistoryLogger

CONSTANTS t1, t2, k1, k2, k3

Everything == [t \in Threads |-> {"log", "decode"}]
LogsOnly == [t \in Threads |-> {"log"}]

\* One thread logs, one reads.
WriterAndReader == t1 :> {"log"} @@ t2 :> {"decode"}

SameKey == [k \in Keys |-> k]

\* k2 is a key like "a.logs", whose file "a.logs.log" is taken for that of k1, "a".
Misread == [k \in Keys |-> k1]

=============================================================================
