----------------------------- MODULE KVService ------------------------------
(***************************************************************************)
(* What a client of the native controller may rely on: a map from keys to  *)
(* values, and at most one call per connection.  A call is performed in    *)
(* one step between its start and its answer, or is refused by the store   *)
(* and changes nothing.  If the connection to the store or the controller  *)
(* is lost, a call that was not performed strays: it may still be          *)
(* performed, once, at any later time, also after a restart.               *)
(***************************************************************************)
EXTENDS Integers, Functions

CONSTANTS
    Conns,    \* connections of clients
    Ops,      \* calls: [command, is_valid, key, value]
    GET_FAILED, PUT_SUCCESS, PUT_FAILED, DELETE_SUCCESS, DELETE_FAILED,
    INVALID_COMMAND

VARIABLES
    pairs,   \* the map
    call,    \* per connection: the state of its call
    strays,  \* calls that were given up before they were performed
    crashes  \* how often the controller was started again

vars == << pairs, call, strays, crashes >>

Idle == [state |-> "idle"]
Lost == [state |-> "lost"]
Asked(op) == [state |-> "asked", op |-> op]
Done(result) == [state |-> "done", result |-> result]

Effect(op) ==
    CASE op.command = "put" ->
             [k \in DOMAIN pairs \cup {op.key} |-> IF k = op.key THEN op.value ELSE pairs[k]]
      [] op.command = "del" -> Restrict(pairs, DOMAIN pairs \ {op.key})
      [] OTHER -> pairs

Success(op) ==
    CASE op.command = "put" -> PUT_SUCCESS
      [] op.command = "del" -> DELETE_SUCCESS
      [] OTHER -> IF op.key \in DOMAIN pairs THEN pairs[op.key] ELSE GET_FAILED

Failure(op) ==
    CASE op.command = "put" -> PUT_FAILED
      [] op.command = "del" -> DELETE_FAILED
      [] OTHER -> GET_FAILED

-----------------------------------------------------------------------------

\* The map starts with whatever the store holds.
Init ==
    /\ call = [c \in Conns |-> Idle]
    /\ strays = {}
    /\ crashes = 0

Ask(c) ==
    /\ call[c] = Idle
    /\ call' \in {[call EXCEPT ![c] = Asked(op)] : op \in Ops}
    /\ UNCHANGED << pairs, strays, crashes >>

\* A query that is no command has its answer at once.
Refuse(c) ==
    /\ call[c] = Idle
    /\ call' = [call EXCEPT ![c] = Done(INVALID_COMMAND)]
    /\ UNCHANGED << pairs, strays, crashes >>

Perform(c) ==
    /\ call[c].state = "asked"
    /\ LET op == call[c].op IN
          \/ /\ op.is_valid
             /\ pairs' = Effect(op)
             /\ call' = [call EXCEPT ![c] = Done(Success(op))]
          \/ /\ pairs' = pairs
             /\ call' = [call EXCEPT ![c] = Done(Failure(op))]
    /\ UNCHANGED << strays, crashes >>

\* The client gets the result, or its connection is closed before.
Return(c) ==
    /\ call[c].state = "done"
    /\ call' = [call EXCEPT ![c] = Idle]
    /\ UNCHANGED << pairs, strays, crashes >>

Stray(c) == [conn |-> c, epoch |-> crashes, op |-> call[c].op]

\* The connection to the store is lost: before the call, or under way.
Lose(c) ==
    /\ call' = [call EXCEPT ![c] = Lost]
    /\ \/ strays' = strays
       \/ call[c].state = "asked" /\ strays' = strays \cup {Stray(c)}
    /\ UNCHANGED << pairs, crashes >>

\* The controller ends and takes every call with it.
Crash ==
    /\ call' = [c \in Conns |-> Idle]
    /\ strays' = strays \cup {Stray(c) : c \in {d \in Conns : call[d].state = "asked"}}
    /\ UNCHANGED << pairs, crashes >>

Restart ==
    /\ crashes' = crashes + 1
    /\ UNCHANGED << pairs, call, strays >>

Land ==
    /\ \E s \in strays :
          /\ pairs' = pairs \/ (s.op.is_valid /\ pairs' = Effect(s.op))
          /\ strays' = strays \ {s}
    /\ UNCHANGED << call, crashes >>

Next ==
    \/ Crash \/ Restart \/ Land
    \/ \E c \in Conns :
          Refuse(c) \/ Perform(c) \/ Return(c) \/ Lose(c) \/ Ask(c)

Spec == Init /\ [][Next]_vars

=============================================================================
