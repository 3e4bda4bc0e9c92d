-------------------------- MODULE MCGDPRSharedKeys --------------------------
(***************************************************************************)
(* An instance of GDPRSharedKeys for TLC: two users, one key.  The owner   *)
(* shares the pair, stops sharing and monitoring it, or removes it, while  *)
(* the other one works on it.                                              *)
(***************************************************************************)
EXTENDS MCGDPRController, GDPRSharedKeys

SharedWorkload ==
    c1 :> {Share(Q("put", k1), {bob}), Share(Monitored(Q("putm", k1), FALSE), {}),
           Q("delete", k1)}
      @@ c2 :> {As(Value(Q("put", k1), xy), bob), As(Q("get", k1), bob),
                As(Q("getm", k1), bob), As(Q("delete", k1), bob)}
SharedQueries == c1 :> 3 @@ c2 :> 1
SharedPolicies == [c \in Conns |-> {PolicyOf(alice)}]

=============================================================================
