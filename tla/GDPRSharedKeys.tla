---------------------------- MODULE GDPRSharedKeys ----------------------------
(***************************************************************************)
(* The controller with two things added that matter when clients share     *)
(* keys.                                                                   *)
(*                                                                         *)
(* held is a history variable: everything that the store held under a      *)
(* query's key since the query was received.  A handler reads the pair     *)
(* once and locks nothing, so what it does is based on any of it.          *)
(*                                                                         *)
(* late are writes whose handler ended with its process while they were on *)
(* their way: a session of the store takes what is in its socket also when *)
(* the sender is gone (rocksdb_server/server.cpp, handle_read).  Such a    *)
(* write lands at any later time, or never.                                *)
(***************************************************************************)
EXTENDS GDPRController

VARIABLES
    held, \* connection -> what the store held under the key of its query
    late  \* writes in sockets of the store

hvars == << vars, held, late >>

\* The write of a handler, with what it may have been decided on.
Write(c) == [key |-> qry[c].key, val |-> Written(c), qry |-> qry[c], policy |-> policy[c],
             since |-> since[c], upto |-> now, held |-> held[c]]

Writing == {c \in Conns : pc[c] = "apply"}

-----------------------------------------------------------------------------

HInit ==
    /\ Init
    /\ held = [c \in Conns |-> {}]
    /\ late = {}

Track ==
    held' = [c \in Conns |->
               IF qry'[c] = None THEN {}
               ELSE held[c] \cup {db'[k] : k \in Keys \cap {qry'[c].key}}]

\* A write that the store took in this very step is not among the late ones.
Taken(sent) ==
    db' # db => \E c \in Writing \ sent : db' = [db EXCEPT ![qry[c].key] = Written(c)]

\* When the process ends, any of the writes under way may be left in sockets.
Leave ==
    IF up /\ ~up'
    THEN \E sent \in SUBSET Writing : Taken(sent) /\ late' = late \cup {Write(c) : c \in sent}
    ELSE UNCHANGED late

Land ==
    /\ \E w \in late :
          /\ db' = [db EXCEPT ![w.key] = w.val]
          /\ late' = late \ {w}
    /\ UNCHANGED << up, restarts, now, audit, durable, pc, policy, served, locals >>
    /\ Track

HNext ==
    \/ Next /\ Track /\ Leave
    \/ Land

HSpec == HInit /\ [][HNext]_hvars

-----------------------------------------------------------------------------
(* Properties.                                                             *)

\* The pair r, or its absence, lets the query of w pass at time t.
Passes(w, r, t) ==
    \/ r = None /\ w.qry.cmd = "put"
    \/ IsPair(r) /\ validate(r, w.qry, w.policy, t)

\* What the query of w makes of the pair r, with the clock at u.
Makes(w, r, u) ==
    CASE w.qry.cmd = "putm" -> rewrite_putm(r, w.qry, u)
      [] w.qry.cmd = "put" /\ r # None -> rewrite_update(r, w.qry)
      [] w.qry.cmd = "put" /\ r = None -> rewrite_insert(w.qry, w.policy, u)
      [] OTHER -> None

\* The value v arrives in the store as s: an unencrypted putm may lose it.
Arrives(w, v, s) == s = v \/ (w.qry.cmd = "putm" /\ s = Undecodable)

\* w was decided on the one pair r: r lets it pass, and v is made of r.
DecidedOn(w, r, v) ==
    \E t, u \in w.since..w.upto : t <= u /\ Passes(w, r, t) /\ v = Makes(w, r, u)

(***************************************************************************)
(* Whoever else uses the key: a pair is created, changed or removed only   *)
(* by a query that ONE state of the pair allowed while the query was under *)
(* way, what is stored is what the query makes of that same state, and     *)
(* when that state was monitored the log has the operation by then.  What  *)
(* lands late was so decided before its process ended; its entry may have  *)
(* been lost with the process.  (handle_put, handle_delete and             *)
(* handle_put_metadata use the one res that they read at the top for       *)
(* verdict, monitor and rewriter.)                                         *)
(***************************************************************************)
EffectDecided ==
    [][\A k \in Keys : db'[k] # db[k] =>
          \/ \E c \in Writing :
                /\ qry[c].key = k
                /\ Arrives(Write(c), new[c], db'[k])
                /\ \E r \in held[c] :
                      /\ DecidedOn(Write(c), r, new[c])
                      /\ monitor_needed(r, qry[c], policy[c]) => Audited(c, k, new[c])
          \/ \E w \in late :
                /\ w.key = k
                /\ db'[k] = w.val
                /\ \E r \in w.held : \E t, u \in w.since..w.upto :
                      /\ t <= u
                      /\ Passes(w, r, t)
                      /\ Arrives(w, Makes(w, r, u), w.val)]_hvars

(***************************************************************************)
(* Whoever else uses the key: a client is shown a pair, or its metadata,   *)
(* only as they were at one time during its query at which they allowed    *)
(* it (handle_get, handle_get_metadata).                                   *)
(***************************************************************************)
AnswerDecided ==
    \A c \in Conns :
       pc[c] = "reply" /\ resp[c].code = "value" =>
          \E r \in held[c] : \E t \in since[c]..now :
             /\ IsPair(r)
             /\ validate(r, qry[c], policy[c], t)
             /\ resp[c].view = IF qry[c].cmd = "get" THEN remove_gdpr_metadata(r)
                               ELSE preserve_only_gdpr_metadata(r)

=============================================================================
