----------------------------- MODULE GDPRPolicy -----------------------------
(***************************************************************************)
(* The pure part of the controller: the GDPR metadata kept in front of     *)
(* every stored value (gdpr_metadata.hpp), the checks that compare it with *)
(* a query and the session's default policy (gdpr_filter.cpp), the three   *)
(* ways in which a new value is put together (query_rewriter.cpp), the     *)
(* decision to log (logging/monitor.hpp) and the regulator's view of a     *)
(* logged value (log_common.hpp).                                          *)
(*                                                                         *)
(* A stored value is the string                                            *)
(*     usr|encr|pur|obj|org|exp|shr|log|value                              *)
(* and is modelled by a record [meta, val]: meta holds the eight prefix    *)
(* fields, val the sequence of the '|'-separated tokens that follow them.  *)
(* Client values may contain '|' or be empty, and the code locates fields  *)
(* by searching for '|', so val is kept as tokens: a plain value has one   *)
(* token, the empty value is << <<>> >>, and "a|b" is << <<a>>, <<b>> >>.  *)
(* A token is a sequence of atoms so that gluing two tokens is exact.      *)
(***************************************************************************)
EXTENDS Integers, SequencesExt

CONSTANTS
    Users,        \* session keys
    EmptyUser,    \* the session key ""
    Purposes,     \* the purposes of pur_index, one bit each
    Origins,      \* values of the origin field
    Atoms,        \* what values are made of
    RegulatorKey, \* regulator_key, pinned in gdpr_regulator.hpp
    None          \* std::nullopt: no such pair, or predicate not in the query

-----------------------------------------------------------------------------

Tokens == Seq(Atoms)

\* A client value or a stored one after the metadata: at least one token.
Vals == {v \in Seq(Tokens) : v # << >>}

Metadata ==
    [usr : Users, encr : BOOLEAN, pur : SUBSET Purposes, obj : SUBSET Purposes,
     org : Origins, exp : Int, shr : SUBSET Users, log : BOOLEAN]

Records == [meta : Metadata, val : Vals]

(***************************************************************************)
(* default_policy: what a session falls back on.  exp is in seconds from   *)
(* the moment a pair is written, 0 meaning that the pair never expires.    *)
(***************************************************************************)
DefaultPolicies ==
    [usr : Users, encr : BOOLEAN, pur : SUBSET Purposes, obj : SUBSET Purposes,
     org : Origins, exp : Int, shr : SUBSET Users, log : BOOLEAN]

Optional(S) == S \cup {None}

(***************************************************************************)
(* query: a parsed query.  The fields usr .. log are the std::optional     *)
(* predicates sessionKey, objPur, objObjections, objOrig, objExp, objShare *)
(* and monitor; cpur is objPurIs, the empty set when it is not given.  The *)
(* other ...Is predicates are parsed and read by no handler.               *)
(***************************************************************************)
Queries(Keys, Commands) ==
    [cmd : Commands, key : Keys, value : Vals, usr : Optional(Users),
     pur : Optional(SUBSET Purposes), obj : Optional(SUBSET Purposes),
     org : Optional(Origins), exp : Optional(Int), shr : Optional(SUBSET Users),
     log : Optional(BOOLEAN), cpur : SUBSET Purposes]

value_or(opt, default) == IF opt = None THEN default ELSE opt

-----------------------------------------------------------------------------
(* gdpr_filter: the checks on the metadata of a retrieved value.           *)

\* The session acts as the user named by the query, else by its policy.
session_key(q, p) == value_or(q.usr, p.usr)

\* The query's purposes override the defaults when any is given.
query_purposes(q, p) == IF q.cpur # {} THEN q.cpur ELSE p.pur

validate_session_key(m, q, p) ==
    \/ session_key(q, p) = m.usr
    \/ session_key(q, p) \in m.shr
    \/ m.shr = {} /\ session_key(q, p) = EmptyUser \* "" is a part of ""

validate_pur(m, q, p) == query_purposes(q, p) \subseteq m.pur

validate_obj(m, q, p) == query_purposes(q, p) \cap m.obj = {}

validate_exp_time(m, now) == m.exp = 0 \/ now <= m.exp

\* Mutant: the expiration check is left to a background task.
ValidateNoExpiry(r, q, p, now) ==
    /\ r # None
    /\ validate_session_key(r.meta, q, p)
    /\ validate_pur(r.meta, q, p)
    /\ validate_obj(r.meta, q, p)

\* r is the retrieved value or None.
validate(r, q, p, now) ==
    /\ r # None
    /\ validate_session_key(r.meta, q, p)
    /\ validate_pur(r.meta, q, p)
    /\ validate_obj(r.meta, q, p)
    /\ validate_exp_time(r.meta, now)

check_monitoring(r) == r # None /\ r.meta.log

validate_reg_key(q, p) == session_key(q, p) = RegulatorKey

-----------------------------------------------------------------------------
(* query_rewriter and the conversions of gdpr_metadata.hpp.                *)

get_expiration_time(secs, now) == IF secs = 0 THEN 0 ELSE now + secs

\* First insertion of a pair: query predicates, else the default policy.
rewrite_insert(q, p, now) ==
    [meta |-> [usr  |-> session_key(q, p),
               encr |-> p.encr,
               pur  |-> value_or(q.pur, p.pur),
               obj  |-> value_or(q.obj, p.obj),
               org  |-> value_or(q.org, p.org),
               exp  |-> get_expiration_time(value_or(q.exp, p.exp), now),
               shr  |-> value_or(q.shr, p.shr),
               log  |-> value_or(q.log, p.log)],
     val  |-> q.value]

\* Mutant: the update is rebuilt from the query as an insertion would be.
UpdateFromQuery(r, q) ==
    [meta |-> [r.meta EXCEPT !.shr = value_or(q.shr, @), !.log = value_or(q.log, @)],
     val  |-> q.value]

\* Update: everything up to the LAST '|' is kept, so that all but the last
\* token of an old value stay in front of the new one.
rewrite_update(r, q) == [meta |-> r.meta, val |-> Front(r.val) \o q.value]

\* putm copies tokens one by one and drops the delimiter of the ninth: the
\* first two tokens of a value that contains '|' are glued together.
glue_ninth(v) ==
    IF Len(v) = 1 THEN v ELSE << v[1] \o v[2] >> \o SubSeq(v, 3, Len(v))

\* Mutant: the expiration predicate is copied without a default.
PutmCopiesExpiration(r, q, now) ==
    [meta |-> [r.meta EXCEPT !.exp = q.exp], val |-> glue_ninth(r.val)]

rewrite_putm(r, q, now) ==
    [meta |-> [usr  |-> value_or(q.usr, r.meta.usr),
               encr |-> r.meta.encr,
               pur  |-> value_or(q.pur, r.meta.pur),
               obj  |-> value_or(q.obj, r.meta.obj),
               org  |-> value_or(q.org, r.meta.org),
               exp  |-> IF q.exp = None THEN r.meta.exp
                        ELSE get_expiration_time(q.exp, now),
               shr  |-> value_or(q.shr, r.meta.shr),
               log  |-> value_or(q.log, r.meta.log)],
     val  |-> glue_ninth(r.val)]

(***************************************************************************)
(* What a client sees of a pair: [meta, val], with meta = None when the    *)
(* metadata were cut off.  Both conversions search for the last '|' and    *)
(* return the string unchanged when nothing follows it.                    *)
(***************************************************************************)
remove_gdpr_metadata(r) ==
    IF Last(r.val) # << >> THEN [meta |-> None, val |-> << Last(r.val) >>] ELSE r

preserve_only_gdpr_metadata(r) ==
    IF Last(r.val) # << >>
    THEN [meta |-> r.meta, val |-> Front(r.val) \o << << >> >>] ELSE r

Views == [meta : Optional(Metadata), val : Vals]

-----------------------------------------------------------------------------
(* logging: the decision to log, and the decoding of a logged value.       *)

\* The generic gdpr_monitor looks at the stored metadata, the one of a first
\* insertion at the query and the default policy.
monitor_needed(r, q, p) ==
    IF q.cmd = "put" /\ r = None THEN value_or(q.log, p.log) ELSE check_monitoring(r)

\* gdpr_metadata_fmt wants nine '|' in a logged value and throws otherwise;
\* a stored value has eight plus the ones of the client's value.
metadata_fmt_throws(new) == new # None /\ Len(new.val) < 2

=============================================================================
