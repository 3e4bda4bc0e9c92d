------------------------------ MODULE Formats -------------------------------
(***************************************************************************)
(* Every text that one part of the system writes and another one reads: a  *)
(* query and its purposes, a request to the store, a stored value, a log   *)
(* entry and the name of a log file.  None of the writers escapes the      *)
(* delimiters that its reader looks for.  The properties say exactly which *)
(* contents survive, and what becomes of a query that arrives cut.         *)
(*                                                                         *)
(* One text is under way: an item is chosen, written, perhaps cut, and     *)
(* read.  A stored value is written again and again.                       *)
(***************************************************************************)
EXTENDS QueryText, StoreMessages, LogText, ValueText

CONSTANTS
    Elements,     \* what the texts are made of
    QueryItems,   \* [cmd, key, value, opts] that clients ask for
    PurposeItems, \* sequences of purpose names
    RequestItems, \* [cipher, cmd, key, value] for the store
    EntryItems,   \* log entries
    KeyItems,     \* keys that get a log file
    Fields,       \* metadata of insertions
    Changes,      \* metadata that putm changes: functions on some fields
    Values,       \* client values
    LogsDir,
    None,
    MaxWrites     \* bound: writes of a pair

ASSUME FormatsAssumption ==
    /\ MaxWrites \in Nat
    /\ None \notin {"query", "purposes", "request", "entry", "file"}

\* The commands on a pair, and options with a value that their reader takes; numbers fit
\* into an int.
Commands == {<<"GET">>, <<"PUT">>, <<"DELETE">>, << "GET", "M" >>, << "PUT", "M" >>}

OptionFits(o) ==
    /\ "&" \notin ToSet(o.value)
    /\ o.name \in NumberOptions => IsNumber(o.value)
    /\ o.name \in BoolOptions => IsBool(o.value)

ASSUME QueryAssumption ==
    /\ QueryItems \subseteq [cmd : Commands, key : Seq(Elements), value : Seq(Elements),
                             opts : Seq([name : Options, value : Seq(Elements)])]
    /\ \A it \in QueryItems : \A o \in ToSet(it.opts) : OptionFits(o)
    /\ PurposeItems \subseteq Seq(Seq(Elements))

ASSUME RequestAssumption ==
    RequestItems \subseteq [cipher : Elements, cmd : valid_query_types,
                           key : Seq(Elements), value : Seq(Elements)]

ASSUME LogAssumption ==
    /\ EntryItems \subseteq [timestamp : Elements, user : Seq(Elements), oper : DOMAIN operation,
                             valid : BOOLEAN, new_value : Seq(Elements)]
    /\ KeyItems \subseteq Seq(Elements)
    /\ LogsDir \in Seq(Elements)

\* Purposes, objections and the expiration are written as numbers.  putm never changes
\* encr, and its expiration, a sum, is not among the changes.
ASSUME ValueAssumption ==
    /\ Fields \subseteq [ToSet(PrefixFields) -> Seq(Elements)]
    /\ \A fields \in Fields : \A f \in {"pur", "obj", "exp"} : IsNumber(fields[f])
    /\ \A given \in Changes :
          /\ DOMAIN given \subseteq {"usr", "pur", "obj", "org", "shr", "log"}
          /\ \A f \in DOMAIN given :
                given[f] \in Seq(Elements) /\ (f \in {"pur", "obj"} => IsNumber(given[f]))
    /\ Values \subseteq Seq(Elements)
    /\ None \notin Seq(Elements)
    /\ None \notin [meta : [ToSet(PrefixFields) -> Seq(Elements \cup {Bar})],
                    val  : Seq(Seq(Elements \cup {Bar}))]

VARIABLES
    format,  \* which text is under way, or None
    item,    \* what was to be written
    text,    \* the text
    cut,     \* whether it lost its end
    result,  \* what was read from it
    pair     \* a stored value: the flat text, the record of GDPRPolicy that stands
             \* for it, the value that was put last, and what happened since

vars == << format, item, text, cut, result, pair >>

Init ==
    /\ format = None
    /\ item = None
    /\ text = None
    /\ cut = FALSE
    /\ result = None
    /\ pair = None

\* A text is written and stays so until it is read.
Write(name, it, s) ==
    /\ format = None
    /\ pair = None
    /\ format' = name
    /\ item' = it
    /\ text' = s
    /\ UNCHANGED << cut, result, pair >>

Read(name, r) ==
    /\ format = name
    /\ result = None
    /\ result' = r
    /\ UNCHANGED << format, item, text, cut, pair >>

-----------------------------------------------------------------------------
(* Queries.                                                                *)

Quotes(s) == << Quote >> \o s \o << Quote >>

option_text(o) == << "&" >> \o o.name \o << "(" >> \o Quotes(o.value) \o << ")" >>

\* The text that a client sends: query(CMD("key","value"))&option("value")...
query_text(it) ==
    LET args == IF it.cmd = <<"PUT">> THEN Quotes(it.key) \o << "," >> \o Quotes(it.value)
                ELSE Quotes(it.key)
    IN << "query", "(" >> \o it.cmd \o << "(" >> \o args \o << ")", ")" >>
         \o FlattenSeq([i \in DOMAIN it.opts |-> option_text(it.opts[i])])

WriteQuery == \E it \in QueryItems : Write("query", it, query_text(it))

\* The client goes away while it sends, see NativeController.
CutQuery ==
    /\ format = "query"
    /\ result = None
    /\ ~cut
    /\ text' \in Cuts(text)
    /\ cut' = TRUE
    /\ UNCHANGED << format, item, result, pair >>

ReadQuery == Read("query", Parse(text))

\* The names of purposes in an option, and the bitmap that is made of them.
purposes_text(names) ==
    FlattenSeq([i \in DOMAIN names |-> (IF i = 1 THEN << >> ELSE << "," >>) \o names[i]])

WritePurposes == \E names \in PurposeItems : Write("purposes", names, purposes_text(names))

ReadPurposes == Read("purposes", set_bitmap(split_comma_string(text)))

-----------------------------------------------------------------------------
(* Requests to the store.                                                  *)

WriteRequest ==
    \E it \in RequestItems :
        Write("request", it, serialize(request(it.cipher, it.cmd, it.key, it.value)))

ReadRequest == Read("request", deserialize(text))

-----------------------------------------------------------------------------
(* Log entries and log files.                                              *)

WriteEntry == \E e \in EntryItems : Write("entry", e, encode_log_entry(e))

ReadEntry == Read("entry", decode_log_entry(text))

NameFile == \E k \in KeyItems : Write("file", k, log_file_path(LogsDir, k))

ReadName == Read("file", extract_key_from_filename(text))

-----------------------------------------------------------------------------
(* A stored value.  A handler filters what it read before it rewrites it.   *)

Policy == INSTANCE GDPRPolicy WITH
    Users <- {}, Purposes <- {}, Origins <- {}, Atoms <- {}, RegulatorKey <- None,
    EmptyUser <- None

\* The record that GDPRPolicy keeps for a text.
RecordOf(s) ==
    LET tokens == split(s, Bar)
    IN [meta |-> filter_fields(s), val |-> SubSeq(tokens, max_gdpr_field_guard, Len(tokens))]

PutQuery(v) == [value |-> split(v, Bar)]
PutmQuery(given) ==
    [f \in ToSet(PrefixFields) |-> IF f \in DOMAIN given THEN given[f] ELSE None]

Barred(s) == Bar \in ToSet(s)

Insert ==
    /\ format = None
    /\ pair = None
    /\ \E fields \in Fields, v \in Values :
          pair' = [text   |-> insert_value(fields, v),
                   record |-> [meta |-> fields, val |-> split(v, Bar)],
                   last   |-> v,
                   barred |-> \E f \in DOMAIN fields : Barred(fields[f]),
                   glued  |-> FALSE,
                   writes |-> 1]
    /\ UNCHANGED << format, item, text, cut, result >>

Update ==
    /\ pair # None
    /\ ~filter_throws(pair.text)
    /\ pair.writes < MaxWrites
    /\ \E v \in Values :
          pair' = [pair EXCEPT !.text = update_value(@, v),
                               !.record = Policy!rewrite_update(@, PutQuery(v)),
                               !.last = v, !.glued = FALSE, !.writes = @ + 1]
    /\ UNCHANGED << format, item, text, cut, result >>

\* The ninth token, if a '|' ends it, is joined to what follows.
Joins(s) == Len(Ended(s)) = max_gdpr_field_guard /\ Last(Ended(s)) # << >>

Putm ==
    /\ pair # None
    /\ ~filter_throws(pair.text)
    /\ pair.writes < MaxWrites
    /\ \E given \in Changes :
          pair' = [pair EXCEPT !.text = putm_value(@, given),
                               !.record = Policy!rewrite_putm(@, PutmQuery(given), 0),
                               !.barred = @ \/ \E f \in DOMAIN given : Barred(given[f]),
                               !.glued = @ \/ Joins(pair.text),
                               !.writes = @ + 1]
    /\ UNCHANGED << format, item, text, cut, result >>

-----------------------------------------------------------------------------

Next ==
    \/ WriteQuery \/ CutQuery \/ ReadQuery
    \/ WritePurposes \/ ReadPurposes
    \/ WriteRequest \/ ReadRequest
    \/ WriteEntry \/ ReadEntry
    \/ NameFile \/ ReadName
    \/ Insert \/ Update \/ Putm

Spec == Init /\ [][Next]_vars

-----------------------------------------------------------------------------
(* Properties.                                                             *)

HasRead(name) == format = name /\ result # None

Without(s, delimiters) == ToSet(s) \cap delimiters = {}

(***************************************************************************)
(* A whole query is read as the client meant it, its options included, if  *)
(* and only if neither key nor value contains a quote or an '&', every     *)
(* number is made of digits only and every purpose that counts is known.   *)
(* Of an option that is given twice the last one counts, of a condition on *)
(* purposes each one: the reader keeps that order and forgets nothing.     *)
(***************************************************************************)
Names(v) == ToSet(split_comma_string(v))

MeantBy(opts, o) ==
    LET given == {i \in DOMAIN opts : opts[i].name = o}
        last  == {i \in given : \A j \in given : j <= i}
    IN IF given = {} THEN {}
       ELSE IF o \in CondPurposeOptions THEN {UNION {Names(opts[j].value) : j \in given}}
       ELSE {IF o \in PurposeOptions THEN Names(opts[i].value) ELSE opts[i].value : i \in last}

Meant(it) ==
    [cmd   |-> tolower(it.cmd),
     key   |-> it.key,
     value |-> IF it.cmd = <<"PUT">> THEN it.value ELSE << >>,
     opts  |-> [o \in Options |-> MeantBy(it.opts, o)]]

Readable(it) ==
    \A o \in Options : \A m \in MeantBy(it.opts, o) :
        /\ o \in NumberOptions => ToSet(m) \subseteq Digits
        /\ o \in PurposeOptions \cup CondPurposeOptions => m \subseteq pur_index

QueryReadsBack ==
    HasRead("query") /\ ~cut =>
        LET asked == [cmd |-> result.cmd, key |-> result.key, value |-> result.value,
                      opts |-> result.opts]
        IN (~result.throws /\ asked = Meant(item))
             <=> /\ Without(item.key, {Quote, "&"})
                 /\ Without(Meant(item).value, {Quote, "&"})
                 /\ Readable(item)

(***************************************************************************)
(* A query of which only the beginning arrived throws, or a part of it is  *)
(* missing: its command is the beginning of the one that was sent, key and *)
(* value are whole or empty, a text option is whole, missing or cut (or a  *)
(* part of its name, if the cut is behind it: objOrigIs may read as an     *)
(* objOrig that nobody gave), a number may have lost digits, and a purpose *)
(* that was cut is one with fewer digits or purpose0.  It is never a query *)
(* for another key and never puts another value than "".                   *)
(***************************************************************************)
Handled == {<<"get">>, <<"put">>, <<"delete">>, << "get", "m" >>, << "put", "m" >>,
            << "get", "logs" >>, <<"exit">>}

Plainly(it) == Without(it.key \o it.value, {Quote, "&"})

Given(it, name) == {o.value : o \in {p \in ToSet(it.opts) : p.name = name}}

CutQueryIsShorter ==
    HasRead("query") /\ cut /\ Plainly(item) /\ ~result.throws =>
        /\ result.cmd \in Handled => IsPrefix(result.cmd, Meant(item).cmd)
        /\ result.key \in {item.key, << >>}
        /\ result.value \in {Meant(item).value, << >>}
        /\ \A o \in TextOptions : \A v \in result.opts[o] :
              \/ v \in Given(item, o)
              \/ \E w \in Given(item, o) : Front(v) = SubSeq(w, 1, Len(v) - 1)
              \/ v = strip_quotes(o) /\ \E p \in ToSet(item.opts) : IsPrefix(o, p.name)
        /\ \A o \in NumberOptions : \A v \in result.opts[o] :
              \E w \in Given(item, o) : IsPrefix(v, w)
        /\ \A o \in PurposeOptions : \A v \in result.opts[o] :
              \A x \in v \ {<< "purpose", "0" >>} :
                 \E w \in Given(item, o) : \E n \in ToSet(split_comma_string(w)) : IsPrefix(x, n)

(***************************************************************************)
(* The purposes of a pair are the ones that were named if and only if all  *)
(* of them are known; an unknown or an empty name becomes purpose0.        *)
(***************************************************************************)
PurposesReadBack ==
    HasRead("purposes") => (result = ToSet(item) <=> item # << >> /\ ToSet(item) \subseteq pur_index)

(***************************************************************************)
(* A request reaches the store as it was sent if and only if its key has   *)
(* no space and is not empty (a put's may be), a put has a value, and it   *)
(* is no putm of an unencrypted build, whose value is dropped.             *)
(***************************************************************************)
RequestReadsBack ==
    HasRead("request") =>
        LET sent == request(item.cipher, item.cmd, item.key, item.value)
        IN result = sent <=> /\ Without(sent.key, {Space})
                             /\ sent.command = "put" => sent.value # << >>
                             /\ sent.command # "put" => sent.key # << >> /\ sent.value = << >>

(***************************************************************************)
(* The regulator sees the user, the operation, its result and the value of *)
(* an entry as they were logged if and only if the user has no ','.        *)
(***************************************************************************)
EntryReadsBack ==
    HasRead("entry") => (result = item <=> Without(item.user, {Comma}))

(***************************************************************************)
(* A log file is found again under the key it was made for if and only if  *)
(* the key contains neither the extension nor a '/'.                       *)
(***************************************************************************)
FileKeyReadsBack ==
    HasRead("file") => (result = item <=> Without(item, {log_file_extension, Slash}))

(***************************************************************************)
(* The record that GDPRPolicy keeps is what the code reads from the flat   *)
(* text, after any sequence of writes of metadata without a '|', and never *)
(* while its metadata contain one.  In the first case the filter does not  *)
(* throw, and removing the value or the metadata and the regulator's       *)
(* format come to the same too.                                            *)
(***************************************************************************)
ViewOf(s) ==
    IF Len(Ended(s)) >= metadata_prefix_fields THEN RecordOf(s)
    ELSE [meta |-> None, val |-> split(s, Bar)]

RecordsAreExact ==
    pair # None =>
        /\ (\E f \in DOMAIN pair.record.meta : Barred(pair.record.meta[f]))
              => RecordOf(pair.text) # pair.record
        /\ ~pair.barred =>
              /\ RecordOf(pair.text) = pair.record
              /\ ~filter_throws(pair.text)
              /\ ViewOf(remove_metadata(pair.text)) = Policy!remove_gdpr_metadata(pair.record)
              /\ ViewOf(preserve_only_metadata(pair.text))
                   = Policy!preserve_only_gdpr_metadata(pair.record)
              /\ fmt_throws(pair.text) <=> Policy!metadata_fmt_throws(pair.record)

(***************************************************************************)
(* A get returns the value that was put last if and only if this value is  *)
(* not empty, has no '|', and no putm has since joined it to a remnant of  *)
(* an older one.                                                           *)
(***************************************************************************)
ValueReadsBack ==
    pair # None =>
        (remove_metadata(pair.text) = pair.last
           <=> pair.last # << >> /\ ~Barred(pair.last) /\ ~pair.glued)

=============================================================================
