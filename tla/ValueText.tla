----------------------------- MODULE ValueText ------------------------------
(***************************************************************************)
(* A stored value as the flat string that the code keeps,                  *)
(*     usr|encr|pur|obj|org|exp|shr|log|value                              *)
(* with the searches for '|' that put it together and take it apart.       *)
(* GDPRPolicy states the same operations on records.                       *)
(***************************************************************************)
EXTENDS QueryText

Bar == "|"

\* metadata_fields
PrefixFields == << "usr", "encr", "pur", "obj", "org", "exp", "shr", "log" >>
metadata_prefix_fields == Len(PrefixFields)
max_gdpr_field_guard == metadata_prefix_fields + 1

\* The tokens that a '|' ends, as the loops of the code find them.
Ended(text) == Front(split(text, Bar))

\* The text of tokens that a '|' ends.
Delimited(tokens) == FlattenSeq([i \in DOMAIN tokens |-> tokens[i] \o << Bar >>])

\* query_rewriter for an insertion: fields holds the text of every field.
insert_value(fields, value) ==
    Delimited([i \in DOMAIN PrefixFields |-> fields[PrefixFields[i]]]) \o value

\* Mutant: the metadata end at the eighth '|'.
UpdateAfterPrefix(text, value) ==
    Delimited(SubSeq(Ended(text), 1, metadata_prefix_fields)) \o value

\* query_rewriter for an update: the metadata end at the last '|'.
update_value(text, value) == between(text, 1, rfind(text, Bar)) \o << Bar >> \o value

\* query_rewriter for putm: given maps some fields to their new text.  The ninth
\* token is copied without its '|', and the rest behind it.
putm_value(text, given) ==
    LET tokens == Ended(text)
        n      == IF Len(tokens) < max_gdpr_field_guard THEN Len(tokens) ELSE max_gdpr_field_guard
        Copied(i) == IF i = max_gdpr_field_guard THEN tokens[i]
                     ELSE (IF PrefixFields[i] \in DOMAIN given THEN given[PrefixFields[i]] ELSE tokens[i])
                            \o << Bar >>
        start  == Len(Delimited(SubSeq(tokens, 1, n)))
    IN FlattenSeq([i \in 1..n |-> Copied(i)]) \o SubSeq(text, start + 1, Len(text))

\* The text of every field, if there are as many.
filter_fields(text) ==
    [f \in ToSet(PrefixFields) |-> Ended(text)[SelectInSeq(PrefixFields, LAMBDA g : g = f)]]

\* Purposes and objections are numbers, bitsets as they are, and so is the expiration.
NumbersRead(text) == \A f \in {"pur", "obj", "exp"} : IsNumber(filter_fields(text)[f])

\* The constructor of gdpr_filter throws on fewer fields, and stoull on no number.
filter_throws(text) == Len(Ended(text)) < metadata_prefix_fields \/ ~NumbersRead(text)

\* Mutant: the metadata are what the filter takes for them.
RemovePrefix(text) ==
    SubSeq(text, Len(Delimited(SubSeq(Ended(text), 1, metadata_prefix_fields))) + 1, Len(text))

remove_metadata(text) ==
    LET last == rfind(text, Bar)
    IN IF last # NPos /\ last < Len(text) THEN SubSeq(text, last + 1, Len(text)) ELSE text

preserve_only_metadata(text) ==
    LET last == rfind(text, Bar)
    IN IF last # NPos /\ last < Len(text) THEN SubSeq(text, 1, last) ELSE text

\* gdpr_metadata_fmt reads the same fields and counts nine that end with a '|'.
fmt_throws(text) == Len(Ended(text)) < max_gdpr_field_guard \/ ~NumbersRead(text)

=============================================================================
