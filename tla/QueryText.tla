----------------------------- MODULE QueryText ------------------------------
(***************************************************************************)
(* The parser of query texts, query.cpp, with the conversions of           *)
(* gdpr_metadata.hpp that it uses.  A client writes                        *)
(*     query(PUT("key","value"))&sessionKey("user")&objPur("purpose1")     *)
(*                                                                         *)
(* Delimiters and digits are elements of their own; so are the parts of    *)
(* which longer command and option names are made, because a text that is  *)
(* cut between them reads as the shorter name.  Fragment stands for a      *)
(* proper part of a word.                                                  *)
(*                                                                         *)
(* A std::optional is a set of at most one value.                          *)
(***************************************************************************)
EXTENDS Text

Quote == "\""
Digits == {"0", "1", "2", "3", "4", "5", "6", "7", "8", "9"}
SingleChars == Digits \cup {Quote, "(", ")", ",", "&"}
Fragment == "fragment"

\* Every way in which a message can be cut short.
Cuts(t) ==
    {SubSeq(t, 1, n) : n \in 0..(Len(t) - 1)}
    \cup {Append(SubSeq(t, 1, n - 1), Fragment) : n \in {i \in DOMAIN t : t[i] \notin SingleChars}}

-----------------------------------------------------------------------------
(* gdpr_metadata.hpp                                                       *)

\* pur_index: the purposes that have a bit, purpose0 to purpose63.
pur_index ==
    {<< "purpose", d >> : d \in Digits}
    \cup {<< "purpose", d, e >> : d \in {"1", "2", "3", "4", "5"}, e \in Digits}
    \cup {<< "purpose", "6", e >> : e \in {"0", "1", "2", "3"}}

\* Mutant: an unknown name sets no bit.
SetKnownBits(names) == ToSet(names) \cap pur_index

\* operator[] of a map gives an unknown name the index 0.
set_bitmap(names) ==
    {IF n \in pur_index THEN n ELSE << "purpose", "0" >> : n \in ToSet(names)}

split_comma_string(s) == split(s, ",")

\* str_to_bool, for one of the two words; anything else throws.
IsBool(s) == s \in {<<"true">>, <<"false">>}

\* stoi reads the leading digits and throws if there are none.
IsNumber(s) == s # << >> /\ s[1] \in Digits
stoi(s) == SubSeq(s, 1, SelectInSeq(Append(s, "end"), LAMBDA x : x \notin Digits) - 1)

-----------------------------------------------------------------------------
(* query.cpp                                                               *)

TextOptions == {<<"sessionKey">>, <<"objOrig">>, <<"objShare">>,
                << "objOrig", "Is" >>, << "objShare", "Is" >>}
NumberOptions == {<<"objExp">>, << "objExp", "Is" >>}
PurposeOptions == {<<"objPur">>, <<"objObjections">>}
CondPurposeOptions == {<< "objPur", "Is" >>, << "objObjections", "Is" >>}
BoolOptions == {<<"monitor">>, << "monitor", "Is" >>}
Options == TextOptions \cup NumberOptions \cup PurposeOptions \cup CondPurposeOptions
             \cup BoolOptions

\* A query object; throws is set when the constructor does not return.
NewQuery == [cmd |-> << >>, key |-> << >>, value |-> << >>, log_key |-> << >>,
             opts |-> [o \in Options |-> {}], throws |-> FALSE]

Throw(q) == [q EXCEPT !.throws = TRUE]

LowerCase == [GET |-> "get", PUT |-> "put", DELETE |-> "delete", M |-> "m", LOGS |-> "logs"]
tolower(s) == [i \in DOMAIN s |-> IF s[i] \in DOMAIN LowerCase THEN LowerCase[s[i]] ELSE s[i]]

\* What is between two quotes, "" when one of them is missing.
Quoted(s, open, close) ==
    IF open = NPos \/ close = NPos \/ close <= open THEN << >> ELSE between(s, open + 1, close)

\* Mutant: a key without its second quote reaches to the end.
KeyToEnd(s) ==
    LET open == find(s, Quote, 1)
    IN IF open = NPos THEN << >> ELSE between(s, open + 1, find(s, Quote, open + 1))

extract_key(s) ==
    LET open == find(s, Quote, 1) IN Quoted(s, open, find(s, Quote, open + 1))

\* Mutant: the value reaches to the last quote.
ValueToLastQuote(s) ==
    LET first  == find(s, Quote, 1)
        second == find(s, Quote, first + 1)
        third  == find(s, Quote, second + 1)
    IN Quoted(s, third, rfind(s, Quote))

extract_value(s) ==
    LET first  == find(s, Quote, 1)
        second == find(s, Quote, first + 1)
        third  == find(s, Quote, second + 1)
        fourth == find(s, Quote, third + 1)
    IN IF NPos \in {first, second} THEN << >> ELSE Quoted(s, third, fourth)

\* s is what stands in the outer brackets: COMMAND("key","value").
parse_query(q, s) ==
    LET cmd == tolower(between(s, 1, find(s, "(", 1)))
        r   == [q EXCEPT !.cmd = cmd]
    IN CASE cmd = <<"exit">> -> r
         [] cmd = << "get", "logs" >> -> [r EXCEPT !.log_key = extract_key(s)]
         [] cmd = <<"put">> -> [r EXCEPT !.value = extract_value(s), !.key = extract_key(s)]
         [] OTHER -> [r EXCEPT !.key = extract_key(s)]

\* substr(1, length - 2): the first and the last character go, whatever they are.
Part(x) == IF x \in SingleChars THEN << >> ELSE << Fragment >>
strip_quotes(s) ==
    IF Len(s) = 1 THEN Part(s[1]) ELSE Part(Head(s)) \o SubSeq(s, 2, Len(s) - 1) \o Part(Last(s))

\* Mutant: a second condition on purposes replaces the first one.
ParseOptionReplaces(q, option, v) ==
    CASE option \in TextOptions -> [q EXCEPT !.opts[option] = {v}]
      [] option \in NumberOptions /\ IsNumber(v) -> [q EXCEPT !.opts[option] = {stoi(v)}]
      [] option \in PurposeOptions \cup CondPurposeOptions ->
             [q EXCEPT !.opts[option] = {set_bitmap(split_comma_string(v))}]
      [] option \in BoolOptions /\ IsBool(v) -> [q EXCEPT !.opts[option] = {v}]
      [] OTHER -> Throw(q)

\* A later option replaces an earlier one, but conditions on purposes add up.
parse_option(q, option, v) ==
    CASE option \in TextOptions -> [q EXCEPT !.opts[option] = {v}]
      [] option \in NumberOptions /\ IsNumber(v) -> [q EXCEPT !.opts[option] = {stoi(v)}]
      [] option \in PurposeOptions -> [q EXCEPT !.opts[option] = {set_bitmap(split_comma_string(v))}]
      [] option \in CondPurposeOptions ->
             [q EXCEPT !.opts[option] = {set_bitmap(split_comma_string(v)) \cup UNION @}]
      [] option \in BoolOptions /\ IsBool(v) -> [q EXCEPT !.opts[option] = {v}]
      [] OTHER -> Throw(q)

\* substr throws out_of_range on an empty option.
process_predicate(q, s) ==
    LET attr_end == find(s, "(", 1)
        attr     == between(s, 1, attr_end)
        val      == between(s, attr_end + 1, rfind(s, ")"))
    IN IF q.throws THEN q
       ELSE IF attr = <<"query">> THEN parse_query(q, val)
       ELSE IF val = << >> THEN Throw(q)
       ELSE parse_option(q, attr, strip_quotes(val))

\* query(input): the predicates from left to right.
Parse(input) == FoldLeft(process_predicate, NewQuery, split(input, "&"))

=============================================================================
