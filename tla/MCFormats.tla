----------------------------- MODULE MCFormats ------------------------------
(***************************************************************************)
(* An instance of Formats for TLC: short texts over letters and the        *)
(* delimiters of each format.                                              *)
(***************************************************************************)
EXTENDS Formats

MCElements ==
    {"a", "b", "o", "s", "t", "u", "v", "w", "purpose", "research", "true", "logs", "key", Plain}
    \cup SingleChars \cup {Space, Comma, Slash, log_file_extension, Bar}

\* Texts of at most n elements.
TextsOver(chars, n) == UNION {[1..i -> chars] : i \in 0..n}

Option(name, value) == [name |-> name, value |-> value]

\* Every pair of options, the same one twice included.
MCOptions ==
    {Option(<<"sessionKey">>, <<"u">>), Option(<<"sessionKey">>, << "v" >>),
     Option(<<"objExp">>, << "1", "2" >>), Option(<< "objExp", "Is" >>, << "1", "a" >>),
     Option(<<"monitor">>, <<"true">>), Option(<<"objObjections">>, << "purpose", "6", "4" >>),
     Option(<<"objPur">>, << "purpose", "1", ",", "purpose", "1", "2" >>),
     Option(<< "objPur", "Is" >>, << "purpose", "1" >>), Option(<< "objPur", "Is" >>, << "purpose", "2" >>),
     Option(<< "objPur", "Is" >>, << "purpose", "0", ",", "research" >>)}

MCOptionItems ==
    [cmd : {<<"GET">>}, key : {<<"a">>}, value : {<< >>}, opts : UNION {[1..n -> MCOptions] : n \in 0..2}]

MCQueryItems ==
    [cmd   : {<<"GET">>, <<"PUT">>, << "GET", "M" >>, <<"DELETE">>},
     key   : TextsOver({"a", Quote, "&"}, 2),
     value : {<< >>, <<"b">>, << "b", "," , "b" >>, << Quote, "b" >>, << "b", Quote >>,
              << Quote, "b", Quote >>, << "b", "&" >>, << "(", ")" >>},
     opts  : {<< >>,
              << Option(<<"sessionKey">>, << "u", "v" >>), Option(<<"objPur">>, << "purpose", "1" >>) >>,
              << Option(<<"objPur">>, << "purpose", "1", "2", ",", "purpose", "6", "4" >>),
                 Option(<<"sessionKey">>, <<"u">>), Option(<<"objExp">>, << "1", "2" >>),
                 Option(<< "objOrig", "Is" >>, << "o" >>) >>}]
    \cup MCOptionItems

MCPurposeItems ==
    UNION {[1..n -> {<< "purpose", "0" >>, << "purpose", "1" >>, << "purpose", "1", "2" >>,
                     << "purpose", "6", "4" >>, << >>, <<"research">>}] : n \in 0..2}

MCRequestItems ==
    [cipher : {Plain, "key"}, cmd : valid_query_types,
     key : TextsOver({"a", Space}, 2), value : TextsOver({"a", Space}, 2)]

MCEntryItems ==
    [timestamp : {"t", Comma}, user : TextsOver({"u", Comma}, 2),
     oper : {"get", "put", "delete", "getm", "putm"}, valid : BOOLEAN,
     new_value : TextsOver({"v", Comma}, 2)]

MCKeyItems == TextsOver({"a", Slash, log_file_extension}, 3)
MCLogsDir == << Slash, "logs", log_file_extension >>

\* A user or an origin may contain the delimiter.
MCFields ==
    {[usr |-> u, encr |-> <<"1">>, pur |-> <<"2">>, obj |-> <<"0">>, org |-> o, exp |-> <<"0">>,
      shr |-> << >>, log |-> <<"0">>] : u \in {<<"u">>, << "u", Bar, "1" >>}, o \in {<<"o">>, <<"1">>, << Bar >>}}
MCChanges == {<< >>, [usr |-> <<"w">>], [log |-> <<"1">>, shr |-> << "s", Bar >>]}
MCValues == TextsOver({"a", Bar}, 2) \cup {<< "a", Bar, "b" >>}

=============================================================================
