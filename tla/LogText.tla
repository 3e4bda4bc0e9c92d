------------------------------ MODULE LogText -------------------------------
(***************************************************************************)
(* The text of a log entry and the name of a log file, logging/logger.hpp  *)
(* and logging/log_common.hpp.  An entry is                                *)
(*     timestamp,user,operation and result,new value                       *)
(* where the timestamp has a fixed width and operation and result share a  *)
(* byte.  File names have "/" and the extension as elements.               *)
(***************************************************************************)
EXTENDS Text

Comma == ","

\* enum operation.  getLogs is here, and the commands of queries are lower case.
operation == [get |-> 1, put |-> 2, delete |-> 3, getm |-> 4, putm |-> 5, getLogs |-> 6]

convert_operation_to_enum(oper) == IF oper \in DOMAIN operation THEN operation[oper] ELSE 0

convert_enum_to_operation(n) ==
    IF n \in Range(operation) THEN CHOOSE oper \in DOMAIN operation : operation[oper] = n
    ELSE "invalid_op"

\* The character with a code.  14 stands for the code of any other character, where
\* an entry is decoded from the wrong place: no property looks at the operation then.
Char(n) ==
    << "0", "1", "2", "3", "4", "5", "6", "7", "8", "9", "10", "11", "12", "13" >>[n + 1]
Code(ch) == IF \E n \in 0..13 : ch = Char(n) THEN CHOOSE n \in 0..13 : ch = Char(n) ELSE 14

\* log_encoded_query
encode_log_entry(e) ==
    << e.timestamp, Comma >> \o e.user
      \o << Comma, Char(2 * convert_operation_to_enum(e.oper) + (IF e.valid THEN 1 ELSE 0)), Comma >>
      \o e.new_value

\* Mutant: the new value ends at a delimiter, as the other fields do.
DecodeToDelimiter(text) ==
    LET user_end == find(text, Comma, 3)
        byte     == Code(text[user_end + 1])
        byte_end == find(text, Comma, user_end + 1)
    IN [timestamp |-> text[1],
        user      |-> between(text, 3, user_end),
        oper      |-> convert_enum_to_operation(byte \div 2),
        valid     |-> byte % 2 = 1,
        new_value |-> between(text, byte_end + 1, find(text, Comma, byte_end + 1))]

\* The timestamp is taken by its width; the new value reaches to the end.
decode_log_entry(text) ==
    LET user_end == find(text, Comma, 3)
        byte     == Code(text[user_end + 1])
        byte_end == find(text, Comma, user_end + 1)
    IN [timestamp |-> text[1],
        user      |-> between(text, 3, user_end),
        oper      |-> convert_enum_to_operation(byte \div 2),
        valid     |-> byte % 2 = 1,
        new_value |-> SubSeq(text, byte_end + 1, Len(text))]

-----------------------------------------------------------------------------

Slash == "/"
log_file_extension == ".log"

log_file_path(dir, key) == dir \o << Slash >> \o key \o << log_file_extension >>

\* Mutant: the last extension ends the key.
ExtractToLastExtension(filename) ==
    between(filename, rfind(filename, Slash) + 1, rfind(filename, log_file_extension))

extract_key_from_filename(filename) ==
    LET start_pos == rfind(filename, Slash) + 1
    IN between(filename, start_pos, find(filename, log_file_extension, start_pos))

=============================================================================
