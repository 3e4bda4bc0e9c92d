--------------------------- MODULE StoreMessages ----------------------------
(***************************************************************************)
(* What travels between the controller and the rocksdb server, message.hpp *)
(* and rocksdb_proxy.hpp, and the encryption around it, kv_client.hpp and  *)
(* cipher_engine.hpp.                                                      *)
(*                                                                         *)
(* A request is the text "command key value", a response "1data" or "0".   *)
(* Keys and values are texts that may contain the space and be empty.      *)
(***************************************************************************)
EXTENDS Text, Functions, TLC

Space == " "

\* query_message
Message(cmd, key, value) == [command |-> cmd, key |-> key, value |-> value, is_valid |-> TRUE]
Invalid == [command |-> "invalid", key |-> << >>, value |-> << >>, is_valid |-> FALSE]

valid_query_types == {"get", "put", "del", "getm", "putm"}

serialize(m) ==
    << m.command, Space >> \o m.key \o (IF m.value = << >> THEN << >> ELSE << Space >> \o m.value)

\* Mutant: putm carries its value, as put does.
DeserializePutm(raw) ==
    LET first_space == find(raw, Space, 1)
        key_end     == find(raw, Space, first_space + 1)
    IN IF first_space = NPos \/ first_space >= Len(raw) THEN Invalid
       ELSE Message(raw[1], between(raw, first_space + 1, key_end),
                    IF raw[1] \in {"put", "putm"} THEN SubSeq(raw, key_end + 1, Len(raw)) ELSE << >>)

\* Commands are one element.  Only put has a value; key_end + 1 is the start of
\* the text if no value follows the key, so that the whole text is taken for it.
deserialize(raw) ==
    LET first_space == find(raw, Space, 1)
        key_end     == find(raw, Space, first_space + 1)
        command     == between(raw, 1, first_space)
    IN IF \/ first_space = NPos
          \/ command \notin {<< c >> : c \in valid_query_types}
          \/ first_space >= Len(raw)
          \/ raw[1] = "put" /\ key_end >= Len(raw)
       THEN Invalid
       ELSE Message(raw[1], between(raw, first_space + 1, key_end),
                    IF raw[1] = "put" THEN SubSeq(raw, key_end + 1, Len(raw)) ELSE << >>)

\* response_message
Response(success, data) == [is_success |-> success, data |-> data]
serialize_response(r) == << IF r.is_success THEN "1" ELSE "0" >> \o r.data
deserialize_response(raw) ==
    IF raw = << >> \/ raw[1] \notin {"0", "1"} THEN Response(FALSE, << >>)
    ELSE Response(raw[1] = "1", Tail(raw))

-----------------------------------------------------------------------------
(* rocksdb_proxy: db is a function from the keys that exist to their values.  *)
(* A request that fails changes nothing; ok is what rocksdb makes of one.     *)

\* The database after the request.
execute(db, m, ok) ==
    IF ~m.is_valid \/ ~ok THEN db
    ELSE CASE m.command \in {"get", "getm"} -> db
           [] m.command \in {"put", "putm"} ->
                  [k \in DOMAIN db \cup {m.key} |-> IF k = m.key THEN m.value ELSE db[k]]
           [] OTHER -> Restrict(db, DOMAIN db \ {m.key})

\* Mutant: the status of a write is not looked at.
OutcomeIgnoresStatus(db, m, ok) ==
    IF ~m.is_valid THEN Response(FALSE, << >>)
    ELSE IF m.command \notin {"get", "getm"} THEN Response(TRUE, << >>)
    ELSE IF ok /\ m.key \in DOMAIN db THEN Response(TRUE, db[m.key]) ELSE Response(FALSE, << >>)

\* What the server answers.
outcome(db, m, ok) ==
    IF ~m.is_valid \/ ~ok THEN Response(FALSE, << >>)
    ELSE IF m.command \notin {"get", "getm"} THEN Response(TRUE, << >>)
    ELSE IF m.key \in DOMAIN db THEN Response(TRUE, db[m.key]) ELSE Response(FALSE, << >>)

-----------------------------------------------------------------------------
(* kv_client: a cipher text starts with what only its key opens; it is never  *)
(* empty.  cipher is the key of the process, or Plain in a build without      *)
(* ENCRYPTION_ENABLED.                                                        *)

Plain == "plain"

encrypt(cipher, v) == IF cipher = Plain THEN v ELSE << cipher >> \o v

\* decrypt fails on what another key has sealed.
Decryptable(cipher, v) == cipher = Plain \/ (v # << >> /\ v[1] = cipher)
decrypt(cipher, v) == IF cipher = Plain THEN v ELSE Tail(v)

\* The requests that gdpr_get, gdpr_put, gdpr_del, gdpr_getm and gdpr_putm send:
\* an encrypted putm is a put.
request(cipher, cmd, key, value) ==
    CASE cmd \in {"put", "putm"} ->
             Message(IF cipher = Plain THEN cmd ELSE "put", key, encrypt(cipher, value))
      [] OTHER -> Message(cmd, key, << >>)

\* The optional<string> that gdpr_get returns: the pair's value, if it can be read.
retrieved(cipher, r) == r.is_success /\ Decryptable(cipher, r.data)

=============================================================================
