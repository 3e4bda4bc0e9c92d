---------------------------- MODULE FormatsProofs ----------------------------
(***************************************************************************)
(* Proofs about Formats, for texts of any length over any elements: which  *)
(* contents survive the way through each of the six formats, and that the  *)
(* records of GDPRPolicy are what the code reads from the flat text of a   *)
(* pair after any sequence of writes.                                      *)
(***************************************************************************)
EXTENDS Formats, TextProofs, FiniteSetTheorems

(***************************************************************************)
(* A text that is under way is the one that the writer made of the item,   *)
(* perhaps cut if it is a query, and what was read is what the reader      *)
(* makes of it.                                                            *)
(***************************************************************************)
QueryInv ==
    /\ format # "query" => ~cut
    /\ format = "query" =>
          /\ item \in QueryItems
          /\ ~cut => text = query_text(item)
          /\ cut => text \in Cuts(query_text(item))
          /\ result # None => result = Parse(text)

PurposeInv ==
    format = "purposes" =>
        /\ item \in PurposeItems
        /\ text = purposes_text(item)
        /\ result # None => result = set_bitmap(split_comma_string(text))

RequestInv ==
    format = "request" =>
        /\ item \in RequestItems
        /\ text = serialize(request(item.cipher, item.cmd, item.key, item.value))
        /\ result # None => result = deserialize(text)

EntryInv ==
    format = "entry" =>
        /\ item \in EntryItems
        /\ text = encode_log_entry(item)
        /\ result # None => result = decode_log_entry(text)

FileInv ==
    format = "file" =>
        /\ item \in KeyItems
        /\ text = log_file_path(LogsDir, item)
        /\ result # None => result = extract_key_from_filename(text)

TextInv ==
    /\ QueryInv /\ PurposeInv /\ RequestInv /\ EntryInv /\ FileInv
    /\ format = None => result = None

LEMMA InitText == Init => TextInv
  BY FormatsAssumption
     DEF Init, TextInv, QueryInv, PurposeInv, RequestInv, EntryInv, FileInv

\* A text is written.
LEMMA WriteText ==
    ASSUME TextInv,
           WriteQuery \/ WritePurposes \/ WriteRequest \/ WriteEntry \/ NameFile
    PROVE  TextInv'
  <1>1. format = None /\ result' = None /\ cut' = cut /\ ~cut
    BY FormatsAssumption
       DEF WriteQuery, WritePurposes, WriteRequest, WriteEntry, NameFile, Write, TextInv, QueryInv
  <1>2. CASE WriteQuery
    <2>1. PICK it \in QueryItems : format' = "query" /\ item' = it /\ text' = query_text(it)
      BY <1>2 DEF WriteQuery, Write
    <2> QED BY <1>1, <2>1, FormatsAssumption
            DEF TextInv, QueryInv, PurposeInv, RequestInv, EntryInv, FileInv
  <1>3. CASE WritePurposes
    <2>1. PICK it \in PurposeItems : format' = "purposes" /\ item' = it /\ text' = purposes_text(it)
      BY <1>3 DEF WritePurposes, Write
    <2> QED BY <1>1, <2>1, FormatsAssumption
            DEF TextInv, QueryInv, PurposeInv, RequestInv, EntryInv, FileInv
  <1>4. CASE WriteRequest
    <2>1. PICK it \in RequestItems :
             /\ format' = "request" /\ item' = it
             /\ text' = serialize(request(it.cipher, it.cmd, it.key, it.value))
      BY <1>4 DEF WriteRequest, Write
    <2> QED BY <1>1, <2>1, FormatsAssumption
            DEF TextInv, QueryInv, PurposeInv, RequestInv, EntryInv, FileInv
  <1>5. CASE WriteEntry
    <2>1. PICK e \in EntryItems : format' = "entry" /\ item' = e /\ text' = encode_log_entry(e)
      BY <1>5 DEF WriteEntry, Write
    <2> QED BY <1>1, <2>1, FormatsAssumption
            DEF TextInv, QueryInv, PurposeInv, RequestInv, EntryInv, FileInv
  <1>6. CASE NameFile
    <2>1. PICK k \in KeyItems : format' = "file" /\ item' = k /\ text' = log_file_path(LogsDir, k)
      BY <1>6 DEF NameFile, Write
    <2> QED BY <1>1, <2>1, FormatsAssumption
            DEF TextInv, QueryInv, PurposeInv, RequestInv, EntryInv, FileInv
  <1> QED BY <1>2, <1>3, <1>4, <1>5, <1>6

\* A text is read.
LEMMA ReadText ==
    ASSUME TextInv,
           ReadQuery \/ ReadPurposes \/ ReadRequest \/ ReadEntry \/ ReadName
    PROVE  TextInv'
  <1>1. UNCHANGED << format, item, text, cut >>
    BY DEF ReadQuery, ReadPurposes, ReadRequest, ReadEntry, ReadName, Read
  <1>2. /\ format' = "query" => result' = Parse(text')
        /\ format' = "purposes" => result' = set_bitmap(split_comma_string(text'))
        /\ format' = "request" => result' = deserialize(text')
        /\ format' = "entry" => result' = decode_log_entry(text')
        /\ format' = "file" => result' = extract_key_from_filename(text')
        /\ format' # None
    BY <1>1, FormatsAssumption DEF ReadQuery, ReadPurposes, ReadRequest, ReadEntry, ReadName, Read
  <1>3. QueryInv'
    BY <1>1, <1>2 DEF TextInv, QueryInv
  <1>4. PurposeInv'
    BY <1>1, <1>2 DEF TextInv, PurposeInv
  <1>5. RequestInv'
    BY <1>1, <1>2 DEF TextInv, RequestInv
  <1>6. EntryInv'
    BY <1>1, <1>2 DEF TextInv, EntryInv
  <1>7. FileInv'
    BY <1>1, <1>2 DEF TextInv, FileInv
  <1> QED BY <1>2, <1>3, <1>4, <1>5, <1>6, <1>7 DEF TextInv

\* A query loses its end.
LEMMA CutText == TextInv /\ CutQuery => TextInv'
  <1> SUFFICES ASSUME TextInv, CutQuery PROVE TextInv'
    OBVIOUS
  <1>1. /\ format = "query" /\ result = None /\ ~cut /\ text' \in Cuts(text) /\ cut'
        /\ UNCHANGED << format, item, result >>
    BY DEF CutQuery
  <1>2. item \in QueryItems /\ text = query_text(item)
    BY <1>1 DEF TextInv, QueryInv
  <1>3. QueryInv'
    BY <1>1, <1>2 DEF QueryInv
  <1> QED BY <1>1, <1>3, FormatsAssumption DEF TextInv, PurposeInv, RequestInv, EntryInv, FileInv

LEMMA TextNext == TextInv /\ [Next]_vars => TextInv'
  <1> SUFFICES ASSUME TextInv, [Next]_vars PROVE TextInv'
    OBVIOUS
  <1>1. CASE WriteQuery \/ WritePurposes \/ WriteRequest \/ WriteEntry \/ NameFile
    BY <1>1, WriteText
  <1>2. CASE ReadQuery \/ ReadPurposes \/ ReadRequest \/ ReadEntry \/ ReadName
    BY <1>2, ReadText
  <1>3. CASE CutQuery
    BY <1>3, CutText
  <1>4. CASE UNCHANGED << format, item, text, cut, result >>
    BY <1>4 DEF TextInv, QueryInv, PurposeInv, RequestInv, EntryInv, FileInv
  <1>5. CASE Insert \/ Update \/ Putm
    <2>1. UNCHANGED << format, item, text, cut, result >>
      BY <1>5 DEF Insert, Update, Putm
    <2> QED BY <1>4, <2>1
  <1> QED BY <1>1, <1>2, <1>3, <1>4, <1>5 DEF Next, vars

LEMMA TextsUnderWay == Spec => []TextInv
  BY InitText, TextNext, PTL DEF Spec

\* Without says the same as Free.
LEMMA WithoutFree ==
    ASSUME NEW S, NEW s \in Seq(S), NEW x, NEW y
    PROVE  /\ Without(s, {x, y}) <=> Free(s, x) /\ Free(s, y)
           /\ Without(s, {x}) <=> Free(s, x)
  BY DEF Without, Free, ToSet

-----------------------------------------------------------------------------
(* The name of a log file.                                                 *)

LEMMA FileKey ==
    ASSUME NEW S, NEW dir \in Seq(S), NEW key \in Seq(S), Slash \in S, log_file_extension \in S
    PROVE  extract_key_from_filename(log_file_path(dir, key)) = key
             <=> Without(key, {log_file_extension, Slash})
  <1>1. PICK x : x = log_file_extension
    OBVIOUS
  <1>2. PICK y : y = Slash
    OBVIOUS
  <1>3. x \in S /\ y \in S /\ x # y
    BY <1>1, <1>2 DEF log_file_extension, Slash
  <1>4. PICK a : a = dir \o << y >>
    OBVIOUS
  <1>5. /\ a \in Seq(S) /\ Len(a) = Len(dir) + 1 /\ a[Len(a)] = y
        /\ a = Append(dir, y)
    <2>1. a = Append(dir, y)
      BY <1>3, <1>4, AppendIsConcat
    <2> QED BY <1>3, <2>1, AppendProperties
  <1>6. PICK b : b = a \o key
    OBVIOUS
  <1>7. /\ b \in Seq(S)
        /\ Len(b) = Len(a) + Len(key)
        /\ \A i \in 1..Len(a) : b[i] = a[i]
        /\ \A i \in 1..Len(key) : b[Len(a) + i] = key[i]
    <2>1. a \in Seq(S)
      BY <1>5
    <2> QED BY <1>6, <2>1, ConcatFacts
  <1>8. PICK s : s = Append(b, x)
    OBVIOUS
  <1>9. log_file_path(dir, key) = s
    <2>1. Append(b, x) = b \o << x >>
      BY <1>3, <1>7, AppendIsConcat
    <2> QED BY <1>1, <1>2, <1>4, <1>6, <1>8, <2>1 DEF log_file_path
  <1>10. PICK n, k : n = Len(a) /\ k = Len(key)
    OBVIOUS
  <1>11. n \in Nat /\ n >= 1 /\ k \in Nat
    BY <1>5, <1>10
  <1>12. /\ s \in Seq(S)
         /\ Len(s) = n + k + 1
         /\ s[n] = y
         /\ \A i \in 1..k : s[n + i] = key[i]
         /\ s[n + k + 1] = x
    <2>1. /\ s \in Seq(S) /\ Len(s) = Len(b) + 1
          /\ \A i \in 1..Len(b) : s[i] = b[i]
          /\ s[Len(b) + 1] = x
      BY <1>3, <1>7, <1>8, AppendProperties
    <2>2. Len(b) = n + k
      BY <1>7, <1>10
    <2>3. s[n] = y
      BY <1>5, <1>7, <1>10, <1>11, <2>1, <2>2
    <2>4. ASSUME NEW i \in 1..k PROVE s[n + i] = key[i]
      <3>1. n + i \in 1..Len(b)
        BY <1>11, <2>2
      <3> QED BY <1>7, <1>10, <2>1, <3>1
    <2> QED BY <2>1, <2>2, <2>3, <2>4
  <1>13. PICK r : r = rfind(s, y)
    OBVIOUS
  <1>14. r \in n..(n + k) /\ s[r] = y /\ \A i \in (r + 1)..(n + k + 1) : s[i] # y
    <2>1. Len(s) \in Nat /\ n \in 1..Len(s)
      BY <1>11, <1>12
    <2>2. /\ r \in 0..Len(s)
          /\ r = NPos => \A i \in 1..Len(s) : s[i] # y
          /\ r # NPos => /\ s[r] = y
                         /\ \A i \in (r + 1)..Len(s) : s[i] # y
      BY <1>13, <2>1, RfindFacts
    <2>3. r # NPos
      BY <1>12, <2>1, <2>2
    <2>4. ~(r < n)
      BY <1>11, <1>12, <2>1, <2>2, <2>3
    <2>5. r # n + k + 1
      BY <1>3, <1>12, <2>2, <2>3
    <2> QED BY <1>11, <1>12, <2>2, <2>3, <2>4, <2>5
  <1>15. PICK f : f = r + 1
    OBVIOUS
  <1>16. f \in Nat \ {0} /\ f \in (n + 1)..(n + k + 1) /\ \A i \in f..(n + k + 1) : s[i] # y
    BY <1>11, <1>14, <1>15
  <1>17. PICK e : e = find(s, x, f)
    OBVIOUS
  <1>18. e \in f..(n + k + 1) /\ \A i \in f..(e - 1) : s[i] # x
    <2>1. Len(s) \in Nat
      BY <1>12
    <2>2. /\ e \in Nat
          /\ e = NPos => \A i \in f..Len(s) : s[i] # x
          /\ e # NPos => /\ e \in f..Len(s)
                         /\ s[e] = x
                         /\ \A i \in f..(e - 1) : s[i] # x
      BY <1>16, <1>17, <2>1, FindFacts
    <2> QED BY <1>11, <1>12, <1>16, <2>2
  <1>19. PICK v : v = between(s, f, e)
    OBVIOUS
  <1>20. extract_key_from_filename(log_file_path(dir, key)) = v
    BY <1>1, <1>2, <1>9, <1>13, <1>15, <1>17, <1>19 DEF extract_key_from_filename
  <1>21. s \in Seq(S) /\ e \in f..(Len(s) + 1)
    BY <1>11, <1>12, <1>16, <1>18
  <1>23. Free(v, x) /\ Free(v, y)
    <2>1. \A i \in f..(e - 1) : s[i] # y
      BY <1>11, <1>16, <1>18
    <2>2. \A i \in f..(e - 1) : s[i] # x
      BY <1>18
    <2> QED BY <1>16, <1>19, <1>21, <2>1, <2>2, BetweenFree
  <1>24. ASSUME Free(key, x), Free(key, y) PROVE v = key
    <2>1. \A i \in (n + 1)..(n + k) : s[i] # x /\ s[i] # y
      <3>1. ASSUME NEW i \in (n + 1)..(n + k) PROVE s[i] # x /\ s[i] # y
        <4>1. PICK j : j = i - n
          OBVIOUS
        <4>2. j \in 1..k /\ n + j = i
          BY <1>11, <4>1
        <4>3. s[i] = key[j]
          BY <1>12, <4>2
        <4> QED BY <1>10, <1>24, <4>2, <4>3 DEF Free
      <3> QED BY <3>1
    <2>2. r = n
      BY <1>11, <1>14, <2>1
    <2>3. e = n + k + 1
      <3>1. f = n + 1 /\ Len(s) \in Nat /\ n + k + 1 \in f..Len(s) /\ (n + k + 1) - 1 = n + k
        BY <1>11, <1>12, <1>15, <2>2
      <3>2. find(s, x, f) = n + k + 1
        BY <1>12, <1>16, <2>1, <3>1, FindFirst
      <3> QED BY <1>17, <3>2
    <2>4. /\ v \in Seq(S) /\ Len(v) = e - f
          /\ \A i \in 1..(e - f) : v[i] = s[f + i - 1]
      BY <1>16, <1>19, <1>21, BetweenFacts
    <2>5. e - f = k
      BY <1>11, <1>15, <2>2, <2>3
    <2>6. ASSUME NEW i \in 1..k PROVE v[i] = key[i]
      <3>1. f + i - 1 = n + i
        BY <1>11, <1>15, <2>2
      <3> QED BY <1>12, <2>4, <2>5, <3>1
    <2> QED BY <1>10, <2>4, <2>5, <2>6, SeqEqual
  <1>22. Without(key, {x, y}) <=> Free(key, x) /\ Free(key, y)
    BY WithoutFree
  <1> QED BY <1>1, <1>2, <1>20, <1>22, <1>23, <1>24

(***************************************************************************)
(* A log file is found again under the key it was made for if and only if  *)
(* the key contains neither the extension nor a '/': the search of         *)
(* logger::extract_key_from_filename for any directory and any key.        *)
(***************************************************************************)
THEOREM FileKeys == Spec => []FileKeyReadsBack
  <1>1. TextInv => FileKeyReadsBack
    <2> SUFFICES ASSUME TextInv, HasRead("file")
                 PROVE  result = item <=> Without(item, {log_file_extension, Slash})
      BY DEF FileKeyReadsBack
    <2>1. item \in KeyItems /\ result = extract_key_from_filename(log_file_path(LogsDir, item))
      BY DEF TextInv, FileInv, HasRead
    <2>2. PICK S : S = Elements \cup {Slash, log_file_extension}
      OBVIOUS
    <2>3. LogsDir \in Seq(S) /\ item \in Seq(S) /\ Slash \in S /\ log_file_extension \in S
      BY <2>1, <2>2, LogAssumption, SeqMonotonic
    <2> QED BY <2>1, <2>3, FileKey
  <1> QED BY <1>1, TextsUnderWay, PTL

-----------------------------------------------------------------------------
(* A log entry.                                                            *)

\* Operation and result share a character, which no delimiter is equal to.
LEMMA CharCodes ==
    ASSUME NEW n \in 0..13
    PROVE  Code(Char(n)) = n /\ Char(n) # Comma
  <1>1. /\ Char(0) = "0" /\ Char(1) = "1" /\ Char(2) = "2" /\ Char(3) = "3" /\ Char(4) = "4"
        /\ Char(5) = "5" /\ Char(6) = "6" /\ Char(7) = "7" /\ Char(8) = "8" /\ Char(9) = "9"
        /\ Char(10) = "10" /\ Char(11) = "11" /\ Char(12) = "12" /\ Char(13) = "13"
    BY DEF Char
  <1>2. \A m \in 0..13 : \/ m = 0 \/ m = 1 \/ m = 2 \/ m = 3 \/ m = 4 \/ m = 5 \/ m = 6 \/ m = 7
                         \/ m = 8 \/ m = 9 \/ m = 10 \/ m = 11 \/ m = 12 \/ m = 13
    OBVIOUS
  <1>3. ASSUME NEW m \in 0..13, Char(n) = Char(m) PROVE m = n
    BY <1>1, <1>2, <1>3
  <1>4. Code(Char(n)) = n
    <2>1. PICK c : c = Char(n)
      OBVIOUS
    <2>2. PICK k : k = CHOOSE m \in 0..13 : c = Char(m)
      OBVIOUS
    <2>3. k \in 0..13 /\ c = Char(k)
      BY <2>1, <2>2
    <2>4. k = n
      BY <1>3, <2>1, <2>3
    <2>5. Code(c) = k
      BY <2>1, <2>2 DEF Code
    <2> QED BY <2>1, <2>4, <2>5
  <1>5. Char(n) # Comma
    BY <1>1, <1>2 DEF Comma
  <1> QED BY <1>4, <1>5

LEMMA OperationCodes ==
    ASSUME NEW oper \in DOMAIN operation, NEW valid \in BOOLEAN, NEW n,
           n = 2 * convert_operation_to_enum(oper) + (IF valid THEN 1 ELSE 0)
    PROVE  /\ n \in 0..13
           /\ convert_enum_to_operation(n \div 2) = oper
           /\ (n % 2 = 1) = valid
  <1>1. PICK f : f = operation
    OBVIOUS
  <1>2. /\ DOMAIN f = {"get", "put", "delete", "getm", "putm", "getLogs"}
        /\ f["get"] = 1 /\ f["put"] = 2 /\ f["delete"] = 3 /\ f["getm"] = 4 /\ f["putm"] = 5
        /\ f["getLogs"] = 6
    BY <1>1 DEF operation
  <1>3. PICK k : k = f[oper]
    OBVIOUS
  <1>4. k \in 1..6 /\ convert_operation_to_enum(oper) = k
    BY <1>1, <1>2, <1>3 DEF convert_operation_to_enum
  <1>5. n = 2 * k + (IF valid THEN 1 ELSE 0)
    BY <1>4
  <1>6. n \in 0..13 /\ n \div 2 = k /\ (valid <=> n % 2 = 1)
    <2>1. CASE valid
      BY <1>4, <1>5, <2>1
    <2>2. CASE ~valid
      BY <1>4, <1>5, <2>2
    <2> QED BY <2>1, <2>2
  <1>7. \A o \in DOMAIN f : f[o] = k => o = oper
    BY <1>1, <1>2, <1>3
  <1>8. convert_enum_to_operation(k) = oper
    <2>1. k \in Range(f) /\ oper \in DOMAIN f
      BY <1>1, <1>3 DEF Range
    <2>2. (CHOOSE o \in DOMAIN f : f[o] = k) = oper
      BY <1>3, <1>7, <2>1
    <2> QED BY <1>1, <2>1, <2>2 DEF convert_enum_to_operation
  <1> QED BY <1>6, <1>8

Entries(S) ==
    [timestamp : S, user : Seq(S), oper : DOMAIN operation, valid : BOOLEAN, new_value : Seq(S)]

LEMMA Entry ==
    ASSUME NEW S, {Comma} \cup {Char(n) : n \in 0..13} \subseteq S, NEW e \in Entries(S)
    PROVE  decode_log_entry(encode_log_entry(e)) = e <=> Without(e.user, {Comma})
  <1>0. PICK ts, user, oper, valid, value :
             /\ ts = e.timestamp /\ user = e.user /\ oper = e.oper
             /\ valid = e.valid /\ value = e.new_value
    OBVIOUS
  <1>a. /\ ts \in S /\ oper \in DOMAIN operation /\ valid \in BOOLEAN
        /\ user \in Seq(S) /\ value \in Seq(S)
        /\ e = [timestamp |-> ts, user |-> user, oper |-> oper, valid |-> valid,
                new_value |-> value]
    BY <1>0 DEF Entries
  <1>b. Comma \in S /\ \A n \in 0..13 : Char(n) \in S
    OBVIOUS
  <1>1. PICK n : n = 2 * convert_operation_to_enum(oper) + (IF valid THEN 1 ELSE 0)
    OBVIOUS
  <1>2. /\ n \in 0..13
        /\ convert_enum_to_operation(n \div 2) = oper
        /\ (n % 2 = 1) = valid
    BY <1>1, <1>a, OperationCodes
  <1>3. PICK x : x = Char(n)
    OBVIOUS
  <1>4. Code(x) = n /\ x # Comma /\ x \in S
    BY <1>2, <1>3, <1>b, CharCodes
  <1>5. PICK a, b : a = << ts, Comma >> /\ b = << Comma, x, Comma >>
    OBVIOUS
  <1>6. /\ a \in Seq(S) /\ Len(a) = 2 /\ a[1] = ts /\ a[2] = Comma
        /\ b \in Seq(S) /\ Len(b) = 3 /\ b[1] = Comma /\ b[2] = x /\ b[3] = Comma
    BY <1>4, <1>5, <1>a, <1>b
  <1>7. PICK s : s = encode_log_entry(e)
    OBVIOUS
  <1>8. s = ((a \o user) \o b) \o value
    BY <1>1, <1>3, <1>5, <1>7, <1>a DEF encode_log_entry
  <1>9. PICK c : c = a \o user
    OBVIOUS
  <1>10. PICK d : d = c \o b
    OBVIOUS
  <1>11. PICK u, w : u = Len(user) /\ w = Len(value)
    OBVIOUS
  <1>12. u \in Nat /\ w \in Nat
    BY <1>11, <1>a
  <1>13. /\ c \in Seq(S) /\ Len(c) = 2 + u
         /\ c[1] = ts /\ c[2] = Comma
         /\ \A i \in 1..u : c[2 + i] = user[i]
    <2>1. a \in Seq(S) /\ user \in Seq(S)
      BY <1>6, <1>a
    <2>2. /\ c \in Seq(S)
          /\ Len(c) = Len(a) + Len(user)
          /\ \A i \in 1..Len(a) : c[i] = a[i]
          /\ \A i \in 1..Len(user) : c[Len(a) + i] = user[i]
      BY <1>9, <2>1, ConcatFacts
    <2>3. c[1] = a[1] /\ c[2] = a[2]
      BY <1>6, <2>2
    <2>4. Len(c) = 2 + u /\ \A i \in 1..u : c[2 + i] = user[i]
      BY <1>6, <1>11, <2>2
    <2> QED BY <1>6, <2>2, <2>3, <2>4
  <1>14. /\ d \in Seq(S) /\ Len(d) = 5 + u
         /\ \A i \in 1..(2 + u) : d[i] = c[i]
         /\ d[3 + u] = Comma /\ d[4 + u] = x /\ d[5 + u] = Comma
    <2>1. c \in Seq(S) /\ b \in Seq(S)
      BY <1>6, <1>13
    <2>2. /\ d \in Seq(S)
          /\ Len(d) = Len(c) + Len(b)
          /\ \A i \in 1..Len(c) : d[i] = c[i]
          /\ \A i \in 1..Len(b) : d[Len(c) + i] = b[i]
      BY <1>10, <2>1, ConcatFacts
    <2>5. 1 \in 1..Len(b) /\ 2 \in 1..Len(b) /\ 3 \in 1..Len(b) /\ Len(c) = 2 + u
      BY <1>6, <1>13
    <2>6. \A i \in 1..Len(b) : d[(2 + u) + i] = b[i]
      BY <2>2, <2>5
    <2>3. d[(2 + u) + 1] = Comma /\ d[(2 + u) + 2] = x /\ d[(2 + u) + 3] = Comma
      BY <1>6, <2>5, <2>6
    <2>4. (2 + u) + 1 = 3 + u /\ (2 + u) + 2 = 4 + u /\ (2 + u) + 3 = 5 + u
      BY <1>12
    <2> QED BY <1>6, <1>10, <1>12, <1>13, <2>2, <2>3, <2>4
  <1>15. /\ s \in Seq(S) /\ Len(s) = 5 + u + w
         /\ s[1] = ts /\ s[2] = Comma
         /\ \A i \in 1..u : s[2 + i] = user[i]
         /\ s[3 + u] = Comma /\ s[4 + u] = x /\ s[5 + u] = Comma
         /\ SubSeq(s, 6 + u, 5 + u + w) = value
    <2>1. d \in Seq(S) /\ value \in Seq(S)
      BY <1>14, <1>a
    <2>2. /\ d \o value \in Seq(S)
          /\ Len(d \o value) = Len(d) + Len(value)
          /\ \A i \in 1..Len(d) : (d \o value)[i] = d[i]
      BY <2>1, ConcatFacts
    <2>3. SubSeq(d \o value, Len(d) + 1, Len(d) + Len(value)) = value
      BY <2>1, ConcatParts
    <2>4. Len(d) + 1 = 6 + u /\ Len(d) + Len(value) = 5 + u + w
      BY <1>11, <1>12, <1>14
    <2>5. s = d \o value
      BY <1>8, <1>9, <1>10
    <2>6. ASSUME NEW i \in 1..u PROVE s[2 + i] = user[i]
      <3>1. 2 + i \in 1..(5 + u) /\ 2 + i \in 1..(2 + u) /\ Len(d) = 5 + u
        BY <1>12, <1>14
      <3> QED BY <1>13, <1>14, <2>2, <2>5, <3>1
    <2>7. /\ 1 \in 1..Len(d) /\ 2 \in 1..Len(d) /\ 3 + u \in 1..Len(d)
          /\ 4 + u \in 1..Len(d) /\ 5 + u \in 1..Len(d) /\ 1 \in 1..(2 + u) /\ 2 \in 1..(2 + u)
      BY <1>12, <1>14
    <2>8. s[1] = ts /\ s[2] = Comma /\ s[3 + u] = Comma /\ s[4 + u] = x /\ s[5 + u] = Comma
      BY <1>13, <1>14, <2>2, <2>5, <2>7
    <2> QED BY <2>2, <2>3, <2>4, <2>5, <2>6, <2>8
  <1>16. PICK k : k = find(s, Comma, 3)
    OBVIOUS
  <1>17. k \in 3..(3 + u) /\ s[k] = Comma /\ \A i \in 3..(k - 1) : s[i] # Comma
    <2>1. Len(s) \in Nat /\ 3 \in Nat \ {0} /\ 3 + u \in 3..Len(s)
      <3>1. Len(s) = 5 + u + w
        BY <1>15
      <3> QED BY <1>12, <3>1
    <2>2. /\ k \in Nat
          /\ k = NPos => \A i \in 3..Len(s) : s[i] # Comma
          /\ k # NPos => /\ k \in 3..Len(s)
                         /\ s[k] = Comma
                         /\ \A i \in 3..(k - 1) : s[i] # Comma
      BY <1>16, <2>1, FindFacts
    <2>3. k # NPos
      BY <1>15, <2>1, <2>2
    <2>4. ~(3 + u < k)
      BY <1>12, <1>15, <2>1, <2>2, <2>3
    <2> QED BY <1>12, <2>2, <2>3, <2>4
  <1>26. PICK f : f = 3
    OBVIOUS
  <1>18. k \in f..(Len(s) + 1) /\ s \in Seq(S) /\ f \in Nat \ {0}
    <2>1. Len(s) = 5 + u + w /\ s \in Seq(S)
      BY <1>15
    <2>2. 3 + u <= (5 + u + w) + 1
      BY <1>12
    <2>3. k \in f..(Len(s) + 1)
      BY <1>12, <1>17, <1>26, <2>1, <2>2
    <2> QED BY <1>26, <2>1, <2>3
  <1>19. PICK v, r : v = between(s, 3, k) /\ r = decode_log_entry(s)
    OBVIOUS
  <1>20. r.user = v
    BY <1>16, <1>19 DEF decode_log_entry
  <1>21. Free(v, Comma)
    <2>1. \A i \in f..(k - 1) : s[i] # Comma
      BY <1>17, <1>26
    <2>2. Free(between(s, f, k), Comma)
      BY <1>18, <2>1, BetweenFree
    <2> QED BY <1>19, <1>26, <2>2
  <1>22. ASSUME Free(user, Comma) PROVE r = e
    <2>1. k = 3 + u
      <3>1. ASSUME k # 3 + u PROVE FALSE
        <4>1. PICK i : i = k - 2
          OBVIOUS
        <4>2. i \in 1..u /\ 2 + i = k
          BY <1>12, <1>17, <3>1, <4>1
        <4>3. s[k] = user[i]
          BY <1>15, <4>2
        <4> QED BY <1>11, <1>17, <1>22, <4>2, <4>3 DEF Free
      <3> QED BY <3>1
    <2>2. find(s, Comma, k + 1) = 5 + u
      <3>1. PICK g : g = k + 1
        OBVIOUS
      <3>2. g = 4 + u /\ g \in Nat \ {0} /\ Len(s) \in Nat /\ 5 + u \in g..Len(s)
        BY <1>12, <1>15, <2>1, <3>1
      <3>3. \A i \in g..((5 + u) - 1) : i = 4 + u
        BY <1>12, <3>2
      <3>4. \A i \in g..((5 + u) - 1) : s[i] # Comma
        BY <1>4, <1>15, <3>3
      <3>5. find(s, Comma, g) = 5 + u
        BY <1>15, <3>2, <3>4, FindFirst
      <3> QED BY <3>1, <3>5
    <2>3. v = user
      <3>0. /\ between(s, f, k) \in Seq(S) /\ Len(between(s, f, k)) = k - f
            /\ \A i \in 1..(k - f) : between(s, f, k)[i] = s[f + i - 1]
        BY <1>18, BetweenFacts
      <3>1. /\ v \in Seq(S) /\ Len(v) = k - 3
            /\ \A i \in 1..(k - 3) : v[i] = s[3 + i - 1]
        BY <1>19, <1>26, <3>0
      <3>2. k - 3 = u
        BY <1>12, <2>1
      <3>3. ASSUME NEW i \in 1..u PROVE v[i] = user[i]
        <4>1. 3 + i - 1 = 2 + i
          OBVIOUS
        <4> QED BY <1>15, <3>1, <3>2, <4>1
      <3> QED BY <1>11, <1>a, <3>1, <3>2, <3>3, SeqEqual
    <2>4. s[k + 1] = x
      <3>1. k + 1 = 4 + u
        BY <1>12, <2>1
      <3> QED BY <1>15, <3>1
    <2>5. SubSeq(s, (5 + u) + 1, Len(s)) = value
      <3>1. (5 + u) + 1 = 6 + u
        BY <1>12
      <3> QED BY <1>15, <3>1
    <2>6. r = [timestamp |-> s[1], user |-> v, oper |-> convert_enum_to_operation(n \div 2),
               valid |-> n % 2 = 1, new_value |-> SubSeq(s, (5 + u) + 1, Len(s))]
      BY <1>4, <1>16, <1>19, <2>2, <2>4 DEF decode_log_entry
    <2> QED BY <1>2, <1>15, <1>a, <2>3, <2>5, <2>6
  <1>23. e.user = user
    BY <1>a
  <1>24. r = e => Free(user, Comma)
    BY <1>20, <1>21, <1>23
  <1>25. Without(user, {Comma}) <=> Free(user, Comma)
    BY <1>a, WithoutFree
  <1> QED BY <1>7, <1>19, <1>22, <1>23, <1>24, <1>25

(***************************************************************************)
(* The regulator sees an entry as it was logged if and only if the user    *)
(* has no ',': logger::decode_log_entry after log_encoded_query, for any   *)
(* texts and every operation that is logged.                               *)
(***************************************************************************)
THEOREM LogEntries == Spec => []EntryReadsBack
  <1>1. TextInv => EntryReadsBack
    <2> SUFFICES ASSUME TextInv, HasRead("entry")
                 PROVE  result = item <=> Without(item.user, {Comma})
      BY DEF EntryReadsBack
    <2>1. item \in EntryItems /\ result = decode_log_entry(encode_log_entry(item))
      BY DEF TextInv, EntryInv, HasRead
    <2>2. PICK S : S = Elements \cup {Comma} \cup {Char(n) : n \in 0..13}
      OBVIOUS
    <2>3. Elements \subseteq S /\ {Comma} \cup {Char(n) : n \in 0..13} \subseteq S
      BY <2>2
    <2>4. Seq(Elements) \subseteq Seq(S)
      BY <2>3, SeqMonotonic
    <2>5. item \in Entries(S)
      BY <2>1, <2>3, <2>4, LogAssumption DEF Entries
    <2>6. decode_log_entry(encode_log_entry(item)) = item <=> Without(item.user, {Comma})
      BY <2>3, <2>5, Entry
    <2> QED BY <2>1, <2>6
  <1> QED BY <1>1, TextsUnderWay, PTL

-----------------------------------------------------------------------------
(* A request to the store.                                                 *)

\* The text of a request without a value ends with the key.
LEMMA SerializedKey ==
    ASSUME NEW S, Space \in S, NEW command \in S, NEW key \in Seq(S), NEW raw,
           raw = serialize(Message(command, key, << >>))
    PROVE  Len(raw) = 2 + Len(key)
  <1>1. PICK head, e : head = << command, Space >> /\ e = << >>
    OBVIOUS
  <1>2. head \in Seq(S) /\ Len(head) = 2 /\ e \in Seq(S) /\ Len(e) = 0
    BY <1>1
  <1>3. PICK a : a = head \o key
    OBVIOUS
  <1>4. a \in Seq(S) /\ Len(a) = Len(head) + Len(key)
    <2>1. head \in Seq(S)
      BY <1>2
    <2> QED BY <1>3, <2>1, ConcatFacts
  <1>5. raw = a \o e
    BY <1>1, <1>3 DEF serialize, Message
  <1>6. Len(a \o e) = Len(a) + Len(e)
    <2>1. a \in Seq(S) /\ e \in Seq(S)
      BY <1>2, <1>4
    <2> QED BY <2>1, ConcatFacts
  <1> QED BY <1>2, <1>4, <1>5, <1>6

\* What the reader makes of a request: keyEnd is where it finds the end of the key.
ReadAs(raw, command, keyEnd) ==
    IF Len(raw) = 2 \/ (command = "put" /\ keyEnd >= Len(raw)) THEN Invalid
    ELSE Message(command, between(raw, 3, keyEnd),
                 IF command = "put" THEN SubSeq(raw, keyEnd + 1, Len(raw)) ELSE << >>)

LEMMA DeserializeFacts ==
    ASSUME NEW S, NEW raw \in Seq(S), Len(raw) >= 2, NEW command \in valid_query_types,
           raw[1] = command, raw[2] = Space
    PROVE  deserialize(raw) = ReadAs(raw, command, find(raw, Space, 3))
  <1>1. command # Space
    BY DEF valid_query_types, Space
  <1>2. PICK m : m = Len(raw)
    OBVIOUS
  <1>3. m \in Nat /\ m >= 2
    BY <1>2
  <1>4. find(raw, Space, 1) = 2
    <2>1. PICK f, n : f = 1 /\ n = 2
      OBVIOUS
    <2>2. f \in Nat \ {0} /\ Len(raw) \in Nat /\ n \in f..Len(raw) /\ raw[n] = Space
      BY <1>2, <1>3, <2>1
    <2>3. \A i \in f..(n - 1) : raw[i] # Space
      BY <1>1, <2>1
    <2>4. find(raw, Space, f) = n
      BY <2>2, <2>3, FindFirst
    <2> QED BY <2>1, <2>4
  <1>5. between(raw, 1, 2) = << command >>
    <2>1. PICK f, n : f = 1 /\ n = 2
      OBVIOUS
    <2>2. raw \in Seq(S) /\ f \in Nat \ {0} /\ n \in f..(Len(raw) + 1)
      BY <1>2, <1>3, <2>1
    <2>3. PICK b : b = between(raw, f, n)
      OBVIOUS
    <2>4. b \in Seq(S) /\ Len(b) = n - f /\ \A i \in 1..(n - f) : b[i] = raw[f + i - 1]
      BY <2>2, <2>3, BetweenFacts
    <2>5. b \in Seq(S) /\ Len(b) = 1 /\ b[1] = command
      BY <2>1, <2>4
    <2>6. << command >> \in Seq(S) /\ Len(<< command >>) = 1 /\ << command >>[1] = command
      BY <2>5
    <2>7. \A i \in 1..Len(b) : b[i] = << command >>[i]
      BY <2>5, <2>6
    <2>8. b = << command >>
      BY <2>5, <2>6, <2>7, SeqEqual
    <2> QED BY <2>1, <2>3, <2>8
  <1>6. << command >> \in {<< c >> : c \in valid_query_types}
    OBVIOUS
  <1>7. 2 >= Len(raw) <=> Len(raw) = 2
    BY <1>2, <1>3
  <1>8. PICK k : k = find(raw, Space, 3)
    OBVIOUS
  <1>9. deserialize(raw) =
           IF \/ 2 = NPos
              \/ << command >> \notin {<< c >> : c \in valid_query_types}
              \/ 2 >= Len(raw)
              \/ command = "put" /\ k >= Len(raw)
           THEN Invalid
           ELSE Message(command, between(raw, 3, k),
                        IF command = "put" THEN SubSeq(raw, k + 1, Len(raw)) ELSE << >>)
    <2>1. find(raw, Space, 2 + 1) = k
      BY <1>8
    <2>2. between(raw, 2 + 1, k) = between(raw, 3, k)
      OBVIOUS
    <2> QED BY <1>4, <1>5, <2>1, <2>2 DEF deserialize
  <1> QED BY <1>6, <1>7, <1>8, <1>9 DEF ReadAs, NPos

LEMMA Request ==
    ASSUME NEW S, Space \in S, NEW command \in valid_query_types, command \in S,
           NEW key \in Seq(S), NEW value \in Seq(S),
           NEW m, m = Message(command, key, value)
    PROVE  deserialize(serialize(m)) = m
             <=> /\ Without(key, {Space})
                 /\ command = "put" => value # << >>
                 /\ command # "put" => key # << >> /\ value = << >>
  <1>1. PICK raw, n, w : raw = serialize(m) /\ n = Len(key) /\ w = Len(value)
    OBVIOUS
  <1>2. n \in Nat /\ w \in Nat /\ (value # << >> => w >= 1) /\ (key # << >> <=> n >= 1)
    <2>1. w \in Nat /\ n \in Nat
      BY <1>1
    <2>2. (w = 0 => value = << >>) /\ (n = 0 <=> key = << >>)
      BY <1>1, EmptySeq
    <2> QED BY <2>1, <2>2
  <1>3. Serialized(S, raw, command, key, value, n)
    BY <1>1, <1>2, SerializeFacts
  <1>4. value = << >> => Len(raw) = 2 + n
    BY <1>1, SerializedKey
  <1>5. PICK l : l = Len(raw)
    OBVIOUS
  <1>6. /\ raw \in Seq(S) /\ l \in Nat
        /\ l >= 2 + n /\ l >= 2 /\ raw[1] = command /\ raw[2] = Space
        /\ \A i \in 1..n : raw[2 + i] = key[i]
    BY <1>2, <1>3, <1>5 DEF Serialized
  <1>7. PICK k : k = find(raw, Space, 3)
    OBVIOUS
  <1>8. deserialize(raw) = ReadAs(raw, command, k)
    BY <1>5, <1>6, <1>7, DeserializeFacts
  <1>9. /\ k \in Nat
        /\ k = NPos => \A i \in 3..l : raw[i] # Space
        /\ k # NPos => /\ k \in 3..l
                       /\ raw[k] = Space
                       /\ \A i \in 3..(k - 1) : raw[i] # Space
    <2>1. PICK f : f = 3
      OBVIOUS
    <2>2. f \in Nat \ {0} /\ Len(raw) \in Nat
      BY <1>5, <1>6, <2>1
    <2>3. /\ k \in Nat
          /\ k = NPos => \A i \in f..l : raw[i] # Space
          /\ k # NPos => /\ k \in f..l
                         /\ raw[k] = Space
                         /\ \A i \in f..(k - 1) : raw[i] # Space
      BY <1>5, <1>7, <2>1, <2>2, FindFacts
    <2> QED BY <2>1, <2>3
  <1>10. PICK b : b = between(raw, 3, k)
    OBVIOUS
  <1>11. k # NPos => /\ Free(b, Space)
                     /\ b \in Seq(S) /\ Len(b) = k - 3 /\ \A i \in 1..(k - 3) : b[i] = raw[2 + i]
    <2> SUFFICES ASSUME k # NPos
                 PROVE  /\ Free(b, Space)
                        /\ b \in Seq(S) /\ Len(b) = k - 3
                        /\ \A i \in 1..(k - 3) : b[i] = raw[2 + i]
      OBVIOUS
    <2>1. PICK f : f = 3
      OBVIOUS
    <2>2. raw \in Seq(S) /\ f \in Nat \ {0} /\ k \in f..(Len(raw) + 1)
      BY <1>5, <1>6, <1>9, <2>1
    <2>3. \A i \in f..(k - 1) : raw[i] # Space
      BY <1>9, <2>1
    <2>4. Free(between(raw, f, k), Space)
      BY <2>2, <2>3, BetweenFree
    <2>5. /\ between(raw, f, k) \in Seq(S)
          /\ Len(between(raw, f, k)) = k - f
          /\ \A i \in 1..(k - f) : between(raw, f, k)[i] = raw[f + i - 1]
      BY <2>2, BetweenFacts
    <2>6. \A i \in 1..(k - 3) : 3 + i - 1 = 2 + i
      BY <1>9
    <2> QED BY <1>10, <2>1, <2>4, <2>5, <2>6
  <1>12. k = NPos => /\ b \in Seq(S) /\ Len(b) = l - 2 /\ \A i \in 1..(l - 2) : b[i] = raw[2 + i]
    <2> SUFFICES ASSUME k = NPos
                 PROVE  /\ b \in Seq(S) /\ Len(b) = l - 2
                        /\ \A i \in 1..(l - 2) : b[i] = raw[2 + i]
      OBVIOUS
    <2>1. b = SubSeq(raw, 3, l)
      BY <1>5, <1>10 DEF between
    <2>2. PICK f : f = 3
      OBVIOUS
    <2>3. f \in Int /\ l \in Int /\ \A i \in f..l : raw[i] \in S
      BY <1>5, <1>6, <2>2
    <2>4. /\ SubSeq(raw, f, l) \in Seq(S)
          /\ Len(SubSeq(raw, f, l)) = IF f <= l THEN l - f + 1 ELSE 0
          /\ \A i \in 1..(l - f + 1) : SubSeq(raw, f, l)[i] = raw[f + i - 1]
      BY <2>3, SubSeqProperties
    <2>5. (IF f <= l THEN l - f + 1 ELSE 0) = l - 2 /\ l - f + 1 = l - 2
          /\ \A i \in 1..(l - 2) : f + i - 1 = 2 + i
      BY <1>6, <2>2
    <2> QED BY <2>1, <2>2, <2>4, <2>5
  <1>13. PICK v : v = IF command = "put" THEN SubSeq(raw, k + 1, l) ELSE << >>
    OBVIOUS
  <1>14. ReadAs(raw, command, k) = IF l = 2 \/ (command = "put" /\ k >= l) THEN Invalid
                                   ELSE Message(command, b, v)
    BY <1>5, <1>10, <1>13 DEF ReadAs
  <1>15. ASSUME ReadAs(raw, command, k) = m
         PROVE  /\ Free(key, Space)
                /\ command = "put" => value # << >>
                /\ command # "put" => key # << >> /\ value = << >>
    <2>1. l # 2 /\ ~(command = "put" /\ k >= l)
      <3>1. Invalid.is_valid = FALSE /\ m.is_valid = TRUE
        BY DEF Invalid, Message
      <3> QED BY <1>14, <1>15, <3>1
    <2>2. b = key /\ v = value
      <3>1. Message(command, b, v) = Message(command, key, value)
        BY <1>14, <1>15, <2>1
      <3>2. /\ Message(command, b, v).key = b /\ Message(command, b, v).value = v
            /\ Message(command, key, value).key = key /\ Message(command, key, value).value = value
        BY DEF Message
      <3> QED BY <3>1, <3>2
    <2>3. Free(key, Space)
      <3>1. CASE k = NPos
        <4>1. \A i \in 1..n : 2 + i \in 3..l
          BY <1>2, <1>6
        <4> QED BY <1>1, <1>6, <1>9, <3>1, <4>1 DEF Free
      <3>2. CASE k # NPos
        BY <1>11, <2>2, <3>2
      <3> QED BY <3>1, <3>2
    <2>4. ASSUME command = "put" PROVE value # << >>
      <3>1. PICK f : f = k + 1
        OBVIOUS
      <3>2. k < l /\ f \in Int /\ l \in Int /\ f <= l /\ f >= 1
        BY <1>6, <1>9, <2>1, <2>4, <3>1
      <3>3. \A i \in f..l : raw[i] \in S
        BY <1>5, <1>6, <3>2
      <3>4. Len(SubSeq(raw, f, l)) = IF f <= l THEN l - f + 1 ELSE 0
        BY <3>2, <3>3, SubSeqProperties
      <3>5. v = SubSeq(raw, f, l)
        BY <1>13, <2>4, <3>1
      <3>6. Len(value) # 0
        BY <2>2, <3>2, <3>4, <3>5
      <3> QED BY <3>6
    <2>5. ASSUME command # "put" PROVE key # << >> /\ value = << >>
      <3>1. value = << >>
        BY <1>13, <2>2, <2>5
      <3>2. n # 0
        BY <1>2, <1>4, <1>5, <2>1, <3>1
      <3> QED BY <1>2, <3>1, <3>2
    <2> QED BY <2>3, <2>4, <2>5
  <1>16. ASSUME Free(key, Space), command = "put" => value # << >>,
                command # "put" => key # << >> /\ value = << >>
         PROVE  ReadAs(raw, command, k) = m
    <2>1. \A i \in 3..(2 + n) : raw[i] # Space
      <3>1. ASSUME NEW i \in 3..(2 + n) PROVE raw[i] # Space
        <4>1. PICK j : j = i - 2
          OBVIOUS
        <4>2. j \in 1..n /\ 2 + j = i
          BY <1>2, <4>1
        <4>3. raw[i] = key[j]
          BY <1>6, <4>2
        <4> QED BY <1>1, <1>16, <4>2, <4>3 DEF Free
      <3> QED BY <3>1
    <2>2. CASE command = "put"
      <3>1. /\ w >= 1 /\ l = n + 3 + w /\ raw[n + 3] = Space
            /\ \A i \in 1..w : raw[n + 3 + i] = value[i]
        BY <1>1, <1>2, <1>3, <1>5, <1>16, <2>2 DEF Serialized
      <3>2. k = n + 3
        <4>1. n + 3 \in 3..l /\ n + 3 # NPos
          BY <1>2, <3>1 DEF NPos
        <4>2. k # NPos
          BY <1>9, <3>1, <4>1
        <4>3. ~(k > n + 3)
          <5>1. k > n + 3 => n + 3 \in 3..(k - 1)
            BY <1>2, <1>9
          <5> QED BY <1>9, <3>1, <4>2, <5>1
        <4>4. ~(k < n + 3)
          <5>1. k \in Nat /\ k >= 3
            BY <1>9, <4>2
          <5>2. k < n + 3 => k \in 3..(2 + n)
            BY <1>2, <5>1
          <5> QED BY <1>9, <2>1, <4>2, <5>2
        <4> QED BY <1>2, <1>9, <4>3, <4>4
      <3>3. k # NPos /\ k - 3 = n
        BY <1>2, <3>2 DEF NPos
      <3>4. b = key
        <4>1. b \in Seq(S) /\ Len(b) = n /\ \A i \in 1..n : b[i] = raw[2 + i]
          BY <1>11, <3>3
        <4>2. \A i \in 1..n : b[i] = key[i]
          BY <1>6, <4>1
        <4> QED BY <1>1, <4>1, <4>2, SeqEqual
      <3>5. v = value
        <4>1. PICK f : f = n + 4
          OBVIOUS
        <4>2. k + 1 = f /\ f \in Int /\ l \in Int /\ f >= 1 /\ f <= l /\ l - f + 1 = w
          BY <1>2, <1>6, <3>1, <3>2, <4>1
        <4>3. \A i \in f..l : raw[i] \in S
          BY <1>5, <1>6, <4>2
        <4>4. PICK u : u = SubSeq(raw, f, l)
          OBVIOUS
        <4>5. /\ u \in Seq(S)
              /\ Len(u) = IF f <= l THEN l - f + 1 ELSE 0
              /\ \A i \in 1..(l - f + 1) : u[i] = raw[f + i - 1]
          BY <4>2, <4>3, <4>4, SubSeqProperties
        <4>6. Len(u) = w /\ \A i \in 1..w : u[i] = raw[f + i - 1]
          BY <4>2, <4>5
        <4>7. \A i \in 1..w : f + i - 1 = n + 3 + i
          BY <1>2, <4>1
        <4>8. \A i \in 1..w : u[i] = value[i]
          BY <3>1, <4>6, <4>7
        <4>9. u = value
          BY <1>1, <4>5, <4>6, <4>8, SeqEqual
        <4> QED BY <1>13, <2>2, <4>2, <4>4, <4>9
      <3>6. l # 2 /\ ~(k >= l)
        BY <1>2, <3>1, <3>2
      <3> QED BY <1>14, <3>4, <3>5, <3>6
    <2>3. CASE command # "put"
      <3>1. value = << >> /\ n >= 1 /\ l = 2 + n /\ v = << >>
        BY <1>2, <1>4, <1>5, <1>13, <1>16, <2>3
      <3>2. k = NPos
        <4>1. \A i \in 3..l : raw[i] # Space
          BY <2>1, <3>1
        <4> QED BY <1>9, <4>1
      <3>3. l - 2 = n /\ l # 2
        BY <1>2, <3>1
      <3>4. b = key
        <4>1. b \in Seq(S) /\ Len(b) = n /\ \A i \in 1..n : b[i] = raw[2 + i]
          BY <1>12, <3>2, <3>3
        <4>2. \A i \in 1..n : b[i] = key[i]
          BY <1>6, <4>1
        <4> QED BY <1>1, <4>1, <4>2, SeqEqual
      <3> QED BY <1>14, <2>3, <3>1, <3>3, <3>4
    <2> QED BY <2>2, <2>3
  <1>17. Without(key, {Space}) <=> Free(key, Space)
    BY WithoutFree
  <1> QED BY <1>1, <1>8, <1>15, <1>16, <1>17

(***************************************************************************)
(* A request reaches the store as it was sent if and only if its key has   *)
(* no space and is not empty (a put's may be), a put has a value, and it   *)
(* is no putm of an unencrypted build: serialize and deserialize of        *)
(* message.hpp for any key and any value.                                  *)
(***************************************************************************)
THEOREM Requests == Spec => []RequestReadsBack
  <1>1. TextInv => RequestReadsBack
    <2> SUFFICES ASSUME TextInv, HasRead("request")
                 PROVE  RequestReadsBack
      BY DEF RequestReadsBack
    <2>1. PICK m : m = request(item.cipher, item.cmd, item.key, item.value)
      OBVIOUS
    <2>2. item \in RequestItems /\ result = deserialize(serialize(m))
      BY <2>1 DEF TextInv, RequestInv, HasRead
    <2>3. PICK S : S = Elements \cup valid_query_types \cup {Space}
      OBVIOUS
    <2>4. Elements \subseteq S /\ valid_query_types \subseteq S /\ Space \in S
      BY <2>3
    <2>5. Seq(Elements) \subseteq Seq(S)
      BY <2>4, SeqMonotonic
    <2>6. PICK cipher, cmd, key, value :
             cipher = item.cipher /\ cmd = item.cmd /\ key = item.key /\ value = item.value
      OBVIOUS
    <2>7. cipher \in S /\ cmd \in valid_query_types /\ key \in Seq(S) /\ value \in Seq(S)
      BY <2>2, <2>4, <2>5, <2>6, RequestAssumption
    <2>8. PICK e : e = encrypt(cipher, value)
      OBVIOUS
    <2>9. e \in Seq(S)
      <3>1. PICK c : c = << cipher >>
        OBVIOUS
      <3>2. c \in Seq(S)
        BY <2>7, <3>1
      <3>3. c \o value \in Seq(S)
        BY <2>7, <3>2, ConcatFacts
      <3> QED BY <2>7, <2>8, <3>1, <3>3 DEF encrypt
    <2>10. PICK none : none = << >>
      OBVIOUS
    <2>11. none \in Seq(S)
      BY <2>10
    <2>12. PICK command, v : /\ m = Message(command, key, v)
                             /\ command \in valid_query_types /\ v \in Seq(S)
      <3>1. CASE cmd \in {"put", "putm"}
        <4>1. PICK command : command = IF cipher = Plain THEN cmd ELSE "put"
          OBVIOUS
        <4>2. command \in valid_query_types
          BY <2>7, <4>1 DEF valid_query_types
        <4>3. m = Message(command, key, e)
          BY <2>1, <2>6, <2>8, <3>1, <4>1 DEF request
        <4> QED BY <2>9, <4>2, <4>3
      <3>2. CASE cmd \notin {"put", "putm"}
        <4>1. m = Message(cmd, key, none)
          BY <2>1, <2>6, <2>10, <3>2 DEF request
        <4> QED BY <2>7, <2>11, <4>1
      <3> QED BY <3>1, <3>2
    <2>13. command \in S /\ key \in Seq(S) /\ v \in Seq(S) /\ Space \in S
           /\ command \in valid_query_types
      BY <2>4, <2>7, <2>12
    <2>14. deserialize(serialize(m)) = m
             <=> /\ Without(key, {Space})
                 /\ command = "put" => v # << >>
                 /\ command # "put" => key # << >> /\ v = << >>
      BY <2>12, <2>13, Request
    <2>15. m.key = key /\ m.command = command /\ m.value = v
      BY <2>12 DEF Message
    <2> QED BY <2>1, <2>2, <2>14, <2>15 DEF RequestReadsBack
  <1> QED BY <1>1, TextsUnderWay, PTL

-----------------------------------------------------------------------------
(* The names of purposes.                                                  *)

LEMMA PurposeNames ==
    ASSUME NEW S, Comma \in S, "purpose" \in S, Digits \subseteq S, NEW x \in pur_index
    PROVE  x \in Seq(S) /\ Free(x, Comma)
  <1>1. \A d \in Digits : d \in S /\ d # Comma
    BY DEF Digits, Comma
  <1>2. PICK w : w = "purpose"
    OBVIOUS
  <1>0. w \in S /\ w # Comma
    BY <1>2 DEF Comma
  <1>3. CASE \E d \in Digits : x = << w, d >>
    <2>1. PICK d \in Digits : x = << w, d >>
      BY <1>3
    <2>2. d \in S /\ d # Comma /\ w \in S
      BY <1>0, <1>1
    <2>3. x \in Seq(S)
      BY <2>1, <2>2
    <2>4. Len(x) = 2 /\ x[1] = w /\ x[2] = d
      BY <2>1
    <2>5. \A i \in 1..2 : i = 1 \/ i = 2
      OBVIOUS
    <2>6. Free(x, Comma)
      BY <1>0, <2>2, <2>4, <2>5 DEF Free
    <2> QED BY <2>3, <2>6
  <1>4. CASE \E d \in Digits, e \in Digits : x = << w, d, e >>
    <2>1. PICK d \in Digits, e \in Digits : x = << w, d, e >>
      BY <1>4
    <2>2. d \in S /\ d # Comma /\ e \in S /\ e # Comma /\ w \in S
      BY <1>0, <1>1
    <2>3. x \in Seq(S)
      BY <2>1, <2>2
    <2>4. Len(x) = 3 /\ x[1] = w /\ x[2] = d /\ x[3] = e
      BY <2>1
    <2>5. \A i \in 1..3 : i = 1 \/ i = 2 \/ i = 3
      OBVIOUS
    <2>6. Free(x, Comma)
      BY <1>0, <2>2, <2>4, <2>5 DEF Free
    <2> QED BY <2>3, <2>6
  <1>5. (\E d \in Digits : x = << w, d >>) \/ (\E d \in Digits, e \in Digits : x = << w, d, e >>)
    <2>1. {"1", "2", "3", "4", "5"} \subseteq Digits /\ "6" \in Digits
          /\ {"0", "1", "2", "3"} \subseteq Digits
      BY DEF Digits
    <2>2. \/ x \in {<< "purpose", d >> : d \in Digits}
          \/ x \in {<< "purpose", d, e >> : d \in {"1", "2", "3", "4", "5"}, e \in Digits}
          \/ x \in {<< "purpose", "6", e >> : e \in {"0", "1", "2", "3"}}
      BY DEF pur_index
    <2>3. CASE x \in {<< "purpose", d >> : d \in Digits}
      BY <1>2, <2>3
    <2>4. CASE x \in {<< "purpose", d, e >> : d \in {"1", "2", "3", "4", "5"}, e \in Digits}
      <3>1. PICK d \in {"1", "2", "3", "4", "5"}, e \in Digits : x = << "purpose", d, e >>
        BY <2>4
      <3> QED BY <1>2, <2>1, <3>1
    <2>5. CASE x \in {<< "purpose", "6", e >> : e \in {"0", "1", "2", "3"}}
      <3>1. PICK e \in {"0", "1", "2", "3"} : x = << "purpose", "6", e >>
        BY <2>5
      <3> QED BY <1>2, <2>1, <3>1
    <2> QED BY <2>2, <2>3, <2>4, <2>5
  <1> QED BY <1>3, <1>4, <1>5

\* The names that are known come back, in their order.
LEMMA KnownPurposes ==
    ASSUME NEW names \in Seq(pur_index), names # << >>
    PROVE  split_comma_string(purposes_text(names)) = names
  <1>1. PICK S : S = {Comma} \cup Digits \cup {"purpose"}
    OBVIOUS
  <1>2. PICK ch \in S : ch = Comma
    BY <1>1
  <1>3. \A x \in pur_index : x \in Seq(S) /\ Free(x, ch)
    <2>1. Comma \in S /\ "purpose" \in S /\ Digits \subseteq S
      BY <1>1
    <2> QED BY <1>2, <2>1, PurposeNames
  <1> DEFINE Parts(p) == [i \in DOMAIN p |-> (IF i = 1 THEN << >> ELSE << Comma >>) \o p[i]]
             T == {p \in Seq(pur_index) :
                     /\ Parts(p) \in Seq(Seq(S))
                     /\ Len(Parts(p)) = Len(p)
                     /\ p # << >> => split(FlattenSeq(Parts(p)), ch) = p}
  <1>4. << >> \in T
    <2>1. << >> \in Seq(pur_index) /\ << >> \in Seq(Seq(S))
      BY EmptySeq
    <2>2. Parts(<< >>) = << >>
      OBVIOUS
    <2> QED BY <2>1, <2>2
  <1>5. ASSUME NEW p \in Seq(pur_index), NEW x \in pur_index, p \in T PROVE Append(p, x) \in T
    <2>1. PICK q : q = Append(p, x)
      OBVIOUS
    <2>2. PICK n : n = Len(p)
      OBVIOUS
    <2>3. /\ q \in Seq(pur_index) /\ Len(q) = n + 1
          /\ \A i \in 1..n : q[i] = p[i]
          /\ q[n + 1] = x
          /\ n \in Nat
      BY <2>1, <2>2, AppendProperties
    <2>4. PICK c, e : c = << ch >> /\ e = << >>
      OBVIOUS
    <2>5. c \in Seq(S) /\ e \in Seq(S)
      BY <2>4
    <2>6. PICK y : y = (IF n + 1 = 1 THEN e ELSE c) \o x
      OBVIOUS
    <2>7. x \in Seq(S) /\ Free(x, ch)
      BY <1>3
    <2>8. c \o x \in Seq(S)
      BY <2>5, <2>7, ConcatFacts
    <2>9. e \o x = x
      BY <2>4, <2>7, ConcatEmptySeq
    <2>10. y \in Seq(S)
      BY <2>6, <2>7, <2>8, <2>9
    <2>11. PICK f, g : f = Parts(p) /\ g = Parts(q)
      OBVIOUS
    <2>12. f \in Seq(Seq(S)) /\ Len(f) = n
      BY <1>5, <2>2, <2>11
    <2>13. DOMAIN p = 1..n /\ DOMAIN q = 1..(n + 1)
      BY <2>2, <2>3
    <2>14. /\ DOMAIN g = 1..(n + 1)
           /\ \A i \in 1..n : g[i] = f[i]
           /\ g[n + 1] = y
      <3>1. DOMAIN g = 1..(n + 1)
        BY <2>11, <2>13
      <3>2. ASSUME NEW i \in 1..n PROVE g[i] = f[i]
        <4>1. i \in DOMAIN p /\ i \in DOMAIN q /\ q[i] = p[i]
          BY <2>3, <2>13
        <4>2. f[i] = (IF i = 1 THEN << >> ELSE << Comma >>) \o p[i]
          BY <2>11, <4>1
        <4>3. g[i] = (IF i = 1 THEN << >> ELSE << Comma >>) \o q[i]
          BY <2>11, <4>1
        <4> QED BY <4>1, <4>2, <4>3
      <3>3. n + 1 \in 1..(n + 1)
        BY <2>3
      <3>4. g[n + 1] = (IF n + 1 = 1 THEN << >> ELSE << Comma >>) \o q[n + 1]
        BY <2>11, <2>13, <3>3
      <3> QED BY <1>2, <2>3, <2>4, <2>6, <3>1, <3>2, <3>4
    <2>15. g = Append(f, y)
      <3>1. PICK h : h = Append(f, y)
        OBVIOUS
      <3>2. /\ h \in Seq(Seq(S)) /\ Len(h) = n + 1 /\ (\A i \in 1..n : h[i] = f[i]) /\ h[n + 1] = y
        BY <2>10, <2>12, <3>1, AppendProperties
      <3>3. DOMAIN h = 1..(n + 1)
        BY <3>2
      <3>4. \A i \in 1..(n + 1) : i \in 1..n \/ i = n + 1
        BY <2>3
      <3>5. \A i \in 1..(n + 1) : g[i] = h[i]
        BY <2>14, <3>2, <3>4
      <3>6. g = [i \in 1..(n + 1) |-> g[i]]
        BY <2>11, <2>14
      <3>7. h = [i \in 1..(n + 1) |-> h[i]]
        BY <3>2, <3>3
      <3>8. g = h
        BY <3>5, <3>6, <3>7
      <3> QED BY <3>1, <3>8
    <2>16. g \in Seq(Seq(S)) /\ Len(g) = n + 1
      BY <2>10, <2>12, <2>15, AppendProperties
    <2>17. PICK t : t = FlattenSeq(f)
      OBVIOUS
    <2>18. t \in Seq(S) /\ FlattenSeq(g) = t \o y
      BY <2>10, <2>12, <2>15, <2>17, FlattenText, FlattenAppend
    <2>19. split(t \o y, ch) = q
      <3>1. CASE n = 0
        <4>1. f = << >> /\ p = << >>
          BY <2>2, <2>12, <3>1, EmptySeq
        <4>2. t = << >>
          BY <2>17, <4>1, FlattenEmpty
        <4>3. y = x
          BY <2>6, <2>9, <3>1
        <4>4. t \o y = x
          BY <2>7, <4>2, <4>3, ConcatEmptySeq
        <4>5. split(x, ch) = << x >>
          BY <2>7, SplitFree
        <4>6. q = << x >>
          BY <2>1, <4>1
        <4> QED BY <4>4, <4>5, <4>6
      <3>2. CASE n # 0
        <4>1. p # << >>
          BY <2>2, <3>2
        <4>2. split(t, ch) = p
          BY <1>5, <2>11, <2>17, <4>1
        <4>8. n + 1 # 1
          BY <2>3, <3>2
        <4>3. y = c \o x
          BY <2>6, <4>8
        <4>4. (t \o c) \o x = t \o y
          <5>1. Associative(S)
            BY Concats
          <5>2. c \in Seq(S)
            BY <2>5
          <5>3. t \in Seq(S) /\ x \in Seq(S)
            BY <2>7, <2>18
          <5>4. (t \o c) \o x = t \o (c \o x)
            BY <5>1, <5>2, <5>3 DEF Associative
          <5> QED BY <4>3, <5>4
        <4>5. split(t \o << ch >> \o x, ch) = split(t, ch) \o split(x, ch)
          BY <2>7, <2>18, SplitConcat
        <4>6. split(x, ch) = << x >>
          BY <2>7, SplitFree
        <4>7. Append(p, x) = p \o << x >>
          BY AppendIsConcat
        <4> QED BY <2>1, <2>4, <4>2, <4>4, <4>5, <4>6, <4>7
      <3> QED BY <3>1, <3>2
    <2> QED BY <2>1, <2>3, <2>11, <2>16, <2>18, <2>19
  <1>6. names \in T
    <2> HIDE DEF T
    <2>1. \A p \in Seq(pur_index), x \in pur_index : p \in T => Append(p, x) \in T
      BY <1>5
    <2>2. PICK N : N = pur_index
      OBVIOUS
    <2>3. << >> \in T /\ \A p \in Seq(N), x \in N : p \in T => Append(p, x) \in T
      BY <1>4, <2>1, <2>2
    <2>4. \A p \in Seq(N) : p \in T
      BY <2>3, TextInduction
    <2> QED BY <2>2, <2>4
  <1>7. split(FlattenSeq(Parts(names)), ch) = names
    BY <1>6
  <1> QED BY <1>2, <1>7 DEF split_comma_string, purposes_text, Comma

(***************************************************************************)
(* The purposes of a pair are the ones that were named if and only if all  *)
(* of them are known and there is one: the loop of split_comma_string and  *)
(* pur_index[...] of gdpr_metadata.hpp for any sequence of names.          *)
(***************************************************************************)
THEOREM Purposes == Spec => []PurposesReadBack
  <1>1. TextInv => PurposesReadBack
    <2> SUFFICES ASSUME TextInv, HasRead("purposes")
                 PROVE  result = ToSet(item) <=> item # << >> /\ ToSet(item) \subseteq pur_index
      BY DEF PurposesReadBack
    <2>1. PICK names : names = item
      OBVIOUS
    <2>2. names \in Seq(Seq(Elements))
      BY <2>1, QueryAssumption DEF TextInv, PurposeInv, HasRead
    <2>3. PICK read : read = split_comma_string(purposes_text(names))
      OBVIOUS
    <2>4. result = set_bitmap(read)
      BY <2>1, <2>3 DEF TextInv, PurposeInv, HasRead
    <2>5. ASSUME names # << >>, ToSet(names) \subseteq pur_index PROVE result = ToSet(names)
      <3>1. names \in Seq(pur_index)
        <4>1. PICK n : n = Len(names)
          OBVIOUS
        <4>2. n \in Nat /\ names \in [1..n -> Seq(Elements)]
          BY <2>2, <4>1, LenProperties
        <4>3. \A i \in 1..n : names[i] \in pur_index
          BY <2>5, <4>2 DEF ToSet
        <4>4. names \in [1..n -> pur_index]
          BY <4>2, <4>3
        <4> QED BY <4>2, <4>4, SeqDef
      <3>2. read = names
        BY <2>3, <2>5, <3>1, KnownPurposes
      <3>3. set_bitmap(names) = ToSet(names)
        BY <2>5 DEF set_bitmap
      <3> QED BY <2>4, <3>2, <3>3
    <2>6. ASSUME result = ToSet(names) PROVE names # << >> /\ ToSet(names) \subseteq pur_index
      <3>1. << "purpose", "0" >> \in pur_index
        BY DEF pur_index, Digits
      <3>2. result \subseteq pur_index
        BY <2>4, <3>1 DEF set_bitmap
      <3>3. purposes_text(names) \in Seq(Elements \cup {Comma})
        <4>1. PICK S : S = Elements \cup {Comma}
          OBVIOUS
        <4>2. PICK p : p = [i \in DOMAIN names |-> (IF i = 1 THEN << >> ELSE << Comma >>) \o names[i]]
          OBVIOUS
        <4>3. PICK n : n = Len(names)
          OBVIOUS
        <4>4. n \in Nat /\ DOMAIN names = 1..n /\ \A i \in 1..n : names[i] \in Seq(S)
          <5>1. n \in Nat /\ DOMAIN names = 1..n /\ \A i \in 1..n : names[i] \in Seq(Elements)
            BY <2>2, <4>3, LenProperties
          <5>2. Elements \subseteq S
            BY <4>1
          <5> QED BY <5>1, <5>2, SeqMonotonic
        <4>5. PICK c, e : c = << Comma >> /\ e = << >>
          OBVIOUS
        <4>6. c \in Seq(S) /\ e \in Seq(S)
          <5>1. PICK ch \in S : ch = Comma
            BY <4>1
          <5>2. << ch >> \in Seq(S) /\ << >> \in Seq(S)
            BY EmptySeq
          <5> QED BY <4>5, <5>1, <5>2
        <4>7. ASSUME NEW i \in 1..n PROVE (IF i = 1 THEN << >> ELSE << Comma >>) \o names[i] \in Seq(S)
          <5>1. names[i] \in Seq(S)
            BY <4>4
          <5>2. c \o names[i] \in Seq(S) /\ e \o names[i] \in Seq(S)
            BY <4>6, <5>1, ConcatFacts
          <5> QED BY <4>5, <5>2
        <4>8. p \in [1..n -> Seq(S)]
          BY <4>2, <4>4, <4>7
        <4>9. p \in Seq(Seq(S))
          BY <4>4, <4>8, SeqDef
        <4>10. FlattenSeq(p) \in Seq(S)
          BY <4>9, FlattenText
        <4> QED BY <4>1, <4>2, <4>10 DEF purposes_text, Comma
      <3>4. PICK S, t : S = Elements \cup {Comma} /\ t = purposes_text(names)
        OBVIOUS
      <3>5. t \in Seq(S)
        BY <3>3, <3>4
      <3>6. PICK ch : ch = Comma
        OBVIOUS
      <3>7. Pieces(S, ch, split(t, ch))
        BY <3>5, SplitPieces
      <3>8. read \in Seq(Seq(S)) /\ Len(read) >= 1
        BY <2>3, <3>4, <3>6, <3>7 DEF Pieces, split_comma_string, Comma
      <3>9. 1 \in DOMAIN read
        BY <3>8
      <3>10. read[1] \in ToSet(read)
        BY <3>9 DEF ToSet
      <3>11. result # {}
        BY <2>4, <3>10 DEF set_bitmap
      <3>12. names # << >>
        BY <2>6, <3>11 DEF ToSet
      <3> QED BY <2>6, <3>2, <3>12
    <2> QED BY <2>1, <2>5, <2>6
  <1> QED BY <1>1, TextsUnderWay, PTL

-----------------------------------------------------------------------------
(* Tokens and the '|' that ends them.                                      *)

Closed(p) == [i \in DOMAIN p |-> p[i] \o << Bar >>]

LEMMA ClosedTokens ==
    ASSUME NEW S, Bar \in S, NEW p \in Seq(Seq(S)), NEW x \in Seq(S)
    PROVE  /\ Closed(p) \in Seq(Seq(S))
           /\ Closed(Append(p, x)) = Append(Closed(p), x \o << Bar >>)
  <1>1. PICK bar : bar = << Bar >>
    OBVIOUS
  <1>2. bar \in Seq(S)
    BY <1>1
  <1>3. \A y \in Seq(S) : y \o bar \in Seq(S)
    BY <1>2, ConcatFacts
  <1>4. PICK n, q, f, g : n = Len(p) /\ q = Append(p, x) /\ f = Closed(p) /\ g = Closed(q)
    OBVIOUS
  <1>5. n \in Nat /\ DOMAIN p = 1..n /\ \A i \in 1..n : p[i] \in Seq(S)
    BY <1>4, LenProperties
  <1>6. /\ q \in Seq(Seq(S)) /\ Len(q) = n + 1
        /\ \A i \in 1..n : q[i] = p[i]
        /\ q[n + 1] = x
    BY <1>4, AppendProperties
  <1>7. f \in [1..n -> Seq(S)] /\ \A i \in 1..n : f[i] = p[i] \o bar
    BY <1>1, <1>3, <1>4, <1>5 DEF Closed
  <1>8. f \in Seq(Seq(S)) /\ Len(f) = n
    <2>1. f \in Seq(Seq(S))
      BY <1>5, <1>7, SeqDef
    <2> QED BY <1>5, <1>7, <2>1
  <1>9. DOMAIN q = 1..(n + 1)
    BY <1>5, <1>6
  <1>10. g = [i \in 1..(n + 1) |-> q[i] \o bar]
    BY <1>1, <1>4, <1>9 DEF Closed
  <1>11. PICK y : y = x \o bar
    OBVIOUS
  <1>12. y \in Seq(S)
    BY <1>3, <1>11
  <1>13. PICK h : h = Append(f, y)
    OBVIOUS
  <1>14. /\ h \in Seq(Seq(S)) /\ Len(h) = n + 1
         /\ \A i \in 1..n : h[i] = f[i]
         /\ h[n + 1] = y
    BY <1>8, <1>12, <1>13, AppendProperties
  <1>15. h = [i \in 1..(n + 1) |-> h[i]]
    BY <1>5, <1>14
  <1>16. \A i \in 1..(n + 1) : i \in 1..n \/ i = n + 1
    BY <1>5
  <1>17. ASSUME NEW i \in 1..(n + 1) PROVE h[i] = q[i] \o bar
    <2>1. CASE i \in 1..n
      BY <1>6, <1>7, <1>14, <2>1
    <2>2. CASE i = n + 1
      BY <1>6, <1>11, <1>14, <2>2
    <2> QED BY <1>16, <2>1, <2>2
  <1>18. g = h
    BY <1>10, <1>15, <1>17
  <1> QED BY <1>1, <1>4, <1>8, <1>11, <1>13, <1>18

LEMMA DelimitedAppend ==
    ASSUME NEW S, Bar \in S, NEW p \in Seq(Seq(S)), NEW x \in Seq(S)
    PROVE  /\ Delimited(p) \in Seq(S)
           /\ x \o << Bar >> \in Seq(S)
           /\ Delimited(Append(p, x)) = Delimited(p) \o (x \o << Bar >>)
  <1>1. PICK bar : bar = << Bar >>
    OBVIOUS
  <1>2. bar \in Seq(S)
    BY <1>1
  <1>3. PICK y : y = x \o bar
    OBVIOUS
  <1>4. y \in Seq(S)
    BY <1>2, <1>3, ConcatFacts
  <1>5. PICK f : f = Closed(p)
    OBVIOUS
  <1>6. f \in Seq(Seq(S)) /\ Closed(Append(p, x)) = Append(f, y)
    BY <1>1, <1>3, <1>5, ClosedTokens
  <1>7. FlattenSeq(f) \in Seq(S)
    BY <1>6, FlattenText
  <1>8. FlattenSeq(Append(f, y)) = FlattenSeq(f) \o y
    BY <1>4, <1>6, FlattenAppend
  <1>9. Delimited(p) = FlattenSeq(f) /\ Delimited(Append(p, x)) = FlattenSeq(Append(f, y))
    BY <1>5, <1>6 DEF Delimited, Closed
  <1> QED BY <1>1, <1>3, <1>4, <1>7, <1>8, <1>9

LEMMA DelimitedEmpty == Delimited(<< >>) = << >>
  <1>1. [i \in DOMAIN << >> |-> << >>[i] \o << Bar >>] = << >>
    OBVIOUS
  <1> QED BY <1>1, FlattenEmpty DEF Delimited

\* What follows a '|' is split for itself.
LEMMA SplitBehind ==
    ASSUME NEW S, Bar \in S, NEW x \in Seq(S), NEW w \in Seq(S)
    PROVE  /\ (x \o << Bar >>) \o w \in Seq(S)
           /\ split((x \o << Bar >>) \o w, Bar) = split(x, Bar) \o split(w, Bar)
           /\ split(x, Bar) \in Seq(Seq(S)) /\ Len(split(x, Bar)) >= 1
           /\ split(w, Bar) \in Seq(Seq(S)) /\ Len(split(w, Bar)) >= 1
           /\ Len(split((x \o << Bar >>) \o w, Bar)) = Len(split(x, Bar)) + Len(split(w, Bar))
           /\ Last(split((x \o << Bar >>) \o w, Bar)) = Last(split(w, Bar))
  <1>1. PICK ch \in S : ch = Bar
    OBVIOUS
  <1>2. PICK c : c = << ch >>
    OBVIOUS
  <1>3. c \in Seq(S)
    BY <1>2
  <1>4. PICK y : y = x \o c
    OBVIOUS
  <1>5. y \in Seq(S)
    BY <1>3, <1>4, ConcatFacts
  <1>6. y \o w \in Seq(S)
    BY <1>5, ConcatFacts
  <1>7. split(x \o << ch >> \o w, ch) = split(x, ch) \o split(w, ch)
    BY SplitConcat
  <1>8. PICK p, q : p = split(x, ch) /\ q = split(w, ch)
    OBVIOUS
  <1>9. Pieces(S, ch, p) /\ Pieces(S, ch, q)
    BY <1>8, SplitPieces
  <1>10. p \in Seq(Seq(S)) /\ q \in Seq(Seq(S)) /\ Len(p) >= 1 /\ Len(q) >= 1
    BY <1>9 DEF Pieces
  <1>11. /\ Len(p \o q) = Len(p) + Len(q)
         /\ \A i \in 1..Len(q) : (p \o q)[Len(p) + i] = q[i]
    BY <1>10, ConcatFacts
  <1>12. Last(p \o q) = Last(q)
    <2>1. Len(q) \in 1..Len(q)
      BY <1>10
    <2> QED BY <1>11, <2>1 DEF Last
  <1> QED BY <1>1, <1>2, <1>4, <1>6, <1>7, <1>8, <1>10, <1>11, <1>12

\* Tokens that a '|' ends, and what follows them.
FreeTokens(p) == \A i \in 1..Len(p) : Free(p[i], Bar)

SplitsAs(S, p, w) ==
    /\ Delimited(p) \o w \in Seq(S)
    /\ Len(split(Delimited(p) \o w, Bar)) >= Len(p) + Len(split(w, Bar))
    /\ Last(split(Delimited(p) \o w, Bar)) = Last(split(w, Bar))
    /\ FreeTokens(p) => split(Delimited(p) \o w, Bar) = p \o split(w, Bar)

LEMMA SplitDelimited ==
    ASSUME NEW S, Bar \in S, NEW p \in Seq(Seq(S)), NEW w \in Seq(S)
    PROVE  SplitsAs(S, p, w)
  <1> DEFINE T == {t \in Seq(Seq(S)) : \A v \in Seq(S) : SplitsAs(S, t, v)}
  <1>1. << >> \in T
    <2>1. << >> \in Seq(Seq(S))
      BY EmptySeq
    <2>2. ASSUME NEW v \in Seq(S) PROVE SplitsAs(S, << >>, v)
      <3>1. Delimited(<< >>) \o v = v
        BY DelimitedEmpty, ConcatEmptySeq
      <3>2. Pieces(S, Bar, split(v, Bar))
        BY SplitPieces
      <3>3. PICK q : q = split(v, Bar)
        OBVIOUS
      <3>4. q \in Seq(Seq(S))
        BY <3>2, <3>3 DEF Pieces
      <3>5. << >> \o q = q
        BY <3>4, ConcatEmptySeq
      <3>6. Len(q) >= Len(<< >>) + Len(q)
        BY <3>4
      <3> QED BY <3>1, <3>3, <3>5, <3>6 DEF SplitsAs
    <2> QED BY <2>1, <2>2
  <1>2. ASSUME NEW t \in Seq(Seq(S)), NEW x \in Seq(S), t \in T PROVE Append(t, x) \in T
    <2>1. PICK u : u = Append(t, x)
      OBVIOUS
    <2>2. /\ u \in Seq(Seq(S)) /\ Len(u) = Len(t) + 1
          /\ \A i \in 1..Len(t) : u[i] = t[i]
          /\ u[Len(t) + 1] = x
      BY <2>1, AppendProperties
    <2>3. ASSUME NEW v \in Seq(S) PROVE SplitsAs(S, u, v)
      <3>1. PICK d, b : d = Delimited(t) /\ b = x \o << Bar >>
        OBVIOUS
      <3>2. d \in Seq(S) /\ b \in Seq(S) /\ Delimited(u) = d \o b
        BY <2>1, <3>1, DelimitedAppend
      <3>3. PICK y : y = b \o v
        OBVIOUS
      <3>4. (d \o b) \o v = d \o y
        <4>1. d \in Seq(S) /\ b \in Seq(S)
          BY <3>2
        <4>2. (d \o b) \o v = d \o (b \o v)
          <5>1. Associative(S)
            BY Concats
          <5> QED BY <4>1, <5>1 DEF Associative
        <4> QED BY <3>3, <4>2
      <3>5. PICK p1, p2, p3 : p1 = split(x, Bar) /\ p2 = split(v, Bar) /\ p3 = split(y, Bar)
        OBVIOUS
      <3>6. /\ y \in Seq(S)
            /\ p3 = p1 \o p2
            /\ p1 \in Seq(Seq(S)) /\ Len(p1) >= 1
            /\ p2 \in Seq(Seq(S)) /\ Len(p2) >= 1
            /\ Len(p3) = Len(p1) + Len(p2)
            /\ Last(p3) = Last(p2)
        BY <3>1, <3>3, <3>5, SplitBehind
      <3>7. SplitsAs(S, t, y)
        BY <1>2, <3>6
      <3>8. PICK s : s = split(d \o y, Bar)
        OBVIOUS
      <3>9. /\ d \o y \in Seq(S)
            /\ Len(s) >= Len(t) + Len(p3)
            /\ Last(s) = Last(p3)
            /\ FreeTokens(t) => s = t \o p3
        BY <3>1, <3>5, <3>7, <3>8 DEF SplitsAs
      <3>10. Pieces(S, Bar, s)
        BY <3>8, <3>9, SplitPieces
      <3>11. Len(s) >= Len(u) + Len(p2)
        <4>1. Len(s) \in Nat /\ Len(t) \in Nat /\ Len(p1) \in Nat /\ Len(p2) \in Nat
          BY <3>6, <3>10 DEF Pieces
        <4> QED BY <2>2, <3>6, <3>9, <4>1
      <3>12. ASSUME FreeTokens(u) PROVE s = u \o p2
        <4>1. FreeTokens(t) /\ Free(x, Bar)
          <5>1. Len(t) \in Nat
            OBVIOUS
          <5>2. Len(t) + 1 \in 1..Len(u) /\ \A i \in 1..Len(t) : i \in 1..Len(u)
            BY <2>2, <5>1
          <5> QED BY <2>2, <3>12, <5>2 DEF FreeTokens
        <4>2. PICK e : e = << x >>
          OBVIOUS
        <4>3. p1 = e /\ e \in Seq(Seq(S))
          BY <3>5, <4>1, <4>2, SplitFree
        <4>4. u = t \o e
          BY <2>1, <4>2, AppendIsConcat
        <4>5. (t \o e) \o p2 = t \o (e \o p2)
          <5>1. PICK X : X = Seq(S)
            OBVIOUS
          <5>2. t \in Seq(X) /\ e \in Seq(X) /\ p2 \in Seq(X)
            BY <3>6, <4>3, <5>1
          <5>3. Associative(X)
            BY Concats
          <5> HIDE DEF T
          <5> QED BY <5>2, <5>3 DEF Associative
        <4> QED BY <3>6, <3>9, <4>1, <4>3, <4>4, <4>5
      <3> QED BY <3>1, <3>2, <3>4, <3>5, <3>6, <3>8, <3>9, <3>11, <3>12 DEF SplitsAs
    <2> QED BY <2>1, <2>2, <2>3
  <1>3. p \in T
    <2> HIDE DEF T
    <2>1. PICK X : X = Seq(S)
      OBVIOUS
    <2>2. << >> \in T /\ \A t \in Seq(X), x \in X : t \in T => Append(t, x) \in T
      BY <1>1, <1>2, <2>1
    <2>3. \A t \in Seq(X) : t \in T
      BY <2>2, TextInduction
    <2> QED BY <2>1, <2>3
  <1> QED BY <1>3

\* The first n tokens of a text, and the rest of it.
CutAt(S, t, p, n) ==
    \E r \in Seq(S) : t = Delimited(SubSeq(p, 1, n)) \o r /\ p = SubSeq(p, 1, n) \o split(r, Bar)

LEMMA CutNext ==
    ASSUME NEW S, Bar \in S, NEW t \in Seq(S), NEW p, NEW n \in Nat
    PROVE  p \in Seq(Seq(S)) /\ n + 1 <= Len(p) - 1 /\ CutAt(S, t, p, n) => CutAt(S, t, p, n + 1)
  <1>0. SUFFICES ASSUME p \in Seq(Seq(S)), n + 1 <= Len(p) - 1, CutAt(S, t, p, n)
                 PROVE  CutAt(S, t, p, n + 1)
    OBVIOUS
  <1>a. \A f, g, h \in Seq(Seq(S)) : (f \o g) \o h = f \o (g \o h)
    BY ConcatAssociative
  <1>b. ASSUME NEW r \in Seq(S), Len(split(r, Bar)) >= 2 PROVE FirstCut(S, Bar, r)
    BY <1>b, FirstToken
  <1>1. PICK r \in Seq(S) : t = Delimited(SubSeq(p, 1, n)) \o r /\ p = SubSeq(p, 1, n) \o split(r, Bar)
    BY <1>0 DEF CutAt
  <1>2. PICK one, q, c : one = 1 /\ q = SubSeq(p, 1, n) /\ c = split(r, Bar)
    OBVIOUS
  <1>3. q \in Seq(Seq(S)) /\ Len(q) = n
    <2>1. one \in Int /\ n \in Int /\ \A i \in one..n : p[i] \in Seq(S)
      BY <1>0, <1>2
    <2>2. /\ SubSeq(p, one, n) \in Seq(Seq(S))
          /\ Len(SubSeq(p, one, n)) = IF one <= n THEN n - one + 1 ELSE 0
      BY <2>1, SubSeqProperties
    <2>3. (IF one <= n THEN n - one + 1 ELSE 0) = n
      BY <1>2
    <2> QED BY <1>2, <2>2, <2>3
  <1>4. Pieces(S, Bar, c)
    BY <1>2, SplitPieces
  <1>5. c \in Seq(Seq(S)) /\ p = q \o c
    BY <1>1, <1>2, <1>4 DEF Pieces
  <1>6. Len(q \o c) = Len(q) + Len(c)
    <2>1. q \in Seq(Seq(S)) /\ c \in Seq(Seq(S))
      BY <1>3, <1>5
    <2> QED BY <2>1, ConcatFacts
  <1>7. Len(c) >= 2
    <2>1. Len(c) \in Nat
      BY <1>5
    <2> QED BY <1>0, <1>3, <1>5, <1>6, <2>1
  <1>8. PICK x \in Seq(S), s \in Seq(S) : r = x \o << Bar >> \o s /\ c = << x >> \o split(s, Bar)
    BY <1>2, <1>7, <1>b DEF FirstCut
  <1>9. PICK e, d : e = << x >> /\ d = split(s, Bar)
    OBVIOUS
  <1>10. Pieces(S, Bar, d)
    BY <1>9, SplitPieces
  <1>11. e \in Seq(Seq(S)) /\ d \in Seq(Seq(S))
    BY <1>9, <1>10 DEF Pieces
  <1>12. PICK u : u = q \o e
    OBVIOUS
  <1>13. u = Append(q, x)
    BY <1>3, <1>9, <1>12, AppendIsConcat
  <1>14. u \in Seq(Seq(S)) /\ Len(u) = n + 1
    BY <1>3, <1>13, AppendProperties
  <1>15. (q \o e) \o d = q \o (e \o d)
    BY <1>3, <1>11, <1>a
  <1>16. p = u \o d
    BY <1>5, <1>8, <1>9, <1>12, <1>15
  <1>17. SubSeq(p, 1, n + 1) = u
    <2>1. u \in Seq(Seq(S)) /\ d \in Seq(Seq(S))
      BY <1>11, <1>14
    <2>2. SubSeq(u \o d, 1, Len(u)) = u
      BY <2>1, ConcatParts
    <2> QED BY <1>14, <1>16, <2>2
  <1>18. t = Delimited(u) \o s
    <2>1. PICK b, f : b = x \o << Bar >> /\ f = Delimited(q)
      OBVIOUS
    <2>2. f \in Seq(S) /\ b \in Seq(S) /\ Delimited(u) = f \o b
      BY <1>3, <1>13, <2>1, DelimitedAppend
    <2>3. f \in Seq(S) /\ b \in Seq(S)
      BY <2>2
    <2>4. (f \o b) \o s = f \o (b \o s)
      BY <2>3, ConcatAssociative
    <2> QED BY <1>1, <1>2, <1>8, <2>1, <2>2, <2>4
  <1> QED BY <1>9, <1>16, <1>17, <1>18 DEF CutAt

LEMMA TokensCut ==
    ASSUME NEW S, Bar \in S, NEW t \in Seq(S), NEW p, p = split(t, Bar), NEW n \in Nat, n < Len(p)
    PROVE  CutAt(S, t, p, n)
  <1>1. Pieces(S, Bar, p)
    BY SplitPieces
  <1>2. p \in Seq(Seq(S)) /\ Len(p) \in Nat
    BY <1>1 DEF Pieces
  <1>3. CutAt(S, t, p, 0)
    <2>1. SubSeq(p, 1, 0) = << >>
      BY SubSeqEmpty
    <2>2. Delimited(<< >>) \o t = t
      BY DelimitedEmpty, ConcatEmptySeq
    <2>3. << >> \o p = p
      BY <1>2, ConcatEmptySeq
    <2> QED BY <2>1, <2>2, <2>3 DEF CutAt
  <1> DEFINE B == {k \in 0..n : ~CutAt(S, t, p, k)}
  <1>4. B = {}
    <2> SUFFICES ASSUME B # {} PROVE FALSE
      OBVIOUS
    <2>1. PICK k : k = Min(B)
      OBVIOUS
    <2>2. k \in B /\ \A i \in B : k <= i
      <3>1. B \in SUBSET Nat
        OBVIOUS
      <3> HIDE DEF B
      <3> QED BY <2>1, <3>1, FirstPosition
    <2>3. k # 0
      BY <1>3, <2>2
    <2>4. PICK j : j = k - 1
      OBVIOUS
    <2>5. k \in 0..n
      BY <2>2
    <2>6. j \in Nat /\ j \in 0..n /\ ~(k <= j) /\ j + 1 = k /\ j + 1 <= Len(p) - 1
      BY <1>2, <2>3, <2>4, <2>5
    <2>7. CutAt(S, t, p, j)
      BY <2>2, <2>6
    <2>8. CutAt(S, t, p, j + 1)
      BY <1>2, <2>6, <2>7, CutNext
    <2> QED BY <2>2, <2>6, <2>8
  <1> QED BY <1>4

-----------------------------------------------------------------------------
(* How many elements of a text are no '|'.                                 *)

Weight(s) == Cardinality({i \in 1..Len(s) : s[i] # Bar})

LEMMA WeightAppend ==
    ASSUME NEW S, NEW s \in Seq(S), NEW x \in S
    PROVE  /\ Weight(s) \in Nat
           /\ Weight(Append(s, x)) = Weight(s) + (IF x = Bar THEN 0 ELSE 1)
  <1>1. PICK u, n : u = Append(s, x) /\ n = Len(s)
    OBVIOUS
  <1>2. /\ u \in Seq(S) /\ Len(u) = n + 1 /\ n \in Nat
        /\ \A i \in 1..n : u[i] = s[i]
        /\ u[n + 1] = x
    BY <1>1, AppendProperties
  <1>3. PICK I, J : I = {i \in 1..n : s[i] # Bar} /\ J = {i \in 1..(n + 1) : u[i] # Bar}
    OBVIOUS
  <1>4. IsFiniteSet(I) /\ Cardinality(I) \in Nat
    <2>1. PICK K, one : one = 1 /\ K = one..n
      OBVIOUS
    <2>2. one \in Int /\ n \in Int
      BY <1>2, <2>1
    <2>3. IsFiniteSet(K)
      BY <2>1, <2>2, FS_Interval
    <2>4. I \in SUBSET K
      BY <1>3, <2>1
    <2>5. IsFiniteSet(I)
      BY <2>3, <2>4, FS_Subset
    <2> QED BY <2>5, FS_CardinalityType
  <1>5. \A i \in 1..(n + 1) : i \in 1..n \/ i = n + 1
    BY <1>2
  <1>6. n + 1 \notin I /\ n + 1 \in 1..(n + 1) /\ \A i \in 1..n : i \in 1..(n + 1)
    BY <1>2, <1>3
  <1>7. CASE x = Bar
    <2>1. J = I
      BY <1>2, <1>3, <1>5, <1>6, <1>7
    <2>2. Weight(s) = Cardinality(I) /\ Weight(u) = Cardinality(J)
      BY <1>1, <1>2, <1>3 DEF Weight
    <2> QED BY <1>1, <1>4, <1>7, <2>1, <2>2
  <1>8. CASE x # Bar
    <2>1. PICK m : m = n + 1
      OBVIOUS
    <2>2. J = I \cup {m}
      BY <1>2, <1>3, <1>5, <1>6, <1>8, <2>1
    <2>3. m \notin I
      BY <1>6, <2>1
    <2>4. Cardinality(I \cup {m}) = Cardinality(I) + 1
      BY <1>4, <2>3, FS_AddElement
    <2> QED BY <1>1, <1>2, <1>3, <1>4, <1>8, <2>2, <2>4 DEF Weight
  <1> QED BY <1>7, <1>8

LEMMA WeightConcat ==
    ASSUME NEW S, NEW a \in Seq(S), NEW b \in Seq(S)
    PROVE  /\ Weight(a) \in Nat /\ Weight(b) \in Nat
           /\ Weight(a \o b) = Weight(a) + Weight(b)
  <1> DEFINE T == {t \in Seq(S) : Weight(t) \in Nat /\ Weight(a \o t) = Weight(a) + Weight(t)}
  <1>1. Weight(<< >>) = 0
    <2>1. {i \in 1..Len(<< >>) : << >>[i] # Bar} = {}
      OBVIOUS
    <2> QED BY <2>1, FS_EmptySet DEF Weight
  <1>2. Weight(a) \in Nat
    <2>1. CASE a = << >>
      BY <1>1, <2>1
    <2>2. CASE a # << >>
      <3>1. PICK s \in Seq(S), x \in S : a = Append(s, x)
        BY <2>2, SequenceEmptyOrAppend
      <3>2. Weight(s) \in Nat /\ Weight(a) = Weight(s) + (IF x = Bar THEN 0 ELSE 1)
        BY <3>1, WeightAppend
      <3> QED BY <3>2
    <2> QED BY <2>1, <2>2
  <1>3. << >> \in T
    <2>1. << >> \in Seq(S)
      BY EmptySeq
    <2>2. a \o << >> = a
      BY ConcatEmptySeq
    <2> QED BY <1>1, <1>2, <2>1, <2>2
  <1>4. ASSUME NEW t \in Seq(S), NEW x \in S, t \in T PROVE Append(t, x) \in T
    <2>1. PICK y, u : y = (IF x = Bar THEN 0 ELSE 1) /\ u = a \o t
      OBVIOUS
    <2>2. Append(t, x) \in Seq(S)
      BY AppendProperties
    <2>3. u \in Seq(S)
      BY <2>1, ConcatFacts
    <2>4. a \o Append(t, x) = Append(u, x)
      BY <2>1, ConcatAppend
    <2>5. Weight(Append(t, x)) = Weight(t) + y
      BY <2>1, WeightAppend
    <2>6. Weight(Append(u, x)) = Weight(u) + y
      BY <2>1, <2>3, WeightAppend
    <2>7. Weight(t) \in Nat /\ Weight(u) = Weight(a) + Weight(t) /\ y \in Nat
      BY <1>4, <2>1
    <2>8. Weight(t) + y \in Nat /\ Weight(u) + y = Weight(a) + (Weight(t) + y)
      BY <1>2, <2>7
    <2>9. PICK v : v = Append(t, x)
      OBVIOUS
    <2>10. Weight(v) \in Nat /\ Weight(a \o v) = Weight(a) + Weight(v) /\ v \in Seq(S)
      BY <2>2, <2>4, <2>5, <2>6, <2>8, <2>9
    <2> QED BY <2>9, <2>10
  <1>5. b \in T
    <2> HIDE DEF T
    <2>1. << >> \in T /\ \A t \in Seq(S), x \in S : t \in T => Append(t, x) \in T
      BY <1>3, <1>4
    <2>2. \A t \in Seq(S) : t \in T
      BY <2>1, TextInduction
    <2> QED BY <2>2
  <1> QED BY <1>2, <1>5

\* An element that is no '|' has a weight.
LEMMA WeightOne ==
    ASSUME NEW S, NEW s \in Seq(S), NEW i \in 1..Len(s), s[i] # Bar
    PROVE  Weight(s) >= 1
  <1>1. PICK I, n : n = Len(s) /\ I = {j \in 1..n : s[j] # Bar}
    OBVIOUS
  <1>2. IsFiniteSet(I) /\ Cardinality(I) \in Nat
    <2>1. PICK K, one : one = 1 /\ K = one..n
      OBVIOUS
    <2>2. one \in Int /\ n \in Int
      BY <1>1, <2>1
    <2>3. IsFiniteSet(K)
      BY <2>1, <2>2, FS_Interval
    <2>4. I \in SUBSET K
      BY <1>1, <2>1
    <2>5. IsFiniteSet(I)
      BY <2>3, <2>4, FS_Subset
    <2> QED BY <2>5, FS_CardinalityType
  <1>3. I # {}
    BY <1>1
  <1>4. Cardinality(I) # 0
    BY <1>2, <1>3, FS_EmptySet
  <1> QED BY <1>1, <1>2, <1>4 DEF Weight

-----------------------------------------------------------------------------
(* A stored value: eight fields and the tokens of the value.               *)

FieldNames == ToSet(PrefixFields)

MetaTokens(meta) == [i \in DOMAIN PrefixFields |-> meta[PrefixFields[i]]]

Index(f) == SelectInSeq(PrefixFields, LAMBDA g : g = f)

LEMMA PrefixFacts ==
    /\ PrefixFields \in Seq(FieldNames) /\ Len(PrefixFields) = 8 /\ DOMAIN PrefixFields = 1..8
    /\ metadata_prefix_fields = 8 /\ max_gdpr_field_guard = 9
    /\ PrefixFields[1] = "usr" /\ PrefixFields[2] = "encr" /\ PrefixFields[3] = "pur"
    /\ PrefixFields[4] = "obj" /\ PrefixFields[5] = "org" /\ PrefixFields[6] = "exp"
    /\ PrefixFields[7] = "shr" /\ PrefixFields[8] = "log"
    /\ \A i \in 1..8 : PrefixFields[i] \in FieldNames
  <1>1. PICK F : F = PrefixFields
    OBVIOUS
  <1>2. /\ Len(F) = 8 /\ DOMAIN F = 1..8
        /\ F[1] = "usr" /\ F[2] = "encr" /\ F[3] = "pur" /\ F[4] = "obj" /\ F[5] = "org"
        /\ F[6] = "exp" /\ F[7] = "shr" /\ F[8] = "log"
    BY <1>1 DEF PrefixFields
  <1>3. \A i \in 1..8 : F[i] \in FieldNames
    BY <1>1, <1>2 DEF FieldNames, ToSet
  <1>4. F \in Seq(FieldNames)
    <2>1. F = [i \in 1..8 |-> F[i]]
      BY <1>1, <1>2 DEF PrefixFields
    <2>2. F \in [1..8 -> FieldNames] /\ 8 \in Nat
      BY <1>3, <2>1
    <2> QED BY <2>2, SeqDef
  <1>5. metadata_prefix_fields = 8 /\ max_gdpr_field_guard = 9
    BY <1>1, <1>2 DEF metadata_prefix_fields, max_gdpr_field_guard
  <1> QED BY <1>1, <1>2, <1>3, <1>4, <1>5

LEMMA NamesAre == FieldNames = {"usr", "encr", "pur", "obj", "org", "exp", "shr", "log"}
  <1>1. PICK F : F = PrefixFields
    OBVIOUS
  <1>2. /\ DOMAIN F = 1..8
        /\ F[1] = "usr" /\ F[2] = "encr" /\ F[3] = "pur" /\ F[4] = "obj" /\ F[5] = "org"
        /\ F[6] = "exp" /\ F[7] = "shr" /\ F[8] = "log"
    BY <1>1, PrefixFacts
  <1>3. \A i \in 1..8 : i = 1 \/ i = 2 \/ i = 3 \/ i = 4 \/ i = 5 \/ i = 6 \/ i = 7 \/ i = 8
    OBVIOUS
  <1>4. FieldNames = {F[i] : i \in 1..8}
    BY <1>1, <1>2 DEF FieldNames, ToSet
  <1>5. FieldNames \subseteq {"usr", "encr", "pur", "obj", "org", "exp", "shr", "log"}
    BY <1>2, <1>3, <1>4
  <1>6. {F[1], F[2], F[3], F[4], F[5], F[6], F[7], F[8]} \subseteq FieldNames
    BY <1>4
  <1> QED BY <1>2, <1>5, <1>6

LEMMA IndexFacts ==
    ASSUME NEW f \in FieldNames
    PROVE  Index(f) \in 1..8 /\ PrefixFields[Index(f)] = f
  <1> DEFINE I == {i \in 1..Len(PrefixFields) : PrefixFields[i] = f}
  <1>1. Index(f) = IF I # {} THEN Min(I) ELSE 0
    BY DEF Index, SelectInSeq
  <1>2. I # {}
    <2>1. PICK i \in DOMAIN PrefixFields : f = PrefixFields[i]
      BY DEF FieldNames, ToSet
    <2> QED BY <2>1, PrefixFacts
  <1>3. I \in SUBSET Nat /\ I \subseteq 1..8
    BY PrefixFacts
  <1>4. Min(I) \in I
    <2> HIDE DEF I
    <2> QED BY <1>2, <1>3, FirstPosition
  <1> QED BY <1>1, <1>2, <1>3, <1>4

LEMMA MetaFacts ==
    ASSUME NEW S, NEW meta \in [FieldNames -> Seq(S)]
    PROVE  /\ MetaTokens(meta) \in Seq(Seq(S)) /\ Len(MetaTokens(meta)) = 8
           /\ \A i \in 1..8 : MetaTokens(meta)[i] = meta[PrefixFields[i]]
           /\ \A f \in FieldNames : MetaTokens(meta)[Index(f)] = meta[f]
  <1>1. PICK p : p = MetaTokens(meta)
    OBVIOUS
  <1>2. p = [i \in 1..8 |-> meta[PrefixFields[i]]]
    BY <1>1, PrefixFacts DEF MetaTokens
  <1>3. \A i \in 1..8 : p[i] = meta[PrefixFields[i]] /\ p[i] \in Seq(S)
    BY <1>2, PrefixFacts
  <1>4. p \in [1..8 -> Seq(S)]
    BY <1>2, <1>3
  <1>5. p \in Seq(Seq(S))
    <2>1. PICK n, X : n = 8 /\ X = Seq(S)
      OBVIOUS
    <2>2. n \in Nat /\ p \in [1..n -> X]
      BY <1>4, <2>1
    <2>3. p \in Seq(X)
      BY <2>2, SeqDef
    <2> QED BY <2>1, <2>3
  <1>6. Len(p) = 8
    BY <1>4, <1>5
  <1>7. \A f \in FieldNames : p[Index(f)] = meta[f]
    BY <1>3, IndexFacts
  <1> QED BY <1>1, <1>3, <1>5, <1>6, <1>7

\* The tokens that a '|' ends are all but the last.
LEMMA EndedFacts ==
    ASSUME NEW S, NEW t \in Seq(S), NEW p, p = split(t, Bar)
    PROVE  /\ p \in Seq(Seq(S)) /\ Len(p) >= 1 /\ Len(p) \in Nat
           /\ Ended(t) \in Seq(Seq(S))
           /\ Len(Ended(t)) = Len(p) - 1
           /\ \A i \in 1..(Len(p) - 1) : Ended(t)[i] = p[i]
           /\ FreeTokens(p)
  <1>1. Pieces(S, Bar, p)
    BY SplitPieces
  <1>2. p \in Seq(Seq(S)) /\ Len(p) >= 1 /\ Len(p) \in Nat /\ FreeTokens(p)
    BY <1>1 DEF Pieces, FreeTokens
  <1>3. PICK one, n : one = 1 /\ n = Len(p) - 1
    OBVIOUS
  <1>4. one \in Int /\ n \in Int /\ n >= 0 /\ \A i \in one..n : p[i] \in Seq(S)
    BY <1>2, <1>3
  <1>5. /\ SubSeq(p, one, n) \in Seq(Seq(S))
        /\ Len(SubSeq(p, one, n)) = IF one <= n THEN n - one + 1 ELSE 0
        /\ \A i \in 1..(n - one + 1) : SubSeq(p, one, n)[i] = p[one + i - 1]
    BY <1>4, SubSeqProperties
  <1>6. (IF one <= n THEN n - one + 1 ELSE 0) = n /\ n - one + 1 = n
        /\ \A i \in 1..n : one + i - 1 = i
    BY <1>3, <1>4
  <1>7. Ended(t) = SubSeq(p, one, n)
    BY <1>3 DEF Ended, Front
  <1> QED BY <1>2, <1>3, <1>5, <1>6, <1>7

LEMMA FilterFields ==
    ASSUME NEW S, NEW t \in Seq(S), NEW p, p = split(t, Bar)
    PROVE  Len(p) >= 9 => filter_fields(t) = [f \in FieldNames |-> p[Index(f)]]
  <1>0. SUFFICES ASSUME Len(p) >= 9 PROVE filter_fields(t) = [f \in FieldNames |-> p[Index(f)]]
    OBVIOUS
  <1>1. PICK e : e = Ended(t)
    OBVIOUS
  <1>2. Len(p) \in Nat /\ \A i \in 1..(Len(p) - 1) : e[i] = p[i]
    BY <1>1, EndedFacts
  <1>3. \A i \in 1..8 : e[i] = p[i]
    BY <1>0, <1>2
  <1>4. \A f \in FieldNames : e[Index(f)] = p[Index(f)]
    BY <1>3, IndexFacts
  <1>5. filter_fields(t) = [f \in FieldNames |-> e[Index(f)]]
    BY <1>1 DEF filter_fields, FieldNames, Index
  <1> QED BY <1>4, <1>5

\* The record of a text is known by its tokens.
RecordAt(S, t, meta, val) ==
    /\ RecordOf(t) = [meta |-> meta, val |-> val]
    /\ filter_fields(t) = meta
    /\ Len(Ended(t)) = 7 + Len(val)
    /\ Last(split(t, Bar)) = Last(val)
    /\ Front(split(t, Bar)) = MetaTokens(meta) \o Front(val)
    /\ Front(val) \in Seq(Seq(S)) /\ Len(Front(val)) = Len(val) - 1

LEMMA RecordIs ==
    ASSUME NEW S, NEW t \in Seq(S), NEW meta \in [FieldNames -> Seq(S)], NEW val
    PROVE  val \in Seq(Seq(S)) /\ Len(val) >= 1 /\ split(t, Bar) = MetaTokens(meta) \o val
             => RecordAt(S, t, meta, val)
  <1>0. SUFFICES ASSUME val \in Seq(Seq(S)), Len(val) >= 1, split(t, Bar) = MetaTokens(meta) \o val
                 PROVE  RecordAt(S, t, meta, val)
    OBVIOUS
  <1>1. PICK p, q, n : p = split(t, Bar) /\ q = MetaTokens(meta) /\ n = Len(val)
    OBVIOUS
  <1>2. /\ q \in Seq(Seq(S)) /\ Len(q) = 8
        /\ \A f \in FieldNames : q[Index(f)] = meta[f]
    BY <1>1, MetaFacts
  <1>3. n \in Nat /\ n >= 1 /\ p = q \o val /\ val \in Seq(Seq(S))
    BY <1>0, <1>1
  <1>4. /\ p \in Seq(Seq(S))
        /\ Len(p) = Len(q) + Len(val)
        /\ \A i \in 1..Len(q) : p[i] = q[i]
        /\ \A i \in 1..Len(val) : p[Len(q) + i] = val[i]
    <2>1. q \in Seq(Seq(S)) /\ val \in Seq(Seq(S))
      BY <1>0, <1>2
    <2>2. /\ q \o val \in Seq(Seq(S))
          /\ Len(q \o val) = Len(q) + Len(val)
          /\ \A i \in 1..Len(q) : (q \o val)[i] = q[i]
          /\ \A i \in 1..Len(val) : (q \o val)[Len(q) + i] = val[i]
      BY <2>1, ConcatFacts
    <2> QED BY <1>3, <2>2
  <1>5. /\ Len(p) = 8 + n
        /\ \A i \in 1..8 : p[i] = q[i]
        /\ \A i \in 1..n : p[8 + i] = val[i]
    BY <1>1, <1>2, <1>4
  <1>6. filter_fields(t) = meta
    <2>1. Len(p) >= 9
      BY <1>3, <1>5
    <2>2. filter_fields(t) = [f \in FieldNames |-> p[Index(f)]]
      BY <1>1, <2>1, FilterFields
    <2>3. \A f \in FieldNames : p[Index(f)] = meta[f]
      BY <1>2, <1>5, IndexFacts
    <2> QED BY <2>2, <2>3
  <1>7. SubSeq(p, max_gdpr_field_guard, Len(p)) = val
    <2>1. q \in Seq(Seq(S)) /\ val \in Seq(Seq(S))
      BY <1>2, <1>3
    <2>2. SubSeq(q \o val, Len(q) + 1, Len(q) + Len(val)) = val
      BY <2>1, ConcatParts
    <2>3. Len(q) + 1 = 9 /\ Len(q) + Len(val) = Len(p)
      BY <1>2, <1>4
    <2> QED BY <1>3, <2>2, <2>3, PrefixFacts
  <1>8. RecordOf(t) = [meta |-> meta, val |-> val]
    BY <1>1, <1>6, <1>7 DEF RecordOf
  <1>9. Len(Ended(t)) = 7 + n
    <2>1. Len(Ended(t)) = Len(p) - 1
      BY <1>1, EndedFacts
    <2> QED BY <1>3, <1>5, <2>1
  <1>10. Last(p) = Last(val)
    <2>1. n \in 1..n
      BY <1>3
    <2>2. p[8 + n] = val[n]
      BY <1>5, <2>1
    <2> QED BY <1>1, <1>5, <2>2 DEF Last
  <1>11. Front(val) \in Seq(Seq(S)) /\ Len(Front(val)) = n - 1
         /\ \A i \in 1..(n - 1) : Front(val)[i] = val[i]
    <2>1. PICK one, m : one = 1 /\ m = n - 1
      OBVIOUS
    <2>2. one \in Int /\ m \in Int /\ m >= 0 /\ \A i \in one..m : val[i] \in Seq(S)
      BY <1>1, <1>3, <2>1
    <2>3. /\ SubSeq(val, one, m) \in Seq(Seq(S))
          /\ Len(SubSeq(val, one, m)) = IF one <= m THEN m - one + 1 ELSE 0
          /\ \A i \in 1..(m - one + 1) : SubSeq(val, one, m)[i] = val[one + i - 1]
      BY <2>2, SubSeqProperties
    <2>4. (IF one <= m THEN m - one + 1 ELSE 0) = m /\ m - one + 1 = m
          /\ \A i \in 1..m : one + i - 1 = i
      BY <2>1, <2>2
    <2>5. Front(val) = SubSeq(val, one, m)
      BY <1>1, <2>1 DEF Front
    <2> QED BY <2>1, <2>3, <2>4, <2>5
  <1>12. Front(p) = q \o Front(val)
    <2>1. PICK g, v : g = q \o v /\ v = Front(val)
      OBVIOUS
    <2>2. q \in Seq(Seq(S)) /\ v \in Seq(Seq(S))
      BY <1>2, <1>11, <2>1
    <2>3. /\ q \o v \in Seq(Seq(S))
          /\ Len(q \o v) = Len(q) + Len(v)
          /\ \A i \in 1..Len(q) : (q \o v)[i] = q[i]
          /\ \A i \in 1..Len(v) : (q \o v)[Len(q) + i] = v[i]
      BY <2>2, ConcatFacts
    <2>4. PICK e : e = Ended(t)
      OBVIOUS
    <2>5. /\ e \in Seq(Seq(S)) /\ Len(e) = Len(p) - 1
          /\ \A i \in 1..(Len(p) - 1) : e[i] = p[i]
      BY <1>1, <2>4, EndedFacts
    <2>6. e = Front(p)
      BY <1>1, <2>4 DEF Ended
    <2>7. Len(e) = 7 + n /\ Len(g) = 7 + n
      BY <1>2, <1>3, <1>5, <1>11, <2>1, <2>3, <2>5
    <2>8. ASSUME NEW i \in 1..(7 + n) PROVE e[i] = g[i]
      <3>1. e[i] = p[i]
        <4>1. Len(p) - 1 = 7 + n
          BY <1>3, <1>5
        <4> QED BY <2>5, <4>1
      <3>2. CASE i <= 8
        <4>1. i \in 1..8
          BY <1>3, <3>2
        <4> QED BY <1>2, <1>5, <2>1, <2>3, <3>1, <4>1
      <3>3. CASE i > 8
        <4>1. PICK j : j = i - 8
          OBVIOUS
        <4>2. j \in 1..(n - 1) /\ j \in 1..n /\ 8 + j = i
          BY <1>3, <3>3, <4>1
        <4>3. p[i] = val[j]
          BY <1>5, <4>2
        <4>4. g[8 + j] = v[j]
          BY <1>2, <1>11, <2>1, <2>3, <4>2
        <4>5. v[j] = val[j]
          BY <1>11, <2>1, <4>2
        <4> QED BY <3>1, <4>2, <4>3, <4>4, <4>5
      <3>4. i \in Int
        BY <1>3
      <3> QED BY <3>2, <3>3, <3>4
    <2>9. g \in Seq(Seq(S)) /\ e \in Seq(Seq(S)) /\ Len(e) = Len(g) /\ \A i \in 1..Len(e) : e[i] = g[i]
      BY <2>1, <2>3, <2>5, <2>7, <2>8
    <2>10. e = g
      BY <2>9, SeqEqual
    <2> QED BY <2>1, <2>6, <2>10
  <1> QED BY <1>1, <1>6, <1>8, <1>9, <1>10, <1>11, <1>12 DEF RecordAt

-----------------------------------------------------------------------------
(* What follows the eighth '|', and how the writers change it.             *)

Rest(t) == SubSeq(t, Len(Delimited(SubSeq(split(t, Bar), 1, 8))) + 1, Len(t))

LEMMA StartOfEnded ==
    ASSUME NEW S, NEW t \in Seq(S), NEW p, p = split(t, Bar), NEW n \in Nat
    PROVE  n < Len(p) => SubSeq(Ended(t), 1, n) = SubSeq(p, 1, n)
  <1>0. SUFFICES ASSUME n < Len(p) PROVE SubSeq(Ended(t), 1, n) = SubSeq(p, 1, n)
    OBVIOUS
  <1>1. PICK e, a, b : e = Ended(t) /\ a = SubSeq(e, 1, n) /\ b = SubSeq(p, 1, n)
    OBVIOUS
  <1>2. /\ p \in Seq(Seq(S)) /\ Len(p) \in Nat
        /\ e \in Seq(Seq(S)) /\ Len(e) = Len(p) - 1
        /\ \A i \in 1..(Len(p) - 1) : e[i] = p[i]
    BY <1>1, EndedFacts
  <1>3. n \in 0..Len(e) /\ n \in 0..Len(p) /\ \A i \in 1..n : i \in 1..(Len(p) - 1)
    BY <1>0, <1>2
  <1>4. a \in Seq(Seq(S)) /\ Len(a) = n /\ \A i \in 1..n : a[i] = e[i]
    <2>1. e \in Seq(Seq(S)) /\ n \in 0..Len(e)
      BY <1>2, <1>3
    <2> QED BY <1>1, <2>1, StartOf
  <1>5. b \in Seq(Seq(S)) /\ Len(b) = n /\ \A i \in 1..n : b[i] = p[i]
    <2>1. p \in Seq(Seq(S)) /\ n \in 0..Len(p)
      BY <1>2, <1>3
    <2> QED BY <1>1, <2>1, StartOf
  <1>6. \A i \in 1..n : a[i] = b[i]
    BY <1>2, <1>3, <1>4, <1>5
  <1>7. a = b
    BY <1>4, <1>5, <1>6, SeqEqual
  <1> QED BY <1>1, <1>7

\* Where a text with at least nine tokens is cut.
RestAt(S, t, p, r) ==
    /\ r \in Seq(S)
    /\ SubSeq(p, 1, 8) \in Seq(Seq(S)) /\ Len(SubSeq(p, 1, 8)) = 8
    /\ \A i \in 1..8 : SubSeq(p, 1, 8)[i] = p[i]
    /\ FreeTokens(SubSeq(p, 1, 8))
    /\ Delimited(SubSeq(p, 1, 8)) \in Seq(S)
    /\ t = Delimited(SubSeq(p, 1, 8)) \o r
    /\ p = SubSeq(p, 1, 8) \o split(r, Bar)
    /\ Rest(t) = r
    /\ Len(p) = 8 + Len(split(r, Bar))
    /\ Last(p) = Last(split(r, Bar))

LEMMA RestFacts ==
    ASSUME NEW S, Bar \in S, NEW t \in Seq(S), NEW p, p = split(t, Bar)
    PROVE  Len(p) >= 9 => \E r : RestAt(S, t, p, r)
  <1>0. SUFFICES ASSUME Len(p) >= 9 PROVE \E r : RestAt(S, t, p, r)
    OBVIOUS
  <1>1. p \in Seq(Seq(S)) /\ Len(p) \in Nat /\ FreeTokens(p)
    BY EndedFacts
  <1>2. PICK n : n = 8
    OBVIOUS
  <1>3. n \in Nat /\ n < Len(p) /\ n \in 0..Len(p)
    BY <1>0, <1>1, <1>2
  <1>4. CutAt(S, t, p, n)
    BY <1>3, TokensCut
  <1>5. PICK q : q = SubSeq(p, 1, n)
    OBVIOUS
  <1>6. PICK r \in Seq(S) : t = Delimited(q) \o r /\ p = q \o split(r, Bar)
    BY <1>4, <1>5 DEF CutAt
  <1>7. q \in Seq(Seq(S)) /\ Len(q) = n /\ \A i \in 1..n : q[i] = p[i]
    <2>1. p \in Seq(Seq(S)) /\ n \in 0..Len(p)
      BY <1>1, <1>3
    <2> QED BY <1>5, <2>1, StartOf
  <1>8. FreeTokens(q)
    <2>1. \A i \in 1..Len(q) : i \in 1..Len(p) /\ q[i] = p[i]
      BY <1>1, <1>3, <1>7
    <2> QED BY <1>1, <2>1 DEF FreeTokens
  <1>9. Delimited(q) \in Seq(S)
    BY <1>7, DelimitedAppend
  <1>10. Rest(t) = r
    <2>1. PICK d : d = Delimited(q)
      OBVIOUS
    <2>2. d \in Seq(S)
      BY <1>9, <2>1
    <2>3. SubSeq(d \o r, Len(d) + 1, Len(d) + Len(r)) = r
      BY <2>2, ConcatParts
    <2>4. Len(d \o r) = Len(d) + Len(r)
      BY <2>2, ConcatFacts
    <2> QED BY <1>2, <1>5, <1>6, <2>1, <2>3, <2>4 DEF Rest
  <1>11. SplitsAs(S, q, r)
    BY <1>7, SplitDelimited
  <1>12. Pieces(S, Bar, split(r, Bar))
    BY SplitPieces
  <1>13. PICK c : c = split(r, Bar)
    OBVIOUS
  <1>14. Len(p) = 8 + Len(c)
    <2>1. q \in Seq(Seq(S)) /\ c \in Seq(Seq(S))
      BY <1>7, <1>12, <1>13 DEF Pieces
    <2>2. Len(q \o c) = Len(q) + Len(c)
      BY <2>1, ConcatFacts
    <2> QED BY <1>2, <1>6, <1>7, <1>13, <2>2
  <1>15. Last(p) = Last(c)
    BY <1>6, <1>11, <1>13 DEF SplitsAs
  <1>16. RestAt(S, t, p, r)
    BY <1>2, <1>5, <1>6, <1>7, <1>8, <1>9, <1>10, <1>13, <1>14, <1>15 DEF RestAt
  <1> QED BY <1>16

\* What follows at least eight tokens is a part of the rest.
LEMMA RestBehind ==
    ASSUME NEW S, Bar \in S, NEW x \in Seq(S), NEW z \in Seq(S)
    PROVE  Len(split(x, Bar)) >= 9 => \E y \in Seq(S) : Rest(x \o z) = y \o z
  <1>0. SUFFICES ASSUME Len(split(x, Bar)) >= 9 PROVE \E y \in Seq(S) : Rest(x \o z) = y \o z
    OBVIOUS
  <1>1. PICK p : p = split(x, Bar)
    OBVIOUS
  <1>2. PICK y : RestAt(S, x, p, y)
    BY <1>0, <1>1, RestFacts
  <1>3. PICK q, d : q = SubSeq(p, 1, 8) /\ d = Delimited(q)
    OBVIOUS
  <1>4. /\ y \in Seq(S) /\ q \in Seq(Seq(S)) /\ Len(q) = 8 /\ FreeTokens(q)
        /\ d \in Seq(S) /\ x = d \o y
    BY <1>2, <1>3 DEF RestAt
  <1>5. PICK w, t : w = y \o z /\ t = x \o z
    OBVIOUS
  <1>6. t = d \o w
    <2>1. d \in Seq(S) /\ y \in Seq(S)
      BY <1>4
    <2>2. (d \o y) \o z = d \o (y \o z)
      BY <2>1, ConcatAssociative
    <2> QED BY <1>4, <1>5, <2>2
  <1>7. w \in Seq(S)
    <2>1. y \in Seq(S)
      BY <1>4
    <2> QED BY <1>5, <2>1, ConcatFacts
  <1>8. SplitsAs(S, q, w)
    BY <1>4, <1>7, SplitDelimited
  <1>9. split(t, Bar) = q \o split(w, Bar)
    BY <1>3, <1>4, <1>6, <1>8 DEF SplitsAs
  <1>10. SubSeq(split(t, Bar), 1, 8) = q
    <2>1. PICK c : c = split(w, Bar)
      OBVIOUS
    <2>2. Pieces(S, Bar, c)
      BY <1>7, <2>1, SplitPieces
    <2>3. q \in Seq(Seq(S)) /\ c \in Seq(Seq(S))
      BY <1>4, <2>2 DEF Pieces
    <2>4. SubSeq(q \o c, 1, Len(q)) = q
      BY <2>3, ConcatParts
    <2> QED BY <1>4, <1>9, <2>1, <2>4
  <1>11. Rest(t) = w
    <2>1. d \in Seq(S) /\ w \in Seq(S)
      BY <1>4, <1>7
    <2>2. SubSeq(d \o w, Len(d) + 1, Len(d) + Len(w)) = w
      BY <2>1, ConcatParts
    <2>3. Len(d \o w) = Len(d) + Len(w)
      BY <2>1, ConcatFacts
    <2> QED BY <1>3, <1>6, <1>10, <2>2, <2>3 DEF Rest
  <1> QED BY <1>4, <1>5, <1>11

\* An update keeps what is in front of the last '|'.
UpdateAt(S, t, v, a, b) ==
    /\ a \in Seq(S) /\ b \in Seq(S) /\ a \o << Bar >> \in Seq(S)
    /\ t = (a \o << Bar >>) \o b
    /\ Free(b, Bar)
    /\ split(t, Bar) = Append(split(a, Bar), b)
    /\ rfind(t, Bar) = Len(a) + 1
    /\ Len(t) = Len(a) + 1 + Len(b)
    /\ SubSeq(t, 1, Len(a)) = a
    /\ SubSeq(t, Len(a) + 2, Len(t)) = b
    /\ update_value(t, v) = (a \o << Bar >>) \o v

LEMMA UpdateFacts ==
    ASSUME NEW S, Bar \in S, NEW t \in Seq(S), NEW v
    PROVE  Len(split(t, Bar)) >= 2 => \E a, b : UpdateAt(S, t, v, a, b)
  <1>0. SUFFICES ASSUME Len(split(t, Bar)) >= 2 PROVE \E a, b : UpdateAt(S, t, v, a, b)
    OBVIOUS
  <1>1. PICK ch \in S : ch = Bar
    OBVIOUS
  <1>2. LastCut(S, ch, t)
    BY <1>0, <1>1, LastToken
  <1>3. PICK a \in Seq(S), b \in Seq(S) : /\ Free(b, ch)
                                          /\ t = a \o << ch >> \o b
                                          /\ split(t, ch) = Append(split(a, ch), b)
    BY <1>2 DEF LastCut
  <1>4. /\ Len(a \o << ch >> \o b) = Len(a) + 1 + Len(b)
        /\ rfind(a \o << ch >> \o b, ch) = Len(a) + 1
        /\ SubSeq(a \o << ch >> \o b, 1, Len(a)) = a
        /\ SubSeq(a \o << ch >> \o b, Len(a) + 2, Len(a) + 1 + Len(b)) = b
    BY <1>3, RfindConcat
  <1>5. PICK c : c = << ch >>
    OBVIOUS
  <1>6. c \in Seq(S)
    BY <1>5
  <1>7. a \o c \in Seq(S)
    BY <1>6, ConcatFacts
  <1>8. PICK n, k, l : n = Len(a) /\ k = rfind(t, Bar) /\ l = Len(t)
    OBVIOUS
  <1>9. n \in Nat /\ k = n + 1
    BY <1>1, <1>3, <1>4, <1>8
  <1>10. between(t, 1, k) = a
    <2>1. k # NPos /\ ~(k < 1) /\ k - 1 = n
      BY <1>9 DEF NPos
    <2>2. SubSeq(t, 1, n) = a
      BY <1>3, <1>4, <1>8
    <2> QED BY <2>1, <2>2 DEF between
  <1>11. update_value(t, v) = (a \o << Bar >>) \o v
    BY <1>8, <1>10 DEF update_value
  <1>12. UpdateAt(S, t, v, a, b)
    BY <1>1, <1>3, <1>4, <1>5, <1>7, <1>11 DEF UpdateAt
  <1> QED BY <1>12

LEMMA WeightBar ==
    ASSUME NEW S, Bar \in S, NEW x \in Seq(S)
    PROVE  x \o << Bar >> \in Seq(S) /\ Weight(x \o << Bar >>) = Weight(x)
  <1>1. Append(x, Bar) = x \o << Bar >> /\ Append(x, Bar) \in Seq(S)
    BY AppendIsConcat, AppendProperties
  <1>2. Weight(Append(x, Bar)) = Weight(x) /\ Weight(x) \in Nat
    BY WeightAppend
  <1> QED BY <1>1, <1>2

\* The ninth token joins what follows its '|', as glue_ninth says.
GluedAs(S, r, c, z) ==
    /\ z \in Seq(S)
    /\ split(z, Bar) = Policy!glue_ninth(c)
    /\ Weight(z) = Weight(r)
    /\ Last(split(z, Bar)) = IF Len(c) = 2 THEN c[1] \o Last(c) ELSE Last(c)

LEMMA GlueFacts ==
    ASSUME NEW S, Bar \in S, NEW x \in Seq(S), NEW s \in Seq(S), Free(x, Bar)
    PROVE  GluedAs(S, (x \o << Bar >>) \o s, split((x \o << Bar >>) \o s, Bar), x \o s)
  <1>1. PICK z, r, c, v, y : /\ z = x \o s /\ y = x \o << Bar >> /\ r = y \o s
                             /\ c = split(s, Bar) /\ v = split(r, Bar)
    OBVIOUS
  <1>2. Pieces(S, Bar, c)
    BY <1>1, SplitPieces
  <1>3. PICK m : m = Len(c)
    OBVIOUS
  <1>4. c \in Seq(Seq(S)) /\ m \in Nat /\ m >= 1
    BY <1>2, <1>3 DEF Pieces
  <1>5. y \in Seq(S) /\ Weight(y) = Weight(x)
    BY <1>1, WeightBar
  <1>6. r \in Seq(S) /\ z \in Seq(S)
    <2>1. y \in Seq(S)
      BY <1>5
    <2> QED BY <1>1, <2>1, ConcatFacts
  <1>7. Weight(z) = Weight(r)
    <2>1. y \in Seq(S)
      BY <1>5
    <2>2. Weight(y \o s) = Weight(y) + Weight(s)
      BY <2>1, WeightConcat
    <2>3. Weight(x \o s) = Weight(x) + Weight(s)
      BY WeightConcat
    <2> QED BY <1>1, <1>5, <2>2, <2>3
  <1>8. v = << x >> \o c
    <2>1. split(r, Bar) = split(x, Bar) \o split(s, Bar)
      BY <1>1, SplitBehind
    <2>2. split(x, Bar) = << x >>
      BY SplitFree
    <2> QED BY <1>1, <2>1, <2>2
  <1>9. /\ v \in Seq(Seq(S)) /\ Len(v) = m + 1 /\ v[1] = x
        /\ \A i \in 1..m : v[1 + i] = c[i]
    <2>1. PICK e : e = << x >>
      OBVIOUS
    <2>2. e \in Seq(Seq(S)) /\ Len(e) = 1 /\ e[1] = x
      BY <2>1
    <2>3. e \in Seq(Seq(S)) /\ c \in Seq(Seq(S))
      BY <1>4, <2>2
    <2>4. /\ e \o c \in Seq(Seq(S))
          /\ Len(e \o c) = Len(e) + Len(c)
          /\ \A i \in 1..Len(e) : (e \o c)[i] = e[i]
          /\ \A i \in 1..Len(c) : (e \o c)[Len(e) + i] = c[i]
      BY <2>3, ConcatFacts
    <2>5. v = e \o c
      BY <1>8, <2>1
    <2> QED BY <1>3, <1>4, <2>2, <2>4, <2>5
  <1>10. Last(v) = Last(c)
    <2>1. m \in 1..m
      BY <1>4
    <2>2. v[1 + m] = c[m] /\ 1 + m = m + 1
      BY <1>4, <1>9, <2>1
    <2> QED BY <1>3, <1>9, <2>2 DEF Last
  <1>11. PICK j : j = x \o c[1]
    OBVIOUS
  <1>12. c[1] \in Seq(S) /\ j \in Seq(S)
    <2>1. c[1] \in Seq(S)
      BY <1>3, <1>4
    <2> QED BY <1>11, <2>1, ConcatFacts
  <1>13. PICK w : w = split(z, Bar)
    OBVIOUS
  <1>14. w = [c EXCEPT ![1] = j]
    <2>1. split(x \o s, Bar) = [split(s, Bar) EXCEPT ![1] = x \o @]
      BY SplitPrefix
    <2>2. [c EXCEPT ![1] = x \o @] = [c EXCEPT ![1] = j]
      BY <1>11
    <2> QED BY <1>1, <1>13, <2>1, <2>2
  <1>15. /\ w \in Seq(Seq(S)) /\ Len(w) = m /\ w[1] = j
         /\ \A i \in 1..m : i # 1 => w[i] = c[i]
    <2>1. 1 \in 1..Len(c)
      BY <1>3, <1>4
    <2>2. /\ [c EXCEPT ![1] = j] \in Seq(Seq(S))
          /\ Len([c EXCEPT ![1] = j]) = Len(c)
          /\ \A i \in 1..Len(c) : [c EXCEPT ![1] = j][i] = IF i = 1 THEN j ELSE c[i]
      BY <1>4, <1>12, <2>1, ExceptSeq
    <2> QED BY <1>3, <1>14, <2>1, <2>2
  <1>16. PICK h, k : h = << j >> /\ k = SubSeq(v, 3, m + 1)
    OBVIOUS
  <1>17. k \in Seq(Seq(S)) /\ Len(k) = m - 1 /\ \A i \in 1..(m - 1) : k[i] = v[i + 2]
    <2>1. PICK f, l : f = 3 /\ l = m + 1
      OBVIOUS
    <2>2. f \in Int /\ l \in Int /\ \A i \in f..l : v[i] \in Seq(S)
      BY <1>4, <1>9, <2>1
    <2>3. /\ SubSeq(v, f, l) \in Seq(Seq(S))
          /\ Len(SubSeq(v, f, l)) = IF f <= l THEN l - f + 1 ELSE 0
          /\ \A i \in 1..(l - f + 1) : SubSeq(v, f, l)[i] = v[f + i - 1]
      BY <2>2, SubSeqProperties
    <2>4. (IF f <= l THEN l - f + 1 ELSE 0) = m - 1 /\ l - f + 1 = m - 1
          /\ \A i \in 1..(m - 1) : f + i - 1 = i + 2
      BY <1>4, <2>1
    <2> QED BY <1>16, <2>1, <2>3, <2>4
  <1>18. PICK g : g = h \o k
    OBVIOUS
  <1>19. /\ g \in Seq(Seq(S)) /\ Len(g) = m /\ g[1] = j
         /\ \A i \in 1..(m - 1) : g[1 + i] = k[i]
    <2>1. h \in Seq(Seq(S)) /\ Len(h) = 1 /\ h[1] = j
      BY <1>12, <1>16
    <2>2. h \in Seq(Seq(S)) /\ k \in Seq(Seq(S))
      BY <1>17, <2>1
    <2>3. /\ h \o k \in Seq(Seq(S))
          /\ Len(h \o k) = Len(h) + Len(k)
          /\ \A i \in 1..Len(h) : (h \o k)[i] = h[i]
          /\ \A i \in 1..Len(k) : (h \o k)[Len(h) + i] = k[i]
      BY <2>2, ConcatFacts
    <2> QED BY <1>4, <1>17, <1>18, <2>1, <2>3
  <1>20. ASSUME NEW i \in 1..m PROVE g[i] = w[i]
    <2>1. CASE i = 1
      BY <1>15, <1>19, <2>1
    <2>2. CASE i # 1
      <3>1. PICK n : n = i - 1
        OBVIOUS
      <3>2. n \in 1..(m - 1) /\ 1 + n = i /\ n + 2 = 1 + i
        BY <1>4, <2>2, <3>1
      <3>3. g[i] = k[n]
        BY <1>19, <3>2
      <3>4. k[n] = v[1 + i]
        BY <1>17, <3>2
      <3>5. v[1 + i] = c[i]
        BY <1>9
      <3>6. w[i] = c[i]
        BY <1>15, <2>2
      <3> QED BY <3>3, <3>4, <3>5, <3>6
    <2> QED BY <2>1, <2>2
  <1>21. g = w
    <2>1. g \in Seq(Seq(S)) /\ w \in Seq(Seq(S)) /\ Len(g) = Len(w) /\ \A i \in 1..Len(g) : g[i] = w[i]
      BY <1>15, <1>19, <1>20
    <2> QED BY <2>1, SeqEqual
  <1>22. Policy!glue_ninth(v) = g
    <2>1. Len(v) # 1 /\ v[2] = c[1]
      <3>1. 1 \in 1..m /\ m + 1 # 1
        BY <1>4
      <3>2. v[1 + 1] = c[1]
        BY <1>9, <3>1
      <3> QED BY <1>9, <3>1, <3>2
    <2>2. v[1] \o v[2] = j
      BY <1>9, <1>11, <2>1
    <2> QED BY <1>9, <1>16, <1>18, <2>1, <2>2 DEF Policy!glue_ninth
  <1>23. Last(w) = IF Len(v) = 2 THEN v[1] \o Last(v) ELSE Last(v)
    <2>1. CASE m = 1
      <3>1. Last(w) = j /\ Last(c) = c[1] /\ Len(v) = 2
        BY <1>3, <1>9, <1>15, <2>1 DEF Last
      <3> QED BY <1>9, <1>10, <1>11, <3>1
    <2>2. CASE m # 1
      <3>1. m \in 1..m /\ m + 1 # 2
        BY <1>4, <2>2
      <3>2. w[m] = c[m]
        BY <1>15, <2>2, <3>1
      <3> QED BY <1>3, <1>9, <1>10, <1>15, <3>1, <3>2 DEF Last
    <2> QED BY <2>1, <2>2
  <1> QED BY <1>1, <1>6, <1>7, <1>13, <1>21, <1>22, <1>23 DEF GluedAs

\* The tokens that putm writes.
NewTokens(p, given) ==
    [i \in 1..8 |-> IF PrefixFields[i] \in DOMAIN given THEN given[PrefixFields[i]] ELSE p[i]]

GivenText(S, given) == \A f \in DOMAIN given : given[f] \in Seq(S)

LEMMA NewTokensText ==
    ASSUME NEW S, NEW p, NEW given
    PROVE  /\ \A i \in 1..8 : p[i] \in Seq(S)
           /\ GivenText(S, given)
           => NewTokens(p, given) \in Seq(Seq(S)) /\ Len(NewTokens(p, given)) = 8
  <1>0. SUFFICES ASSUME \A i \in 1..8 : p[i] \in Seq(S), \A f \in DOMAIN given : given[f] \in Seq(S)
                 PROVE  NewTokens(p, given) \in Seq(Seq(S)) /\ Len(NewTokens(p, given)) = 8
    BY DEF GivenText
  <1>1. PICK q, n, X : q = NewTokens(p, given) /\ n = 8 /\ X = Seq(S)
    OBVIOUS
  <1>2. q \in [1..n -> X] /\ n \in Nat
    BY <1>0, <1>1 DEF NewTokens
  <1>3. q \in Seq(X)
    BY <1>2, SeqDef
  <1>4. Len(q) = n
    BY <1>2, <1>3
  <1> QED BY <1>1, <1>3, <1>4

\* putm keeps what follows the eighth '|', but for the one that ends the ninth token.
PutmAt(S, t, p, given, r, z) ==
    /\ RestAt(S, t, p, r)
    /\ NewTokens(p, given) \in Seq(Seq(S)) /\ Len(NewTokens(p, given)) = 8
    /\ putm_value(t, given) = Delimited(NewTokens(p, given)) \o z
    /\ GluedAs(S, r, split(r, Bar), z)

\* Exactly nine tokens: the rest has no '|'.
LEMMA PutmNine ==
    ASSUME NEW S, Bar \in S, NEW t \in Seq(S), NEW p, p = split(t, Bar), NEW given, GivenText(S, given)
    PROVE  Len(p) = 9 => \E r, z : PutmAt(S, t, p, given, r, z)
  <1>0. SUFFICES ASSUME Len(p) = 9 PROVE \E r, z : PutmAt(S, t, p, given, r, z)
    OBVIOUS
  <1>1. PICK r : RestAt(S, t, p, r)
    <2>1. Len(p) >= 9
      BY <1>0
    <2> QED BY <2>1, RestFacts
  <1>2. PICK e, d, c, q : /\ e = Ended(t) /\ d = Delimited(SubSeq(p, 1, 8)) /\ c = split(r, Bar)
                          /\ q = NewTokens(p, given)
    OBVIOUS
  <1>3. /\ r \in Seq(S) /\ d \in Seq(S) /\ t = d \o r
        /\ Len(c) = 1 /\ SubSeq(p, 1, 8) \in Seq(Seq(S)) /\ Len(SubSeq(p, 1, 8)) = 8
        /\ \A i \in 1..8 : SubSeq(p, 1, 8)[i] = p[i]
    <2>1. /\ r \in Seq(S) /\ d \in Seq(S) /\ t = d \o r /\ Len(p) = 8 + Len(c)
          /\ SubSeq(p, 1, 8) \in Seq(Seq(S)) /\ Len(SubSeq(p, 1, 8)) = 8
          /\ \A i \in 1..8 : SubSeq(p, 1, 8)[i] = p[i]
      BY <1>1, <1>2 DEF RestAt
    <2>2. Pieces(S, Bar, c)
      BY <1>2, <2>1, SplitPieces
    <2>3. c \in Seq(Seq(S)) /\ Len(c) \in Nat
      BY <2>2 DEF Pieces
    <2>4. p \in Seq(Seq(S)) /\ Len(p) \in Nat
      BY EndedFacts
    <2>5. Len(c) = 1
      <3>1. PICK k, n : k = Len(c) /\ n = Len(p)
        OBVIOUS
      <3>2. k \in Nat /\ n \in Nat /\ n = 9 /\ n = 8 + k
        BY <1>0, <2>1, <2>3, <2>4, <3>1
      <3>3. k = 1
        BY <3>2
      <3> QED BY <3>1, <3>3
    <2> QED BY <2>1, <2>5
  <1>4. q \in Seq(Seq(S)) /\ Len(q) = 8
    <2>1. \A i \in 1..8 : p[i] \in Seq(S)
      <3>1. p \in Seq(Seq(S)) /\ Len(p) \in Nat
        BY EndedFacts
      <3>2. \A i \in 1..8 : i \in 1..Len(p)
        BY <1>0
      <3>3. \A i \in 1..Len(p) : p[i] \in Seq(S)
        BY <3>1
      <3> QED BY <3>2, <3>3
    <2> QED BY <1>2, <2>1, NewTokensText
  <1>5. Len(e) = 8 /\ SubSeq(e, 1, 8) = SubSeq(p, 1, 8) /\ \A i \in 1..8 : e[i] = p[i]
    <2>1. Len(e) = Len(p) - 1 /\ \A i \in 1..(Len(p) - 1) : e[i] = p[i]
      BY <1>2, EndedFacts
    <2>2. 8 \in Nat /\ 8 < Len(p)
      BY <1>0
    <2>3. PICK n : n = 8
      OBVIOUS
    <2>4. SubSeq(e, 1, n) = SubSeq(p, 1, n)
      BY <1>2, <2>2, <2>3, StartOfEnded
    <2> QED BY <1>0, <2>1, <2>3, <2>4
  <1>6. PICK f : f = Closed(q)
    OBVIOUS
  <1>7. f = [i \in 1..8 |-> q[i] \o << Bar >>]
    <2>1. DOMAIN q = 1..8
      BY <1>2 DEF NewTokens
    <2> QED BY <1>6, <2>1 DEF Closed
  <1>8. putm_value(t, given) = FlattenSeq(f) \o r
    <2>1. PICK start : start = Len(d)
      OBVIOUS
    <2>2. SubSeq(t, start + 1, Len(t)) = r
      <3>1. d \in Seq(S) /\ r \in Seq(S)
        BY <1>3
      <3>2. SubSeq(d \o r, Len(d) + 1, Len(d) + Len(r)) = r
        BY <3>1, ConcatParts
      <3>3. Len(d \o r) = Len(d) + Len(r)
        BY <3>1, ConcatFacts
      <3> QED BY <1>3, <2>1, <3>2, <3>3
    <2>3. f = [i \in 1..8 |->
                 IF i = 9 THEN e[i]
                 ELSE (IF PrefixFields[i] \in DOMAIN given THEN given[PrefixFields[i]] ELSE e[i])
                        \o << Bar >>]
      <3>1. \A i \in 1..8 : i # 9
        OBVIOUS
      <3>2. \A i \in 1..8 : q[i] = IF PrefixFields[i] \in DOMAIN given THEN given[PrefixFields[i]]
                                   ELSE e[i]
        BY <1>2, <1>5 DEF NewTokens
      <3> QED BY <1>7, <3>1, <3>2
    <2>4. max_gdpr_field_guard = 9
      BY PrefixFacts
    <2>5. (IF Len(e) < 9 THEN Len(e) ELSE 9) = 8
      BY <1>5
    <2> QED BY <1>2, <1>5, <2>1, <2>2, <2>3, <2>4, <2>5 DEF putm_value
  <1>9. Delimited(q) = FlattenSeq(f)
    BY <1>6 DEF Delimited, Closed
  <1>10. GluedAs(S, r, c, r)
    <2>1. Policy!glue_ninth(c) = c
      BY <1>3 DEF Policy!glue_ninth
    <2> QED BY <1>2, <1>3, <2>1 DEF GluedAs
  <1>11. PutmAt(S, t, p, given, r, r)
    BY <1>1, <1>2, <1>4, <1>8, <1>9, <1>10 DEF PutmAt
  <1> QED BY <1>11

\* More than nine tokens: the ninth loses its '|'.
LEMMA PutmMore ==
    ASSUME NEW S, Bar \in S, NEW t \in Seq(S), NEW p, p = split(t, Bar), NEW given, GivenText(S, given)
    PROVE  Len(p) >= 10 => \E r, z : PutmAt(S, t, p, given, r, z)
  <1>0. SUFFICES ASSUME Len(p) >= 10 PROVE \E r, z : PutmAt(S, t, p, given, r, z)
    OBVIOUS
  <1>a. \A f, g, h \in Seq(S) : (f \o g) \o h = f \o (g \o h)
    BY ConcatAssociative
  <1>1. p \in Seq(Seq(S)) /\ Len(p) \in Nat /\ FreeTokens(p)
    BY EndedFacts
  <1>b. PICK n : n = 9
    OBVIOUS
  <1>3. n \in Nat /\ n < Len(p) /\ n \in 0..Len(p) /\ 9 \in 1..Len(p)
    BY <1>0, <1>1, <1>b
  <1>2. PICK x, q8, q9, e, q : /\ x = p[9] /\ q8 = SubSeq(p, 1, 8)
                                  /\ q9 = SubSeq(p, 1, n) /\ e = Ended(t)
                                  /\ q = NewTokens(p, given)
    OBVIOUS
  <1>4. CutAt(S, t, p, n)
    BY <1>3, TokensCut
  <1>5. PICK s \in Seq(S) : t = Delimited(q9) \o s /\ p = q9 \o split(s, Bar)
    BY <1>2, <1>4 DEF CutAt
  <1>6. x \in Seq(S) /\ Free(x, Bar)
    <2>1. \A i \in 1..Len(p) : p[i] \in Seq(S)
      BY <1>1
    <2>2. \A i \in 1..Len(p) : Free(p[i], Bar)
      BY <1>1 DEF FreeTokens
    <2> QED BY <1>2, <1>3, <2>1, <2>2
  <1>7. q8 \in Seq(Seq(S)) /\ Len(q8) = 8 /\ \A i \in 1..8 : q8[i] = p[i]
    <2>1. p \in Seq(Seq(S)) /\ 8 \in 0..Len(p)
      BY <1>1, <1>3
    <2>2. PICK m : m = 8
      OBVIOUS
    <2>3. SubSeq(p, 1, m) \in Seq(Seq(S)) /\ Len(SubSeq(p, 1, m)) = m
          /\ \A i \in 1..m : SubSeq(p, 1, m)[i] = p[i]
      BY <2>1, <2>2, StartOf
    <2> QED BY <1>2, <2>2, <2>3
  <1>8. q9 = Append(q8, x)
    <2>1. q9 \in Seq(Seq(S)) /\ Len(q9) = n /\ \A i \in 1..n : q9[i] = p[i]
      <3>1. p \in Seq(Seq(S)) /\ n \in 0..Len(p)
        BY <1>1, <1>3
      <3> QED BY <1>2, <3>1, StartOf
    <2>2. PICK u : u = Append(q8, x)
      OBVIOUS
    <2>3. /\ u \in Seq(Seq(S)) /\ Len(u) = 8 + 1 /\ (\A i \in 1..8 : u[i] = q8[i]) /\ u[8 + 1] = x
      <3>0. q8 \in Seq(Seq(S)) /\ x \in Seq(S)
        BY <1>6, <1>7
      <3>1. /\ u \in Seq(Seq(S)) /\ Len(u) = Len(q8) + 1
            /\ \A i \in 1..Len(q8) : u[i] = q8[i]
            /\ u[Len(q8) + 1] = x
        BY <2>2, <3>0, AppendProperties
      <3> QED BY <1>7, <3>1
    <2>4. \A i \in 1..9 : i \in 1..8 \/ i = 9
      OBVIOUS
    <2>5. \A i \in 1..9 : q9[i] = u[i]
      <3>1. \A i \in 1..9 : q9[i] = p[i]
        BY <1>b, <2>1
      <3>2. \A i \in 1..8 : u[i] = p[i]
        BY <1>7, <2>3
      <3>3. u[9] = p[9]
        BY <1>2, <2>3
      <3> QED BY <2>4, <3>1, <3>2, <3>3
    <2>6. q9 = u
      <3>1. q9 \in Seq(Seq(S)) /\ u \in Seq(Seq(S)) /\ Len(q9) = 9 /\ Len(u) = 9
        BY <1>b, <2>1, <2>3
      <3> QED BY <2>5, <3>1, SeqEqual
    <2> QED BY <2>2, <2>6
  <1>9. PICK d, y, r, z : /\ d = Delimited(q8) /\ y = x \o << Bar >> /\ r = y \o s /\ z = x \o s
    OBVIOUS
  <1>10. d \in Seq(S) /\ y \in Seq(S) /\ Delimited(q9) = d \o y
    BY <1>6, <1>7, <1>8, <1>9, DelimitedAppend
  <1>11. t = d \o r
    <2>1. d \in Seq(S) /\ y \in Seq(S)
      BY <1>10
    <2>2. (d \o y) \o s = d \o (y \o s)
      BY <1>5, <2>1, <1>a
    <2> QED BY <1>5, <1>9, <1>10, <2>2
  <1>12. r \in Seq(S)
    <2>1. y \in Seq(S)
      BY <1>10
    <2> QED BY <1>9, <2>1, ConcatFacts
  <1>13. RestAt(S, t, p, r)
    <2>1. PICK r1 : RestAt(S, t, p, r1)
      <3>1. Len(p) >= 9
        BY <1>0, <1>1
      <3> QED BY <3>1, RestFacts
    <2>2. Rest(t) = r1
      BY <2>1 DEF RestAt
    <2>3. Rest(t) = r
      <3>1. d \in Seq(S) /\ r \in Seq(S)
        BY <1>10, <1>12
      <3>2. SubSeq(d \o r, Len(d) + 1, Len(d) + Len(r)) = r
        BY <3>1, ConcatParts
      <3>3. Len(d \o r) = Len(d) + Len(r)
        BY <3>1, ConcatFacts
      <3> QED BY <1>2, <1>9, <1>11, <3>2, <3>3 DEF Rest
    <2> QED BY <2>1, <2>2, <2>3
  <1>14. GluedAs(S, r, split(r, Bar), z)
    BY <1>6, <1>9, GlueFacts
  <1>15. q \in Seq(Seq(S)) /\ Len(q) = 8
    <2>1. \A i \in 1..8 : p[i] \in Seq(S)
      <3>1. \A i \in 1..8 : i \in 1..Len(p)
        <4>1. PICK m : m = Len(p)
          OBVIOUS
        <4>2. m \in Nat /\ m >= 10
          BY <1>0, <1>1, <4>1
        <4>3. \A i \in 1..8 : i \in 1..m
          BY <4>2
        <4> QED BY <4>1, <4>3
      <3>2. \A i \in 1..Len(p) : p[i] \in Seq(S)
        BY <1>1
      <3> QED BY <3>1, <3>2
    <2> QED BY <1>2, <2>1, NewTokensText
  <1>16. Len(e) >= 9 /\ SubSeq(e, 1, 9) = q9 /\ \A i \in 1..9 : e[i] = p[i]
    <2>0. e = Ended(t)
      BY <1>2
    <2>1. Len(e) = Len(p) - 1 /\ \A i \in 1..(Len(p) - 1) : e[i] = p[i]
      BY <2>0, EndedFacts
    <2>2. SubSeq(e, 1, n) = SubSeq(p, 1, n)
      BY <1>3, <2>0, StartOfEnded
    <2>3. PICK m, l : m = Len(p) /\ l = Len(e)
      OBVIOUS
    <2>4. m \in Nat /\ m >= 10 /\ l = m - 1
      BY <1>0, <1>1, <2>1, <2>3
    <2>5. l >= 9 /\ \A i \in 1..9 : i \in 1..(m - 1)
      BY <2>4
    <2>6. \A i \in 1..9 : e[i] = p[i]
      BY <2>1, <2>3, <2>5
    <2>7. SubSeq(e, 1, 9) = q9
      BY <1>b, <1>2, <2>2
    <2> QED BY <2>3, <2>5, <2>6, <2>7
  <1>17. PICK f, g : f = Closed(q) /\ g = Append(f, x)
    OBVIOUS
  <1>18. f = [i \in 1..8 |-> q[i] \o << Bar >>]
    <2>1. DOMAIN q = 1..8
      BY <1>2 DEF NewTokens
    <2> QED BY <1>17, <2>1 DEF Closed
  <1>19. f \in Seq(Seq(S)) /\ Len(f) = 8
    <2>1. f \in Seq(Seq(S))
      BY <1>15, <1>17, ClosedTokens
    <2> QED BY <1>18, <2>1
  <1>20. g = [i \in 1..9 |->
                IF i = 9 THEN e[i]
                ELSE (IF PrefixFields[i] \in DOMAIN given THEN given[PrefixFields[i]] ELSE e[i])
                       \o << Bar >>]
    <2>1. /\ g \in Seq(Seq(S)) /\ Len(g) = 9 /\ (\A i \in 1..8 : g[i] = f[i]) /\ g[9] = x
      <3>0. f \in Seq(Seq(S)) /\ x \in Seq(S)
        BY <1>6, <1>19
      <3>1. /\ g \in Seq(Seq(S)) /\ Len(g) = Len(f) + 1
            /\ \A i \in 1..Len(f) : g[i] = f[i]
            /\ g[Len(f) + 1] = x
        BY <1>17, <3>0, AppendProperties
      <3>2. Len(f) + 1 = 9
        BY <1>19
      <3> QED BY <1>19, <3>1, <3>2
    <2>2. g = [i \in 1..9 |-> g[i]]
      BY <2>1
    <2>3. \A i \in 1..9 : i \in 1..8 \/ i = 9
      OBVIOUS
    <2>4. \A i \in 1..8 : i # 9
      OBVIOUS
    <2>5. \A i \in 1..8 : q[i] = IF PrefixFields[i] \in DOMAIN given THEN given[PrefixFields[i]]
                                 ELSE e[i]
      <3>1. \A i \in 1..8 : e[i] = p[i]
        BY <1>16
      <3> QED BY <1>2, <3>1 DEF NewTokens
    <2>6. e[9] = x
      BY <1>2, <1>16
    <2>7. \A i \in 1..9 : g[i] = IF i = 9 THEN e[i]
                                 ELSE (IF PrefixFields[i] \in DOMAIN given
                                       THEN given[PrefixFields[i]] ELSE e[i]) \o << Bar >>
      BY <1>18, <2>1, <2>3, <2>4, <2>5, <2>6
    <2> QED BY <2>2, <2>7
  <1>21. putm_value(t, given) = FlattenSeq(g) \o s
    <2>1. PICK start, d9 : d9 = Delimited(q9) /\ start = Len(d9)
      OBVIOUS
    <2>2. SubSeq(t, start + 1, Len(t)) = s
      <3>1. d9 \in Seq(S)
        BY <1>10, <2>1, ConcatFacts
      <3>2. SubSeq(d9 \o s, Len(d9) + 1, Len(d9) + Len(s)) = s
        BY <3>1, ConcatParts
      <3>3. Len(d9 \o s) = Len(d9) + Len(s)
        BY <3>1, ConcatFacts
      <3> QED BY <1>5, <2>1, <3>2, <3>3
    <2>3. max_gdpr_field_guard = 9
      BY PrefixFacts
    <2>4. (IF Len(e) < 9 THEN Len(e) ELSE 9) = 9
      <3>1. Len(e) \in Nat
        BY <1>2, EndedFacts
      <3> QED BY <1>16, <3>1
    <2> QED BY <1>2, <1>16, <1>20, <2>1, <2>2, <2>3, <2>4 DEF putm_value
  <1>22. FlattenSeq(g) = FlattenSeq(f) \o x /\ FlattenSeq(f) \in Seq(S)
    BY <1>6, <1>17, <1>19, FlattenAppend, FlattenText
  <1>23. Delimited(q) = FlattenSeq(f)
    BY <1>17 DEF Delimited, Closed
  <1>24. putm_value(t, given) = Delimited(q) \o z
    <2>1. PICK k : k = FlattenSeq(f)
      OBVIOUS
    <2>2. k \in Seq(S)
      BY <1>22, <2>1
    <2>3. (k \o x) \o s = k \o (x \o s)
      BY <1>6, <2>2, <1>a
    <2> QED BY <1>9, <1>21, <1>22, <1>23, <2>1, <2>3
  <1>25. PutmAt(S, t, p, given, r, z)
    BY <1>2, <1>13, <1>14, <1>15, <1>24 DEF PutmAt
  <1> QED BY <1>25

LEMMA PutmFacts ==
    ASSUME NEW S, Bar \in S, NEW t \in Seq(S), NEW p, p = split(t, Bar), NEW given, GivenText(S, given)
    PROVE  Len(p) >= 9 => \E r, z : PutmAt(S, t, p, given, r, z)
  <1>1. p \in Seq(Seq(S)) /\ Len(p) \in Nat
    BY EndedFacts
  <1>2. Len(p) >= 9 => Len(p) = 9 \/ Len(p) >= 10
    <2>1. PICK n : n = Len(p)
      OBVIOUS
    <2>2. n \in Nat
      BY <1>1, <2>1
    <2>3. n >= 9 => n = 9 \/ n >= 10
      BY <2>2
    <2> QED BY <2>1, <2>3
  <1>3. Len(p) = 9 => \E r, z : PutmAt(S, t, p, given, r, z)
    BY PutmNine
  <1>4. Len(p) >= 10 => \E r, z : PutmAt(S, t, p, given, r, z)
    BY PutmMore
  <1> QED BY <1>2, <1>3, <1>4

LEMMA BarredFree ==
    ASSUME NEW S, NEW s \in Seq(S)
    PROVE  Free(s, Bar) <=> ~Barred(s)
  <1>1. ToSet(s) = {s[i] : i \in 1..Len(s)}
    BY DEF ToSet
  <1> QED BY <1>1 DEF Free, Barred

LEMMA NumberWeight ==
    ASSUME NEW S, NEW s \in Seq(S), IsNumber(s)
    PROVE  Weight(s) >= 1
  <1>1. Len(s) \in Nat /\ Len(s) # 0
    <2>1. s # << >>
      BY DEF IsNumber
    <2> QED BY <2>1
  <1>2. s[1] # Bar
    <2>1. \A x \in Digits : x # Bar
      BY DEF Digits, Bar
    <2> QED BY <2>1 DEF IsNumber
  <1>3. 1 \in 1..Len(s)
    BY <1>1
  <1> QED BY <1>2, <1>3, WeightOne

\* A text that a '|' ends weighs at least as much as each of its tokens.
AsHeavy(p) == \A i \in 1..Len(p) : Weight(Delimited(p)) >= Weight(p[i])

LEMMA DelimitedWeight ==
    ASSUME NEW S, Bar \in S, NEW p \in Seq(Seq(S))
    PROVE  AsHeavy(p)
  <1>1. PICK T : T = {q \in Seq(Seq(S)) : AsHeavy(q)}
    OBVIOUS
  <1>2. << >> \in T
    BY <1>1 DEF AsHeavy
  <1>3. ASSUME NEW q \in Seq(Seq(S)), NEW x \in Seq(S), q \in T
        PROVE  Append(q, x) \in T
    <2>1. PICK w : w = Append(q, x)
      OBVIOUS
    <2>2. /\ w \in Seq(Seq(S)) /\ Len(w) = Len(q) + 1 /\ (\A i \in 1..Len(q) : w[i] = q[i])
          /\ w[Len(q) + 1] = x
      BY <2>1, AppendProperties
    <2>3. PICK d, y, e : d = Delimited(q) /\ y = x \o << Bar >> /\ e = Delimited(w)
      OBVIOUS
    <2>4. d \in Seq(S) /\ y \in Seq(S) /\ e = d \o y
      BY <2>1, <2>3, DelimitedAppend
    <2>5. Weight(y) = Weight(x)
      BY <2>3, WeightBar
    <2>6. Weight(d) \in Nat /\ Weight(y) \in Nat /\ Weight(e) = Weight(d) + Weight(y)
      BY <2>4, WeightConcat
    <2>7. \A i \in 1..Len(q) : Weight(d) >= Weight(q[i])
      BY <1>1, <1>3, <2>3 DEF AsHeavy
    <2>8. \A i \in 1..Len(q) : Weight(q[i]) \in Nat
      <3>1. \A i \in 1..Len(q) : q[i] \in Seq(S)
        OBVIOUS
      <3>2. \A s \in Seq(S) : Weight(s) \in Nat
        BY WeightConcat
      <3> QED BY <3>1, <3>2
    <2>9. ASSUME NEW i \in 1..Len(w)
          PROVE  Weight(e) >= Weight(w[i])
      <3>1. i \in 1..Len(q) \/ i = Len(q) + 1
        BY <2>2
      <3>2. CASE i = Len(q) + 1
        <4>1. w[i] = x
          BY <2>2, <3>2
        <4>2. PICK k, l, m : k = Weight(e) /\ l = Weight(y) /\ m = Weight(d)
          OBVIOUS
        <4>3. l \in Nat /\ m \in Nat /\ k = m + l
          BY <2>6, <4>2
        <4>4. k >= l
          BY <4>3
        <4> QED BY <2>5, <4>1, <4>2, <4>4
      <3>3. CASE i \in 1..Len(q)
        <4>1. w[i] = q[i]
          BY <2>2, <3>3
        <4>2. PICK k, l, m, n : k = Weight(e) /\ l = Weight(y) /\ m = Weight(d) /\ n = Weight(q[i])
          OBVIOUS
        <4>3. l \in Nat /\ m \in Nat /\ k = m + l /\ n \in Nat /\ m >= n
          BY <2>6, <2>7, <2>8, <3>3, <4>2
        <4>4. k >= n
          BY <4>3
        <4> QED BY <4>1, <4>2, <4>4
      <3> QED BY <3>1, <3>2, <3>3
    <2>10. AsHeavy(w)
      BY <2>3, <2>9 DEF AsHeavy
    <2> QED BY <1>1, <2>1, <2>2, <2>10
  <1>4. p \in T
    <2>1. PICK X : X = Seq(S)
      OBVIOUS
    <2>2. \A q \in Seq(X), x \in X : q \in T => Append(q, x) \in T
      BY <1>3, <2>1
    <2> QED BY <1>2, <2>1, <2>2, TextInduction
  <1> QED BY <1>1, <1>4

\* A text with a number among its ended tokens has a weight.
LEMMA TokenWeight ==
    ASSUME NEW S, Bar \in S, NEW t \in Seq(S), NEW p, p = split(t, Bar), NEW i \in Nat
    PROVE  i >= 1 /\ i < Len(p) /\ IsNumber(p[i]) => Weight(t) >= 1
  <1>0. SUFFICES ASSUME i >= 1, i < Len(p), IsNumber(p[i]) PROVE Weight(t) >= 1
    OBVIOUS
  <1>1. p \in Seq(Seq(S)) /\ Len(p) \in Nat
    BY EndedFacts
  <1>2. CutAt(S, t, p, i)
    BY <1>0, TokensCut
  <1>3. PICK q : q = SubSeq(p, 1, i)
    OBVIOUS
  <1>4. q \in Seq(Seq(S)) /\ Len(q) = i /\ q[i] = p[i]
    <2>1. i \in 0..Len(p) /\ i \in 1..i
      BY <1>0, <1>1
    <2>2. q \in Seq(Seq(S)) /\ Len(q) = i /\ \A j \in 1..i : q[j] = p[j]
      BY <1>1, <1>3, <2>1, StartOf
    <2> QED BY <2>1, <2>2
  <1>5. PICK r \in Seq(S) : t = Delimited(q) \o r
    BY <1>2, <1>3 DEF CutAt
  <1>6. PICK d : d = Delimited(q)
    OBVIOUS
  <1>7. d \in Seq(S)
    <2>1. << >> \in Seq(S)
      BY EmptySeq
    <2> QED BY <1>4, <1>6, <2>1, DelimitedAppend
  <1>8. Weight(d) >= Weight(q[i])
    <2>1. AsHeavy(q)
      BY <1>4, DelimitedWeight
    <2>2. i \in 1..Len(q)
      BY <1>0, <1>4
    <2> QED BY <1>6, <2>1, <2>2 DEF AsHeavy
  <1>9. q[i] \in Seq(S)
    <2>1. i \in 1..Len(q)
      BY <1>0, <1>4
    <2> QED BY <1>4, <2>1
  <1>10. Weight(q[i]) >= 1 /\ Weight(q[i]) \in Nat
    <2>1. IsNumber(q[i])
      BY <1>0, <1>4
    <2> QED BY <1>9, <2>1, NumberWeight, WeightConcat
  <1>11. Weight(d) \in Nat /\ Weight(r) \in Nat /\ Weight(t) = Weight(d) + Weight(r)
    BY <1>5, <1>6, <1>7, WeightConcat
  <1>12. PICK j, k, l, m : j = Weight(t) /\ k = Weight(d) /\ l = Weight(r) /\ m = Weight(q[i])
    OBVIOUS
  <1>13. k \in Nat /\ l \in Nat /\ m \in Nat /\ m >= 1 /\ k >= m /\ j = k + l
    BY <1>8, <1>10, <1>11, <1>12
  <1>14. j >= 1
    BY <1>13
  <1> QED BY <1>12, <1>14

\* What glue_ninth makes of the tokens of a value.
LEMMA GluedVal ==
    ASSUME NEW S, NEW v \in Seq(Seq(S)), Len(v) >= 1
    PROVE  Policy!glue_ninth(v) \in Seq(Seq(S)) /\ Len(Policy!glue_ninth(v)) >= 1
  <1>1. CASE Len(v) = 1
    BY <1>1 DEF Policy!glue_ninth
  <1>2. CASE Len(v) # 1
    <2>1. PICK n : n = Len(v)
      OBVIOUS
    <2>2. n \in Nat /\ n >= 2
      <3>1. n \in Nat /\ n >= 1 /\ n # 1
        BY <1>2, <2>1
      <3> QED BY <3>1
    <2>3. 1 \in 1..Len(v) /\ 2 \in 1..Len(v)
      BY <2>1, <2>2
    <2>4. v[1] \in Seq(S) /\ v[2] \in Seq(S)
      BY <2>3
    <2>5. v[1] \o v[2] \in Seq(S)
      BY <2>4, ConcatFacts
    <2>6. PICK X, x, h : X = Seq(S) /\ x = v[1] \o v[2] /\ h = << x >>
      OBVIOUS
    <2>7. x \in X /\ v \in Seq(X)
      BY <2>5, <2>6
    <2>8. h \in Seq(X) /\ Len(h) = 1
      BY <2>6, <2>7
    <2>9. PICK w : w = SubSeq(v, 3, Len(v))
      OBVIOUS
    <2>10. w \in Seq(X)
      <3>1. PICK three, m : three = 3 /\ m = Len(v)
        OBVIOUS
      <3>2. \A i \in three..m : i \in 1..Len(v)
        BY <3>1
      <3>3. \A i \in three..m : v[i] \in X
        BY <2>7, <3>2
      <3>4. three \in Int /\ m \in Int
        BY <2>1, <2>2, <3>1
      <3>5. SubSeq(v, three, m) \in Seq(X)
        BY <3>3, <3>4, SubSeqProperties
      <3> QED BY <2>9, <3>1, <3>5
    <2>11. h \o w \in Seq(X) /\ Len(h \o w) = Len(h) + Len(w)
      BY <2>8, <2>10, ConcatFacts
    <2>12. Len(h \o w) >= 1
      <3>1. Len(w) \in Nat
        BY <2>10
      <3>2. PICK k, l : k = Len(w) /\ l = Len(h \o w)
        OBVIOUS
      <3>3. k \in Nat /\ l = 1 + k
        BY <2>8, <2>11, <3>1, <3>2
      <3> QED BY <3>2, <3>3
    <2>13. Policy!glue_ninth(v) = h \o w
      BY <1>2, <2>6, <2>9 DEF Policy!glue_ninth
    <2> QED BY <2>6, <2>11, <2>12, <2>13
  <1> QED BY <1>1, <1>2

\* A text of at least eight ended tokens and something behind them outweighs what is behind.
Outweighs(t, v) == Weight(t) >= Weight(v) + 1 /\ Weight(Rest(t)) >= Weight(v)

LEMMA OutweighsBehind ==
    ASSUME NEW S, Bar \in S, NEW x \in Seq(S), NEW z \in Seq(S), NEW v \in Seq(S),
           NEW t, t = x \o z
    PROVE  Len(split(x, Bar)) >= 9 /\ Weight(x) >= 1 /\ Weight(z) >= Weight(v) => Outweighs(t, v)
  <1>0. SUFFICES ASSUME Len(split(x, Bar)) >= 9, Weight(x) >= 1, Weight(z) >= Weight(v)
                 PROVE  Outweighs(t, v)
    OBVIOUS
  <1>1. PICK y \in Seq(S) : Rest(t) = y \o z
    BY <1>0, RestBehind
  <1>2. Weight(x) \in Nat /\ Weight(z) \in Nat /\ Weight(t) = Weight(x) + Weight(z)
    BY WeightConcat
  <1>3. Weight(y) \in Nat /\ Weight(Rest(t)) = Weight(y) + Weight(z)
    BY <1>1, WeightConcat
  <1>4. Weight(v) \in Nat
    BY WeightConcat
  <1>5. PICK i, j, k, l, m, n : /\ i = Weight(x) /\ j = Weight(z) /\ k = Weight(y)
                                /\ l = Weight(v) /\ m = Weight(t) /\ n = Weight(Rest(t))
    OBVIOUS
  <1>6. /\ i \in Nat /\ j \in Nat /\ k \in Nat /\ l \in Nat
        /\ m = i + j /\ n = k + j /\ i >= 1 /\ j >= l
    BY <1>0, <1>2, <1>3, <1>4, <1>5
  <1>7. m >= l + 1 /\ n >= l
    BY <1>6
  <1> QED BY <1>5, <1>7 DEF Outweighs

BehindTokens(S, q, z, v, t) ==
    /\ t \in Seq(S)
    /\ Len(split(t, Bar)) >= 9
    /\ Outweighs(t, v)
    /\ Last(split(t, Bar)) = Last(split(z, Bar))
    /\ FreeTokens(q) => split(t, Bar) = q \o split(z, Bar)

\* What is written behind the eight tokens of the metadata.
LEMMA TokensBefore ==
    ASSUME NEW S, Bar \in S, NEW q \in Seq(Seq(S)), NEW z \in Seq(S), NEW v \in Seq(S),
           NEW t, t = Delimited(q) \o z
    PROVE  Len(q) = 8 /\ IsNumber(q[3]) /\ Weight(z) >= Weight(v) => BehindTokens(S, q, z, v, t)
  <1>0. SUFFICES ASSUME Len(q) = 8, IsNumber(q[3]), Weight(z) >= Weight(v)
                 PROVE  BehindTokens(S, q, z, v, t)
    OBVIOUS
  <1>1. PICK d, e : d = Delimited(q) /\ e = << >>
    OBVIOUS
  <1>2. e \in Seq(S)
    BY <1>1, EmptySeq
  <1>3. d \in Seq(S)
    BY <1>1, <1>2, DelimitedAppend
  <1>4. t \in Seq(S)
    BY <1>1, <1>3, ConcatFacts
  <1>5. SplitsAs(S, q, z)
    BY SplitDelimited
  <1>6. PICK p, c : p = split(t, Bar) /\ c = split(z, Bar)
    OBVIOUS
  <1>7. Len(p) >= 8 + Len(c) /\ Last(p) = Last(c) /\ (FreeTokens(q) => p = q \o c)
    BY <1>0, <1>5, <1>6 DEF SplitsAs
  <1>8. p \in Seq(Seq(S)) /\ Len(p) \in Nat
    BY <1>4, <1>6, EndedFacts
  <1>9. c \in Seq(Seq(S)) /\ Len(c) >= 1 /\ Len(c) \in Nat
    BY <1>6, EndedFacts
  <1>10. Len(p) >= 9
    <2>1. PICK i, j : i = Len(p) /\ j = Len(c)
      OBVIOUS
    <2>2. i \in Nat /\ j \in Nat /\ j >= 1 /\ i >= 8 + j
      BY <1>7, <1>8, <1>9, <2>1
    <2>3. i >= 9
      BY <2>2
    <2> QED BY <2>1, <2>3
  <1>11. Len(split(d, Bar)) >= 9
    <2>1. SplitsAs(S, q, e)
      BY <1>2, SplitDelimited
    <2>2. d \o e = d
      BY <1>1, <1>3
    <2>3. Len(split(d, Bar)) >= Len(q) + Len(split(e, Bar))
      BY <1>1, <2>1, <2>2 DEF SplitsAs
    <2>4. split(e, Bar) = << << >> >>
      BY <1>1, SplitEmpty
    <2>5. Len(split(e, Bar)) = 1
      BY <2>4
    <2> QED BY <1>0, <2>3, <2>5
  <1>12. Weight(d) >= 1
    <2>1. 3 \in 1..Len(q)
      BY <1>0
    <2>2. q[3] \in Seq(S)
      BY <2>1
    <2>3. Weight(q[3]) >= 1 /\ Weight(q[3]) \in Nat
      BY <1>0, <2>2, NumberWeight, WeightConcat
    <2>4. Weight(d) >= Weight(q[3])
      <3>1. AsHeavy(q)
        BY DelimitedWeight
      <3> QED BY <1>1, <2>1, <3>1 DEF AsHeavy
    <2>5. Weight(d) \in Nat
      BY <1>3, WeightConcat
    <2>6. PICK i, j : i = Weight(d) /\ j = Weight(q[3])
      OBVIOUS
    <2>7. i \in Nat /\ j \in Nat /\ i >= j /\ j >= 1
      BY <2>3, <2>4, <2>5, <2>6
    <2>8. i >= 1
      BY <2>7
    <2> QED BY <2>6, <2>8
  <1>13. Outweighs(t, v)
    <2>1. t = d \o z
      BY <1>1
    <2> QED BY <1>0, <1>3, <1>11, <1>12, <2>1, OutweighsBehind
  <1> QED BY <1>4, <1>6, <1>7, <1>10, <1>13 DEF BehindTokens

\* The text, the record and the last value of a pair belong together.
Exact(t, meta, val) ==
    /\ \A f \in FieldNames : Free(meta[f], Bar)
    /\ split(t, Bar) = MetaTokens(meta) \o val
    /\ \A f \in {"pur", "obj", "exp"} : IsNumber(meta[f])

EndsAs(t, v, glued) ==
    /\ ~glued => Last(split(t, Bar)) = Last(split(v, Bar))
    /\ glued /\ Free(v, Bar) => Len(Last(split(t, Bar))) > Len(v)

Kept(S, t, meta, val, v, barred, glued) ==
    /\ t \in Seq(S)
    /\ meta \in [FieldNames -> Seq(S)]
    /\ val \in Seq(Seq(S)) /\ Len(val) >= 1
    /\ v \in Seq(S)
    /\ Len(split(t, Bar)) >= 9
    /\ ~barred => Exact(t, meta, val)
    /\ EndsAs(t, v, glued)
    /\ Outweighs(t, v)

LEMMA InsertKept ==
    ASSUME NEW S, Bar \in S, NEW meta \in [FieldNames -> Seq(S)], NEW v \in Seq(S), NEW barred,
           NEW t, t = insert_value(meta, v)
    PROVE  /\ \A f \in {"pur", "obj", "exp"} : IsNumber(meta[f])
           /\ ~barred => \A f \in FieldNames : Free(meta[f], Bar)
           => Kept(S, t, meta, split(v, Bar), v, barred, FALSE)
  <1>0. SUFFICES ASSUME \A f \in {"pur", "obj", "exp"} : IsNumber(meta[f]),
                        ~barred => \A f \in FieldNames : Free(meta[f], Bar)
                 PROVE  Kept(S, t, meta, split(v, Bar), v, barred, FALSE)
    OBVIOUS
  <1>1. PICK q : q = MetaTokens(meta)
    OBVIOUS
  <1>2. /\ q \in Seq(Seq(S)) /\ Len(q) = 8
        /\ \A i \in 1..8 : q[i] = meta[PrefixFields[i]]
    BY <1>1, MetaFacts
  <1>3. t = Delimited(q) \o v
    BY <1>1 DEF insert_value, MetaTokens
  <1>4. IsNumber(q[3])
    BY <1>0, <1>2, PrefixFacts
  <1>5. Weight(v) >= Weight(v)
    <2>1. Weight(v) \in Nat
      BY WeightConcat
    <2> QED BY <2>1
  <1>6. BehindTokens(S, q, v, v, t)
    BY <1>2, <1>3, <1>4, <1>5, TokensBefore
  <1>7. split(v, Bar) \in Seq(Seq(S)) /\ Len(split(v, Bar)) >= 1
    BY EndedFacts
  <1>8. ASSUME ~barred PROVE Exact(t, meta, split(v, Bar))
    <2>1. \A f \in FieldNames : Free(meta[f], Bar)
      BY <1>0, <1>8
    <2>2. FreeTokens(q)
      BY <1>2, <2>1, PrefixFacts DEF FreeTokens
    <2> QED BY <1>0, <1>1, <1>6, <2>1, <2>2 DEF Exact, BehindTokens
  <1>9. EndsAs(t, v, FALSE)
    BY <1>6 DEF EndsAs, BehindTokens
  <1> QED BY <1>6, <1>7, <1>8, <1>9 DEF Kept, BehindTokens

\* The filter read three numbers from a text that it did not throw on.
LEMMA ReadNumbers ==
    ASSUME NEW S, NEW t \in Seq(S), NEW p, p = split(t, Bar)
    PROVE  Len(p) >= 9 /\ ~filter_throws(t) => IsNumber(p[3])
  <1>0. SUFFICES ASSUME Len(p) >= 9, ~filter_throws(t) PROVE IsNumber(p[3])
    OBVIOUS
  <1>1. filter_fields(t) = [f \in FieldNames |-> p[Index(f)]]
    BY <1>0, FilterFields
  <1>2. IsNumber(filter_fields(t)["pur"])
    BY <1>0 DEF filter_throws, NumbersRead
  <1>3. "pur" \in FieldNames
    BY NamesAre
  <1>4. Index("pur") = 3
    <2>1. PICK i : i = Index("pur")
      OBVIOUS
    <2>2. i \in 1..8 /\ PrefixFields[i] = "pur"
      BY <1>3, <2>1, IndexFacts
    <2>3. i = 3
      BY <2>2, PrefixFacts
    <2> QED BY <2>1, <2>3
  <1>5. filter_fields(t)["pur"] = p[3]
    BY <1>1, <1>3, <1>4
  <1> QED BY <1>2, <1>5

\* The parts of a text before and behind its last '|'.
Parted(S, p, a, b) ==
    /\ split(a, Bar) \in Seq(Seq(S))
    /\ Len(split(a, Bar)) = Len(p) - 1 /\ Len(split(a, Bar)) >= 8
    /\ split(a, Bar) = Front(p)
    /\ \A i \in 1..8 : split(a, Bar)[i] = p[i]
    /\ b = Last(p)
    /\ split(a \o << Bar >>, Bar) = split(a, Bar) \o << << >> >>
    /\ Len(split(a \o << Bar >>, Bar)) >= 9

LEMMA UpdateParts ==
    ASSUME NEW S, Bar \in S, NEW t \in Seq(S), NEW p, p = split(t, Bar), NEW v, NEW a, NEW b
    PROVE  Len(p) >= 9 /\ UpdateAt(S, t, v, a, b) => Parted(S, p, a, b)
  <1>0. SUFFICES ASSUME Len(p) >= 9, UpdateAt(S, t, v, a, b) PROVE Parted(S, p, a, b)
    OBVIOUS
  <1>1. PICK q, X : q = split(a, Bar) /\ X = Seq(S)
    OBVIOUS
  <1>2. a \in Seq(S) /\ b \in X /\ p = Append(q, b)
    BY <1>0, <1>1 DEF UpdateAt
  <1>3. q \in Seq(X) /\ Len(q) \in Nat
    BY <1>1, <1>2, EndedFacts
  <1>4. Front(p) = q /\ Last(p) = b
    BY <1>2, <1>3, FrontAppend
  <1>5. /\ Len(p) = Len(q) + 1
        /\ \A i \in 1..Len(q) : p[i] = q[i]
    BY <1>2, <1>3, AppendProperties
  <1>6. PICK n, m : n = Len(p) /\ m = Len(q)
    OBVIOUS
  <1>7. m \in Nat /\ n = m + 1 /\ n >= 9
    BY <1>0, <1>3, <1>5, <1>6
  <1>8. m = n - 1 /\ m >= 8 /\ \A i \in 1..8 : i \in 1..m
    BY <1>7
  <1>9. PICK e, y : e = << >> /\ y = a \o << Bar >>
    OBVIOUS
  <1>10. e \in Seq(S)
    BY <1>9, EmptySeq
  <1>11. split(y \o e, Bar) = q \o split(e, Bar)
    BY <1>1, <1>2, <1>9, <1>10, SplitBehind
  <1>12. y \in Seq(S)
    BY <1>0, <1>9 DEF UpdateAt
  <1>13. y \o e = y
    BY <1>9, <1>12
  <1>14. split(e, Bar) = << << >> >>
    BY <1>9, SplitEmpty
  <1>15. split(y, Bar) = q \o << << >> >>
    BY <1>11, <1>13, <1>14
  <1>16. Len(split(y, Bar)) >= 9
    <2>1. PICK z : z = << >>
      OBVIOUS
    <2>2. z \in X
      BY <1>1, <2>1, EmptySeq
    <2>3. Append(q, z) = q \o << z >>
      BY <1>3, <2>2, FrontAppend
    <2>4. Len(Append(q, z)) = Len(q) + 1
      BY <1>3, <2>2, AppendProperties
    <2>5. Len(split(y, Bar)) = m + 1
      BY <1>6, <1>15, <2>1, <2>3, <2>4
    <2> QED BY <1>7, <2>5
  <1> QED BY <1>1, <1>3, <1>4, <1>5, <1>6, <1>8, <1>9, <1>15, <1>16 DEF Parted

LEMMA UpdateKept ==
    ASSUME NEW S, Bar \in S, NEW t, NEW meta, NEW val, NEW u, NEW barred, NEW glued,
           NEW v \in Seq(S), NEW s, s = update_value(t, v)
    PROVE  Kept(S, t, meta, val, u, barred, glued) /\ ~filter_throws(t)
             => Kept(S, s, meta, Front(val) \o split(v, Bar), v, barred, FALSE)
  <1>0. SUFFICES ASSUME Kept(S, t, meta, val, u, barred, glued), ~filter_throws(t)
                 PROVE  Kept(S, s, meta, Front(val) \o split(v, Bar), v, barred, FALSE)
    OBVIOUS
  <1>1. t \in Seq(S) /\ meta \in [FieldNames -> Seq(S)] /\ val \in Seq(Seq(S)) /\ Len(val) >= 1
        /\ Len(split(t, Bar)) >= 9 /\ (~barred => Exact(t, meta, val))
    BY <1>0 DEF Kept
  <1>2. PICK p, w, X : p = split(t, Bar) /\ w = split(v, Bar) /\ X = Seq(S)
    OBVIOUS
  <1>3. p \in Seq(X) /\ Len(p) \in Nat /\ Len(p) >= 9
    BY <1>1, <1>2, EndedFacts
  <1>4. PICK a, b : UpdateAt(S, t, v, a, b)
    <2>1. Len(split(t, Bar)) >= 2
      BY <1>2, <1>3
    <2> QED BY <1>1, <2>1, UpdateFacts
  <1>5. Parted(S, p, a, b)
    BY <1>1, <1>2, <1>3, <1>4, UpdateParts
  <1>6. PICK x, q : x = a \o << Bar >> /\ q = split(a, Bar)
    OBVIOUS
  <1>7. a \in Seq(S) /\ x \in Seq(S) /\ s = x \o v
    BY <1>4, <1>6 DEF UpdateAt
  <1>8. /\ q \in Seq(X) /\ Len(q) >= 8 /\ q = Front(p) /\ Len(split(x, Bar)) >= 9
        /\ q[3] = p[3]
    BY <1>2, <1>5, <1>6 DEF Parted
  <1>9. Weight(x) >= 1
    <2>1. IsNumber(p[3])
      BY <1>0, <1>1, <1>2, <1>3, ReadNumbers
    <2>2. PICK i : i = 3
      OBVIOUS
    <2>3. i \in Nat /\ i >= 1 /\ i < Len(q) /\ IsNumber(q[i])
      BY <1>8, <2>1, <2>2
    <2>4. Weight(a) >= 1
      BY <1>6, <1>7, <2>3, TokenWeight
    <2> QED BY <1>6, <1>7, <2>4, WeightBar
  <1>10. Outweighs(s, v)
    <2>1. Weight(v) >= Weight(v)
      <3>1. Weight(v) \in Nat
        BY WeightConcat
      <3> QED BY <3>1
    <2> QED BY <1>7, <1>8, <1>9, <2>1, OutweighsBehind
  <1>11. /\ s \in Seq(S) /\ split(s, Bar) = q \o w
         /\ w \in Seq(X) /\ Len(w) >= 1
         /\ Len(split(s, Bar)) = Len(q) + Len(w)
         /\ Last(split(s, Bar)) = Last(w)
    <2>1. a \in Seq(S) /\ s = (a \o << Bar >>) \o v
      BY <1>6, <1>7
    <2>2. PICK y : y = a
      OBVIOUS
    <2>3. y \in Seq(S)
      BY <2>1, <2>2
    <2>4. PICK r : r = (y \o << Bar >>) \o v
      OBVIOUS
    <2>5. /\ r \in Seq(S) /\ split(r, Bar) = split(y, Bar) \o split(v, Bar)
          /\ split(v, Bar) \in Seq(Seq(S)) /\ Len(split(v, Bar)) >= 1
          /\ Len(split(r, Bar)) = Len(split(y, Bar)) + Len(split(v, Bar))
          /\ Last(split(r, Bar)) = Last(split(v, Bar))
      BY <2>3, <2>4, SplitBehind
    <2>6. r = s
      BY <2>1, <2>2, <2>4
    <2> QED BY <1>2, <1>6, <2>2, <2>5, <2>6
  <1>12. Len(split(s, Bar)) >= 9
    <2>1. PICK i, j, k : i = Len(split(s, Bar)) /\ j = Len(q) /\ k = Len(w)
      OBVIOUS
    <2>2. j \in Nat /\ k \in Nat /\ j >= 8 /\ k >= 1 /\ i = j + k
      BY <1>8, <1>11, <2>1
    <2>3. i >= 9
      BY <2>2
    <2> QED BY <2>1, <2>3
  <1>13. PICK f : f = Front(val)
    OBVIOUS
  <1>14. f \in Seq(X)
    BY <1>1, <1>2, <1>13, FrontText
  <1>15. f \o w \in Seq(X) /\ Len(f \o w) >= 1
    <2>1. f \o w \in Seq(X) /\ Len(f \o w) = Len(f) + Len(w)
      BY <1>11, <1>14, ConcatFacts
    <2>2. PICK i, j, k : i = Len(f \o w) /\ j = Len(f) /\ k = Len(w)
      OBVIOUS
    <2>3. j \in Nat /\ k \in Nat /\ k >= 1 /\ i = j + k
      BY <1>11, <1>14, <2>1, <2>2
    <2>4. i >= 1
      BY <2>3
    <2> QED BY <2>1, <2>2, <2>4
  <1>16. ASSUME ~barred PROVE Exact(s, meta, f \o w)
    <2>1. Exact(t, meta, val)
      BY <1>1, <1>16
    <2>2. PICK g : g = MetaTokens(meta)
      OBVIOUS
    <2>3. g \in Seq(X)
      BY <1>1, <1>2, <2>2, MetaFacts
    <2>4. p = g \o val
      BY <1>2, <2>1, <2>2 DEF Exact
    <2>5. q = g \o f
      <3>1. Front(split(t, Bar)) = MetaTokens(meta) \o Front(val)
        <4>1. val \in Seq(Seq(S)) /\ Len(val) >= 1 /\ split(t, Bar) = MetaTokens(meta) \o val
          BY <1>1, <1>2, <2>2, <2>4
        <4>2. t \in Seq(S) /\ meta \in [FieldNames -> Seq(S)]
          BY <1>1
        <4>3. RecordAt(S, t, meta, val)
          BY <4>1, <4>2, RecordIs
        <4> QED BY <4>3 DEF RecordAt
      <3> QED BY <1>2, <1>8, <1>13, <2>2, <3>1
    <2>6. (g \o f) \o w = g \o (f \o w)
      <3>1. Associative(X)
        BY Concats
      <3>2. g \in Seq(X) /\ f \in Seq(X) /\ w \in Seq(X)
        BY <1>11, <1>14, <2>3
      <3> QED BY <3>1, <3>2 DEF Associative
    <2>7. split(s, Bar) = g \o (f \o w)
      BY <1>11, <2>5, <2>6
    <2> QED BY <2>1, <2>2, <2>7 DEF Exact
  <1>17. EndsAs(s, v, FALSE)
    BY <1>2, <1>11 DEF EndsAs
  <1> QED BY <1>1, <1>2, <1>10, <1>11, <1>12, <1>13, <1>15, <1>16, <1>17 DEF Kept

\* The metadata that putm leaves.
PutmMeta(meta, given) == [f \in FieldNames |-> IF f \in DOMAIN given THEN given[f] ELSE meta[f]]

\* What the assumption on Changes says of one of them.
Change(S, given) ==
    /\ GivenText(S, given)
    /\ DOMAIN given \subseteq {"usr", "pur", "obj", "org", "shr", "log"}
    /\ \A f \in DOMAIN given : given[f] # None
    /\ \A f \in DOMAIN given : f \in {"pur", "obj"} => IsNumber(given[f])

LEMMA PutmRecord ==
    ASSUME NEW S, NEW meta \in [FieldNames -> Seq(S)], NEW val, NEW given, Change(S, given)
    PROVE  Policy!rewrite_putm([meta |-> meta, val |-> val], PutmQuery(given), 0)
             = [meta |-> PutmMeta(meta, given), val |-> Policy!glue_ninth(val)]
  <1>1. PICK q, g : q = PutmQuery(given) /\ g = PutmMeta(meta, given)
    OBVIOUS
  <1>2. q = [f \in FieldNames |-> IF f \in DOMAIN given THEN given[f] ELSE None]
    BY <1>1 DEF PutmQuery, FieldNames
  <1>3. \A f \in DOMAIN given : given[f] # None
    BY DEF Change
  <1>4. /\ DOMAIN g = FieldNames
        /\ \A f \in FieldNames : g[f] = IF q[f] = None THEN meta[f] ELSE q[f]
    BY <1>1, <1>2, <1>3 DEF PutmMeta
  <1>5. q.exp = None
    <2>1. "exp" \in FieldNames /\ "exp" \notin DOMAIN given
      BY NamesAre DEF Change
    <2> QED BY <1>2, <2>1
  <1>6. q.encr = None
    <2>1. "encr" \in FieldNames /\ "encr" \notin DOMAIN given
      BY NamesAre DEF Change
    <2> QED BY <1>2, <2>1
  <1>7. PICK m : m = [usr  |-> IF q.usr = None THEN meta.usr ELSE q.usr,
                      encr |-> meta.encr,
                      pur  |-> IF q.pur = None THEN meta.pur ELSE q.pur,
                      obj  |-> IF q.obj = None THEN meta.obj ELSE q.obj,
                      org  |-> IF q.org = None THEN meta.org ELSE q.org,
                      exp  |-> meta.exp,
                      shr  |-> IF q.shr = None THEN meta.shr ELSE q.shr,
                      log  |-> IF q.log = None THEN meta.log ELSE q.log]
    OBVIOUS
  <1>8. DOMAIN m = FieldNames
    BY <1>7, NamesAre
  <1>9. \A f \in FieldNames : m[f] = IF q[f] = None THEN meta[f] ELSE q[f]
    BY <1>5, <1>6, <1>7, NamesAre
  <1>10. m = g
    <2>1. m = [f \in FieldNames |-> m[f]] /\ g = [f \in FieldNames |-> g[f]]
      BY <1>1, <1>7, <1>8, NamesAre DEF PutmMeta
    <2>2. \A f \in FieldNames : m[f] = g[f]
      BY <1>4, <1>9
    <2> QED BY <2>1, <2>2
  <1>11. PICK r : r = [meta |-> meta, val |-> val]
    OBVIOUS
  <1>12. r.meta = meta /\ r.val = val
    BY <1>11
  <1>13. Policy!rewrite_putm(r, q, 0) = [meta |-> m, val |-> Policy!glue_ninth(val)]
    BY <1>5, <1>7, <1>12 DEF Policy!rewrite_putm, Policy!value_or
  <1> QED BY <1>1, <1>10, <1>11, <1>13

\* What Joins asks of the tokens behind the metadata.
LEMMA JoinsFacts ==
    ASSUME NEW S, NEW t \in Seq(S), NEW p, p = split(t, Bar), NEW r, NEW c, c = split(r, Bar)
    PROVE  Len(p) >= 9 /\ RestAt(S, t, p, r) => (Joins(t) <=> Len(c) = 2 /\ c[1] # << >>)
  <1>0. SUFFICES ASSUME Len(p) >= 9, RestAt(S, t, p, r)
                 PROVE  Joins(t) <=> Len(c) = 2 /\ c[1] # << >>
    OBVIOUS
  <1>1. PICK e : e = Ended(t)
    OBVIOUS
  <1>2. /\ p \in Seq(Seq(S)) /\ Len(p) \in Nat /\ e \in Seq(Seq(S)) /\ Len(e) = Len(p) - 1
        /\ \A i \in 1..(Len(p) - 1) : e[i] = p[i]
    BY <1>1, EndedFacts
  <1>3. r \in Seq(S) /\ Len(p) = 8 + Len(c)
    BY <1>0 DEF RestAt
  <1>4. PICK q : q = SubSeq(p, 1, 8)
    OBVIOUS
  <1>5. q \in Seq(Seq(S)) /\ Len(q) = 8 /\ p = q \o c
    BY <1>0, <1>4 DEF RestAt
  <1>6. c \in Seq(Seq(S)) /\ Len(c) \in Nat /\ Len(c) >= 1
    BY <1>3, EndedFacts
  <1>7. p[9] = c[1]
    <2>0. q \in Seq(Seq(S)) /\ c \in Seq(Seq(S))
      BY <1>5, <1>6
    <2>1. \A i \in 1..Len(c) : (q \o c)[Len(q) + i] = c[i]
      BY <2>0, ConcatFacts
    <2>2. PICK one : one = 1
      OBVIOUS
    <2>3. one \in 1..Len(c)
      BY <1>6, <2>2
    <2>4. p[Len(q) + one] = c[one]
      BY <1>5, <2>1, <2>3
    <2>5. Len(q) + one = 9
      BY <1>5, <2>2
    <2> QED BY <2>2, <2>4, <2>5
  <1>8. PICK n, k, m : n = Len(p) /\ k = Len(e) /\ m = Len(c)
    OBVIOUS
  <1>9. m \in Nat /\ n = 8 + m /\ k = n - 1
    BY <1>2, <1>3, <1>6, <1>8
  <1>10. k = 9 <=> m = 2
    BY <1>9
  <1>11. ASSUME m = 2 PROVE Last(e) = c[1]
    <2>1. k = 9 /\ 9 \in 1..(n - 1)
      BY <1>9, <1>11
    <2>2. Last(e) = e[9]
      BY <1>8, <2>1 DEF Last
    <2>3. e[9] = p[9]
      BY <1>2, <1>8, <2>1
    <2> QED BY <1>7, <2>2, <2>3
  <1>12. Joins(t) <=> k = 9 /\ Last(e) # << >>
    BY <1>1, <1>8, PrefixFacts DEF Joins
  <1> QED BY <1>8, <1>10, <1>11, <1>12

\* The last token behind a putm: joined to the ninth, or as it was.
LastOf(S, t, l) ==
    /\ Last(split(t, Bar)) \in Seq(S) /\ l \in Seq(S)
    /\ ~Joins(t) => l = Last(split(t, Bar))
    /\ Joins(t) => Len(l) > Len(Last(split(t, Bar)))

LEMMA PutmLast ==
    ASSUME NEW S, NEW t \in Seq(S), NEW p, p = split(t, Bar), NEW r, NEW c, c = split(r, Bar),
           NEW l, l = IF Len(c) = 2 THEN c[1] \o Last(c) ELSE Last(c)
    PROVE  Len(p) >= 9 /\ RestAt(S, t, p, r) => LastOf(S, t, l)
  <1>0. SUFFICES ASSUME Len(p) >= 9, RestAt(S, t, p, r) PROVE LastOf(S, t, l)
    OBVIOUS
  <1>1. r \in Seq(S) /\ Last(p) = Last(c)
    BY <1>0 DEF RestAt
  <1>2. c \in Seq(Seq(S)) /\ Len(c) \in Nat /\ Len(c) >= 1
    BY <1>1, EndedFacts
  <1>3. PICK x, y : x = c[1] /\ y = Last(c)
    OBVIOUS
  <1>4. x \in Seq(S) /\ y \in Seq(S)
    <2>1. 1 \in 1..Len(c) /\ Len(c) \in 1..Len(c)
      BY <1>2
    <2> QED BY <1>2, <1>3, <2>1 DEF Last
  <1>5. x \o y \in Seq(S) /\ Len(x \o y) = Len(x) + Len(y)
    BY <1>4, ConcatFacts
  <1>6. l = IF Len(c) = 2 THEN x \o y ELSE y
    BY <1>3
  <1>7. Joins(t) <=> Len(c) = 2 /\ x # << >>
    BY <1>0, <1>3, JoinsFacts
  <1>8. ASSUME ~Joins(t) PROVE l = y
    <2>1. CASE Len(c) = 2
      <3>1. x = << >>
        BY <1>7, <1>8, <2>1
      <3>2. x \o y = y
        BY <1>4, <3>1
      <3> QED BY <1>6, <2>1, <3>2
    <2>2. CASE Len(c) # 2
      BY <1>6, <2>2
    <2> QED BY <2>1, <2>2
  <1>9. ASSUME Joins(t) PROVE Len(l) > Len(y)
    <2>1. PICK i, j, k : i = Len(x) /\ j = Len(y) /\ k = Len(x \o y)
      OBVIOUS
    <2>2. i \in Nat /\ j \in Nat /\ k = i + j
      BY <1>4, <1>5, <2>1
    <2>3. i # 0
      BY <1>4, <1>7, <1>9, <2>1
    <2>4. k > j
      BY <2>2, <2>3
    <2>5. l = x \o y
      BY <1>6, <1>7, <1>9
    <2> QED BY <2>1, <2>4, <2>5
  <1>10. l \in Seq(S)
    BY <1>4, <1>5, <1>6
  <1>11. Last(split(t, Bar)) = y
    BY <1>1, <1>3
  <1> QED BY <1>4, <1>8, <1>9, <1>10, <1>11 DEF LastOf

\* The tokens that putm writes are those of the metadata it leaves.
LEMMA PutmTokens ==
    ASSUME NEW S, NEW meta \in [FieldNames -> Seq(S)], NEW p, NEW given,
           \A i \in 1..8 : p[i] = meta[PrefixFields[i]]
    PROVE  NewTokens(p, given) = MetaTokens(PutmMeta(meta, given))
  <1>1. PICK g : g = PutmMeta(meta, given)
    OBVIOUS
  <1>2. \A i \in 1..8 : g[PrefixFields[i]] =
            IF PrefixFields[i] \in DOMAIN given THEN given[PrefixFields[i]] ELSE p[i]
    BY <1>1, PrefixFacts DEF PutmMeta
  <1>3. MetaTokens(g) = [i \in 1..8 |-> g[PrefixFields[i]]]
    BY PrefixFacts DEF MetaTokens
  <1> QED BY <1>1, <1>2, <1>3 DEF NewTokens

LEMMA PutmMetaText ==
    ASSUME NEW S, NEW meta \in [FieldNames -> Seq(S)], NEW given, Change(S, given)
    PROVE  PutmMeta(meta, given) \in [FieldNames -> Seq(S)]
  BY DEF Change, GivenText, PutmMeta

\* The purposes that putm writes are a number again.
LEMMA PutmNumber ==
    ASSUME NEW S, NEW p, NEW given, Change(S, given), IsNumber(p[3])
    PROVE  IsNumber(NewTokens(p, given)[3])
  <1>1. NewTokens(p, given)[3] = IF "pur" \in DOMAIN given THEN given["pur"] ELSE p[3]
    BY PrefixFacts DEF NewTokens
  <1>2. "pur" \in DOMAIN given => IsNumber(given["pur"])
    BY DEF Change
  <1> QED BY <1>1, <1>2

LEMMA PutmExact ==
    ASSUME NEW S, Bar \in S, NEW t \in Seq(S), NEW meta \in [FieldNames -> Seq(S)],
           NEW val \in Seq(Seq(S)), NEW given, Change(S, given), NEW p, p = split(t, Bar),
           NEW r, NEW c, c = split(r, Bar), NEW s, NEW z, NEW v
    PROVE  /\ Len(p) >= 9 /\ RestAt(S, t, p, r) /\ Exact(t, meta, val)
           /\ \A f \in DOMAIN given : Free(given[f], Bar)
           /\ BehindTokens(S, NewTokens(p, given), z, v, s)
           /\ split(z, Bar) = Policy!glue_ninth(c)
           => Exact(s, PutmMeta(meta, given), Policy!glue_ninth(val))
  <1>0. SUFFICES ASSUME Len(p) >= 9, RestAt(S, t, p, r), Exact(t, meta, val),
                        \A f \in DOMAIN given : Free(given[f], Bar),
                        BehindTokens(S, NewTokens(p, given), z, v, s),
                        split(z, Bar) = Policy!glue_ninth(c)
                 PROVE  Exact(s, PutmMeta(meta, given), Policy!glue_ninth(val))
    OBVIOUS
  <1>1. PICK X, q, g : X = Seq(S) /\ q = SubSeq(p, 1, 8) /\ g = MetaTokens(meta)
    OBVIOUS
  <1>2. r \in Seq(S) /\ q \in Seq(X) /\ Len(q) = 8 /\ p = q \o c /\ \A i \in 1..8 : q[i] = p[i]
    BY <1>0, <1>1 DEF RestAt
  <1>3. c \in Seq(X)
    BY <1>1, <1>2, EndedFacts
  <1>4. g \in Seq(X) /\ Len(g) = 8 /\ \A i \in 1..8 : g[i] = meta[PrefixFields[i]]
    BY <1>1, MetaFacts
  <1>5. p = g \o val
    BY <1>0, <1>1 DEF Exact
  <1>6. c = val /\ q = g
    <2>1. val \in Seq(X) /\ q \o c = g \o val
      BY <1>1, <1>2, <1>5
    <2> QED BY <1>2, <1>3, <1>4, <2>1, SameBehind
  <1>7. \A i \in 1..8 : p[i] = meta[PrefixFields[i]]
    BY <1>2, <1>4, <1>6
  <1>8. PICK h, n : h = PutmMeta(meta, given) /\ n = NewTokens(p, given)
    OBVIOUS
  <1>9. n = MetaTokens(h)
    BY <1>7, <1>8, PutmTokens
  <1>10. h \in [FieldNames -> Seq(S)]
    BY <1>8, PutmMetaText
  <1>11. \A f \in FieldNames : Free(h[f], Bar)
    <2>1. \A f \in FieldNames : Free(meta[f], Bar)
      BY <1>0 DEF Exact
    <2> QED BY <1>0, <1>8, <2>1 DEF PutmMeta
  <1>12. FreeTokens(n)
    <2>1. Len(n) = 8 /\ \A i \in 1..8 : n[i] = h[PrefixFields[i]]
      BY <1>9, <1>10, MetaFacts
    <2> QED BY <1>11, <2>1, PrefixFacts DEF FreeTokens
  <1>13. split(s, Bar) = n \o split(z, Bar)
    BY <1>0, <1>8, <1>12 DEF BehindTokens
  <1>14. split(s, Bar) = MetaTokens(h) \o Policy!glue_ninth(val)
    BY <1>0, <1>6, <1>9, <1>13
  <1>15. \A f \in {"pur", "obj", "exp"} : IsNumber(h[f])
    <2>1. \A f \in {"pur", "obj", "exp"} : f \in FieldNames
      BY NamesAre
    <2>2. \A f \in {"pur", "obj", "exp"} : IsNumber(meta[f])
      BY <1>0 DEF Exact
    <2>3. \A f \in {"pur", "obj", "exp"} : f \in DOMAIN given => IsNumber(given[f])
      BY DEF Change
    <2>4. \A f \in {"pur", "obj", "exp"} :
              h[f] = IF f \in DOMAIN given THEN given[f] ELSE meta[f]
      BY <1>8, <2>1 DEF PutmMeta
    <2> QED BY <2>2, <2>3, <2>4
  <1> QED BY <1>8, <1>11, <1>14, <1>15 DEF Exact

LEMMA PutmKept ==
    ASSUME NEW S, Bar \in S, NEW t, NEW meta, NEW val, NEW v, NEW barred, NEW glued,
           NEW given, Change(S, given), NEW now_barred, NEW s, s = putm_value(t, given)
    PROVE  /\ Kept(S, t, meta, val, v, barred, glued) /\ ~filter_throws(t)
           /\ ~now_barred => ~barred /\ \A f \in DOMAIN given : Free(given[f], Bar)
           => Kept(S, s, PutmMeta(meta, given), Policy!glue_ninth(val), v, now_barred,
                   glued \/ Joins(t))
  <1>0. SUFFICES ASSUME Kept(S, t, meta, val, v, barred, glued), ~filter_throws(t),
                        ~now_barred => ~barred /\ \A f \in DOMAIN given : Free(given[f], Bar)
                 PROVE  Kept(S, s, PutmMeta(meta, given), Policy!glue_ninth(val), v, now_barred,
                             glued \/ Joins(t))
    OBVIOUS
  <1>1. /\ t \in Seq(S) /\ meta \in [FieldNames -> Seq(S)] /\ val \in Seq(Seq(S)) /\ Len(val) >= 1
        /\ v \in Seq(S) /\ (~barred => Exact(t, meta, val)) /\ EndsAs(t, v, glued)
        /\ Outweighs(t, v)
    BY <1>0 DEF Kept
  <1>2. PICK p : p = split(t, Bar)
    OBVIOUS
  <1>3. Len(p) >= 9
    BY <1>0, <1>2 DEF Kept
  <1>4. GivenText(S, given)
    BY DEF Change
  <1>5. PICK r, z : PutmAt(S, t, p, given, r, z)
    BY <1>1, <1>2, <1>3, <1>4, PutmFacts
  <1>6. PICK q, c : q = NewTokens(p, given) /\ c = split(r, Bar)
    OBVIOUS
  <1>7. /\ RestAt(S, t, p, r) /\ q \in Seq(Seq(S)) /\ Len(q) = 8 /\ s = Delimited(q) \o z
        /\ GluedAs(S, r, c, z)
    BY <1>5, <1>6 DEF PutmAt
  <1>8. /\ z \in Seq(S) /\ split(z, Bar) = Policy!glue_ninth(c) /\ Weight(z) = Weight(r)
        /\ Last(split(z, Bar)) = IF Len(c) = 2 THEN c[1] \o Last(c) ELSE Last(c)
    BY <1>7 DEF GluedAs
  <1>9. Weight(z) >= Weight(v)
    <2>1. Rest(t) = r
      BY <1>7 DEF RestAt
    <2> QED BY <1>1, <1>8, <2>1 DEF Outweighs
  <1>10. IsNumber(q[3])
    <2>1. IsNumber(p[3])
      BY <1>0, <1>1, <1>2, <1>3, ReadNumbers
    <2> QED BY <1>6, <2>1, PutmNumber
  <1>11. BehindTokens(S, q, z, v, s)
    <2>1. v \in Seq(S)
      BY <1>1
    <2> QED BY <1>7, <1>8, <1>9, <1>10, <2>1, TokensBefore
  <1>12. ASSUME ~now_barred
         PROVE  Exact(s, PutmMeta(meta, given), Policy!glue_ninth(val))
    <2>1. Exact(t, meta, val) /\ \A f \in DOMAIN given : Free(given[f], Bar)
      BY <1>0, <1>1, <1>12
    <2>2. t \in Seq(S) /\ meta \in [FieldNames -> Seq(S)] /\ val \in Seq(Seq(S))
      BY <1>1
    <2> QED BY <1>2, <1>3, <1>6, <1>7, <1>8, <1>11, <2>1, <2>2, PutmExact
  <1>13. PICK l : l = Last(split(s, Bar))
    OBVIOUS
  <1>14. LastOf(S, t, l)
    <2>1. l = IF Len(c) = 2 THEN c[1] \o Last(c) ELSE Last(c)
      BY <1>8, <1>11, <1>13 DEF BehindTokens
    <2>2. t \in Seq(S)
      BY <1>1
    <2> QED BY <1>2, <1>3, <1>6, <1>7, <2>1, <2>2, PutmLast
  <1>15. ASSUME ~glued, ~Joins(t) PROVE l = Last(split(v, Bar))
    <2>1. l = Last(split(t, Bar))
      BY <1>14, <1>15 DEF LastOf
    <2> QED BY <1>1, <1>15, <2>1 DEF EndsAs
  <1>16. ASSUME glued \/ Joins(t), Free(v, Bar) PROVE Len(l) > Len(v)
    <2>1. PICK y, i, j, k : y = Last(split(t, Bar)) /\ i = Len(y) /\ j = Len(l) /\ k = Len(v)
      OBVIOUS
    <2>2. i \in Nat /\ j \in Nat /\ k \in Nat
      <3>1. y \in Seq(S) /\ l \in Seq(S) /\ v \in Seq(S)
        BY <1>1, <1>14, <2>1 DEF LastOf
      <3> QED BY <2>1, <3>1
    <2>3. j = i \/ j > i
      BY <1>14, <2>1 DEF LastOf
    <2>4. CASE glued
      <3>1. i > k
        BY <1>1, <1>16, <2>1, <2>4 DEF EndsAs
      <3>2. j > k
        BY <2>2, <2>3, <3>1
      <3> QED BY <2>1, <3>2
    <2>5. CASE ~glued
      <3>1. Joins(t)
        BY <1>16, <2>5
      <3>2. j > i
        BY <1>14, <2>1, <3>1 DEF LastOf
      <3>3. split(v, Bar) = << v >>
        BY <1>1, <1>16, SplitFree
      <3>4. Last(split(v, Bar)) = v
        BY <3>3 DEF Last
      <3>5. y = v
        BY <1>1, <2>1, <2>5, <3>4 DEF EndsAs
      <3> QED BY <2>1, <3>2, <3>5
    <2> QED BY <2>4, <2>5
  <1>17. EndsAs(s, v, glued \/ Joins(t))
    BY <1>13, <1>15, <1>16 DEF EndsAs
  <1>18. Policy!glue_ninth(val) \in Seq(Seq(S)) /\ Len(Policy!glue_ninth(val)) >= 1
    BY <1>1, GluedVal
  <1>19. PutmMeta(meta, given) \in [FieldNames -> Seq(S)]
    BY <1>1, PutmMetaText
  <1> QED BY <1>1, <1>11, <1>12, <1>17, <1>18, <1>19 DEF Kept, BehindTokens

-----------------------------------------------------------------------------
(* The pair.                                                               *)

Letters == Elements \cup {Bar}

Records == [meta : [FieldNames -> Seq(Letters)], val : Seq(Seq(Letters))]
Pairs ==
    [text : Seq(Letters), record : Records, last : Seq(Letters),
     barred : BOOLEAN, glued : BOOLEAN, writes : Nat]

PairKept(q) ==
    Kept(Letters, q.text, q.record.meta, q.record.val, q.last, q.barred, q.glued)

PairInv == pair # None => pair \in Pairs /\ PairKept(pair)

LEMMA LettersAre ==
    ASSUME NEW s \in Seq(Elements)
    PROVE  s \in Seq(Letters) /\ Bar \in Letters
  <1>1. Bar \in Letters
    BY DEF Letters
  <1>2. PICK S, E : S = Letters /\ E = Elements
    OBVIOUS
  <1>3. E \subseteq S
    BY <1>2 DEF Letters
  <1>4. s \in Seq(E)
    BY <1>2
  <1>5. s \in Seq(S)
    BY <1>3, <1>4
  <1> QED BY <1>1, <1>2, <1>5

LEMMA InsertPair ==
    ASSUME Insert
    PROVE  PairInv'
  <1>1. PICK fields \in Fields, v \in Values :
           pair' = [text   |-> insert_value(fields, v),
                    record |-> [meta |-> fields, val |-> split(v, Bar)],
                    last   |-> v,
                    barred |-> \E f \in DOMAIN fields : Barred(fields[f]),
                    glued  |-> FALSE,
                    writes |-> 1]
    BY DEF Insert
  <1>2. PICK b : b = (\E f \in DOMAIN fields : Barred(fields[f]))
    OBVIOUS
  <1>3. b \in BOOLEAN
    BY <1>2
  <1>4. fields \in [FieldNames -> Seq(Elements)] /\ v \in Seq(Elements)
    BY ValueAssumption DEF FieldNames
  <1>5. fields \in [FieldNames -> Seq(Letters)] /\ v \in Seq(Letters) /\ Bar \in Letters
    BY <1>4, LettersAre
  <1>6. \A f \in {"pur", "obj", "exp"} : IsNumber(fields[f])
    BY ValueAssumption
  <1>7. ASSUME ~b PROVE \A f \in FieldNames : Free(fields[f], Bar)
    <2>1. \A f \in FieldNames : ~Barred(fields[f])
      BY <1>2, <1>4, <1>7
    <2>2. \A f \in FieldNames : fields[f] \in Seq(Letters)
      BY <1>5
    <2> QED BY <2>1, <2>2, BarredFree
  <1>8. PICK t : t = insert_value(fields, v)
    OBVIOUS
  <1>9. Kept(Letters, t, fields, split(v, Bar), v, b, FALSE)
    BY <1>5, <1>6, <1>7, <1>8, InsertKept
  <1>10. PICK w : w = split(v, Bar)
    OBVIOUS
  <1>11. t \in Seq(Letters) /\ w \in Seq(Seq(Letters))
    BY <1>9, <1>10 DEF Kept
  <1>12. pair' = [text |-> t, record |-> [meta |-> fields, val |-> w], last |-> v, barred |-> b,
                  glued |-> FALSE, writes |-> 1]
    BY <1>1, <1>2, <1>8, <1>10
  <1>13. pair' \in Pairs
    BY <1>3, <1>5, <1>11, <1>12 DEF Pairs, Records
  <1>14. PairKept(pair')
    BY <1>9, <1>10, <1>12 DEF PairKept
  <1>15. (pair # None => pair \in Pairs /\ PairKept(pair))'
    BY <1>13, <1>14 DEF PairKept
  <1> QED BY <1>15 DEF PairInv

LEMMA UpdatePair ==
    ASSUME PairInv, Update
    PROVE  PairInv'
  <1>1. pair \in Pairs /\ PairKept(pair) /\ ~filter_throws(pair.text)
    BY DEF Update, PairInv
  <1>2. PICK v \in Values :
           pair' = [pair EXCEPT !.text = update_value(@, v),
                                !.record = Policy!rewrite_update(@, PutQuery(v)),
                                !.last = v, !.glued = FALSE, !.writes = @ + 1]
    BY DEF Update
  <1>3. PICK t, meta, val, u, b, g, n :
           /\ t = pair.text /\ meta = pair.record.meta /\ val = pair.record.val
           /\ u = pair.last /\ b = pair.barred /\ g = pair.glued /\ n = pair.writes
    OBVIOUS
  <1>4. Kept(Letters, t, meta, val, u, b, g)
    BY <1>1, <1>3 DEF PairKept
  <1>5. v \in Seq(Elements)
    BY ValueAssumption
  <1>6. v \in Seq(Letters) /\ Bar \in Letters
    BY <1>5, LettersAre
  <1>7. PICK s, w : s = update_value(t, v) /\ w = Front(val) \o split(v, Bar)
    OBVIOUS
  <1>8. Kept(Letters, s, meta, w, v, b, FALSE)
    BY <1>1, <1>3, <1>4, <1>6, <1>7, UpdateKept
  <1>9. /\ s \in Seq(Letters) /\ w \in Seq(Seq(Letters)) /\ meta \in [FieldNames -> Seq(Letters)]
    BY <1>8 DEF Kept
  <1>10. Policy!rewrite_update(pair.record, PutQuery(v)) = [meta |-> meta, val |-> w]
    <2>1. PICK q, r : q = PutQuery(v) /\ r = pair.record
      OBVIOUS
    <2>2. q.value = split(v, Bar)
      BY <2>1 DEF PutQuery
    <2>3. r.meta = meta /\ r.val = val
      BY <1>3, <2>1
    <2>4. Policy!rewrite_update(r, q) = [meta |-> r.meta, val |-> Front(r.val) \o q.value]
      BY DEF Policy!rewrite_update, Policy!Front, Front
    <2> QED BY <1>7, <2>1, <2>2, <2>3, <2>4
  <1>11. pair' = [text |-> s, record |-> [meta |-> meta, val |-> w], last |-> v, barred |-> b,
                  glued |-> FALSE, writes |-> n + 1]
    BY <1>1, <1>2, <1>3, <1>7, <1>10 DEF Pairs
  <1>12. b \in BOOLEAN /\ n \in Nat
    BY <1>1, <1>3 DEF Pairs
  <1>13. pair' \in Pairs
    BY <1>6, <1>9, <1>11, <1>12 DEF Pairs, Records
  <1>14. PairKept(pair')
    BY <1>8, <1>11 DEF PairKept
  <1>15. (pair # None => pair \in Pairs /\ PairKept(pair))'
    BY <1>13, <1>14 DEF PairKept
  <1> QED BY <1>15 DEF PairInv

LEMMA PutmPair ==
    ASSUME PairInv, Putm
    PROVE  PairInv'
  <1>1. pair \in Pairs /\ PairKept(pair) /\ ~filter_throws(pair.text)
    BY DEF Putm, PairInv
  <1>2. PICK given \in Changes :
           pair' = [pair EXCEPT !.text = putm_value(@, given),
                                !.record = Policy!rewrite_putm(@, PutmQuery(given), 0),
                                !.barred = @ \/ \E f \in DOMAIN given : Barred(given[f]),
                                !.glued = @ \/ Joins(pair.text),
                                !.writes = @ + 1]
    BY DEF Putm
  <1>3. PICK t, meta, val, v, b, g, n :
           /\ t = pair.text /\ meta = pair.record.meta /\ val = pair.record.val
           /\ v = pair.last /\ b = pair.barred /\ g = pair.glued /\ n = pair.writes
    OBVIOUS
  <1>4. Kept(Letters, t, meta, val, v, b, g)
    BY <1>1, <1>3 DEF PairKept
  <1>5. Bar \in Letters
    BY DEF Letters
  <1>6. Change(Letters, given)
    <2>1. \A f \in DOMAIN given : given[f] \in Seq(Elements)
      BY ValueAssumption
    <2>2. GivenText(Letters, given)
      BY <2>1, LettersAre DEF GivenText
    <2>3. \A f \in DOMAIN given : given[f] # None
      BY <2>1, ValueAssumption
    <2>4. DOMAIN given \subseteq {"usr", "pur", "obj", "org", "shr", "log"}
      BY ValueAssumption
    <2>5. \A f \in DOMAIN given : f \in {"pur", "obj"} => IsNumber(given[f])
      BY ValueAssumption
    <2> QED BY <2>2, <2>3, <2>4, <2>5 DEF Change
  <1>7. PICK b2, g2 : /\ b2 = (b \/ \E f \in DOMAIN given : Barred(given[f]))
                      /\ g2 = (g \/ Joins(t))
    OBVIOUS
  <1>8. b2 \in BOOLEAN /\ g2 \in BOOLEAN /\ n \in Nat
    BY <1>1, <1>3, <1>7 DEF Pairs
  <1>9. ~b2 => ~b /\ \A f \in DOMAIN given : Free(given[f], Bar)
    <2>1. \A f \in DOMAIN given : given[f] \in Seq(Letters)
      BY <1>6 DEF Change, GivenText
    <2>2. \A f \in DOMAIN given : ~Barred(given[f]) => Free(given[f], Bar)
      BY <2>1, BarredFree
    <2> QED BY <1>7, <2>2
  <1>10. PICK s, m, w : /\ s = putm_value(t, given) /\ m = PutmMeta(meta, given)
                        /\ w = Policy!glue_ninth(val)
    OBVIOUS
  <1>11. Kept(Letters, s, m, w, v, b2, g2)
    <2>1. ~filter_throws(t)
      BY <1>1, <1>3
    <2>2. Kept(Letters, s, m, w, v, b2, g \/ Joins(t))
      BY <1>4, <1>5, <1>6, <1>9, <1>10, <2>1, PutmKept
    <2> QED BY <1>7, <2>2
  <1>12. /\ s \in Seq(Letters) /\ w \in Seq(Seq(Letters)) /\ m \in [FieldNames -> Seq(Letters)]
         /\ v \in Seq(Letters)
    BY <1>11 DEF Kept
  <1>13. pair.record = [meta |-> meta, val |-> val] /\ meta \in [FieldNames -> Seq(Letters)]
    BY <1>1, <1>3 DEF Pairs, Records
  <1>14. Policy!rewrite_putm(pair.record, PutmQuery(given), 0) = [meta |-> m, val |-> w]
    BY <1>6, <1>10, <1>13, PutmRecord
  <1>15. pair' = [text |-> s, record |-> [meta |-> m, val |-> w], last |-> v, barred |-> b2,
                  glued |-> g2, writes |-> n + 1]
    BY <1>1, <1>2, <1>3, <1>7, <1>10, <1>14 DEF Pairs
  <1>16. pair' \in Pairs
    BY <1>8, <1>12, <1>15 DEF Pairs, Records
  <1>17. PairKept(pair')
    BY <1>11, <1>15 DEF PairKept
  <1>18. (pair # None => pair \in Pairs /\ PairKept(pair))'
    BY <1>16, <1>17 DEF PairKept
  <1> QED BY <1>18 DEF PairInv

LEMMA PairsUnderWay == Spec => []PairInv
  <1>1. Init => PairInv
    BY DEF Init, PairInv
  <1>2. PairInv /\ [Next]_vars => PairInv'
    <2> SUFFICES ASSUME PairInv, [Next]_vars
                 PROVE  PairInv'
      OBVIOUS
    <2>1. CASE Insert
      BY <2>1, InsertPair
    <2>2. CASE Update
      BY <2>2, UpdatePair
    <2>3. CASE Putm
      BY <2>3, PutmPair
    <2>4. CASE pair' = pair
      BY <2>4 DEF PairInv
    <2>5. Insert \/ Update \/ Putm \/ pair' = pair
      BY DEF Next, vars, WriteQuery, CutQuery, ReadQuery, WritePurposes, ReadPurposes,
             WriteRequest, ReadRequest, WriteEntry, ReadEntry, NameFile, ReadName, Write, Read
    <2> QED BY <2>1, <2>2, <2>3, <2>4, <2>5
  <1> QED BY <1>1, <1>2, PTL DEF Spec

\* What a client or the regulator gets of a text: only what follows the last '|', or what
\* precedes it.
LEMMA CutBehindLast ==
    ASSUME NEW S, NEW t \in Seq(S), NEW v, NEW a, NEW b
    PROVE  UpdateAt(S, t, v, a, b) =>
             /\ b # << >> => remove_metadata(t) = b /\ preserve_only_metadata(t) = a \o << Bar >>
             /\ b = << >> => remove_metadata(t) = t /\ preserve_only_metadata(t) = t
  <1>0. SUFFICES ASSUME UpdateAt(S, t, v, a, b)
                 PROVE  /\ b # << >> => /\ remove_metadata(t) = b
                                        /\ preserve_only_metadata(t) = a \o << Bar >>
                        /\ b = << >> => remove_metadata(t) = t /\ preserve_only_metadata(t) = t
    OBVIOUS
  <1>1. PICK x, k, m, n, l : /\ x = a \o << Bar >> /\ k = rfind(t, Bar) /\ m = Len(a) /\ n = Len(b)
                             /\ l = Len(t)
    OBVIOUS
  <1>2. /\ a \in Seq(S) /\ b \in Seq(S) /\ x \in Seq(S) /\ t = x \o b
        /\ k = m + 1 /\ l = m + 1 + n /\ SubSeq(t, m + 2, l) = b
    BY <1>0, <1>1 DEF UpdateAt
  <1>3. m \in Nat /\ n \in Nat /\ (n = 0 <=> b = << >>)
    BY <1>1, <1>2
  <1>4. k # NPos /\ k + 1 = m + 2 /\ (k < l <=> b # << >>)
    BY <1>2, <1>3 DEF NPos
  <1>5. SubSeq(t, 1, k) = x
    <2>1. SubSeq(x \o b, 1, Len(x)) = x /\ Len(x \o b) = Len(x) + Len(b)
      BY <1>2, ConcatParts, ConcatFacts
    <2>2. PICK i : i = Len(x)
      OBVIOUS
    <2>3. i \in Nat /\ l = i + n
      BY <1>1, <1>2, <2>1, <2>2
    <2>4. i = k
      BY <1>2, <1>3, <2>3
    <2> QED BY <1>2, <2>1, <2>2, <2>4
  <1>6. remove_metadata(t) = IF k < l THEN SubSeq(t, m + 2, l) ELSE t
    BY <1>1, <1>4 DEF remove_metadata
  <1>7. preserve_only_metadata(t) = IF k < l THEN SubSeq(t, 1, k) ELSE t
    BY <1>1, <1>4 DEF preserve_only_metadata
  <1> QED BY <1>1, <1>2, <1>4, <1>5, <1>6, <1>7

Behind(S, t, b, meta) ==
    /\ b \in Seq(S) /\ Free(b, Bar) /\ b = Last(split(t, Bar))
    /\ b = << >> => remove_metadata(t) = t /\ preserve_only_metadata(t) = t
    /\ b # << >> => remove_metadata(t) = b /\ preserve_only_metadata(t) = meta
    /\ meta \in Seq(S)
    /\ split(meta, Bar) = Append(Front(split(t, Bar)), << >>)

LEMMA BehindLast ==
    ASSUME NEW S, Bar \in S, NEW t \in Seq(S)
    PROVE  Len(split(t, Bar)) >= 9 => \E b, meta : Behind(S, t, b, meta)
  <1>0. SUFFICES ASSUME Len(split(t, Bar)) >= 9 PROVE \E b, meta : Behind(S, t, b, meta)
    OBVIOUS
  <1>1. PICK p : p = split(t, Bar)
    OBVIOUS
  <1>2. p \in Seq(Seq(S)) /\ Len(p) \in Nat /\ Len(p) >= 9
    BY <1>0, <1>1, EndedFacts
  <1>3. PICK a, b : UpdateAt(S, t, << >>, a, b)
    <2>1. Len(split(t, Bar)) >= 2
      BY <1>1, <1>2
    <2> QED BY <2>1, UpdateFacts
  <1>4. Parted(S, p, a, b)
    BY <1>1, <1>2, <1>3, UpdateParts
  <1>5. /\ b # << >> => remove_metadata(t) = b /\ preserve_only_metadata(t) = a \o << Bar >>
        /\ b = << >> => remove_metadata(t) = t /\ preserve_only_metadata(t) = t
    BY <1>3, CutBehindLast
  <1>6. b \in Seq(S) /\ Free(b, Bar) /\ a \o << Bar >> \in Seq(S)
    BY <1>3 DEF UpdateAt
  <1>7. PICK q, X, z : q = split(a, Bar) /\ X = Seq(S) /\ z = << >>
    OBVIOUS
  <1>8. q \in Seq(X) /\ q = Front(p) /\ b = Last(p) /\ split(a \o << Bar >>, Bar) = q \o << z >>
    BY <1>4, <1>7 DEF Parted
  <1>9. Append(q, z) = q \o << z >>
    <2>1. z \in X
      BY <1>7, EmptySeq
    <2> QED BY <1>8, <2>1, FrontAppend
  <1>10. Behind(S, t, b, a \o << Bar >>)
    BY <1>1, <1>5, <1>6, <1>7, <1>8, <1>9 DEF Behind
  <1> QED BY <1>10

\* The records of the same metadata.
LEMMA RecordView ==
    ASSUME NEW S, NEW t \in Seq(S), NEW meta \in [FieldNames -> Seq(S)], NEW val
    PROVE  val \in Seq(Seq(S)) /\ Len(val) >= 1 /\ split(t, Bar) = MetaTokens(meta) \o val
             => /\ ViewOf(t) = [meta |-> meta, val |-> val]
                /\ RecordOf(t) = [meta |-> meta, val |-> val]
                /\ filter_fields(t) = meta
                /\ Len(Ended(t)) >= 8
                /\ Len(Ended(t)) < 9 <=> Len(val) < 2
  <1>0. SUFFICES ASSUME val \in Seq(Seq(S)), Len(val) >= 1, split(t, Bar) = MetaTokens(meta) \o val
                 PROVE  /\ ViewOf(t) = [meta |-> meta, val |-> val]
                        /\ RecordOf(t) = [meta |-> meta, val |-> val]
                        /\ filter_fields(t) = meta
                        /\ Len(Ended(t)) >= 8
                        /\ Len(Ended(t)) < 9 <=> Len(val) < 2
    OBVIOUS
  <1>1. /\ RecordOf(t) = [meta |-> meta, val |-> val] /\ filter_fields(t) = meta
        /\ Len(Ended(t)) = 7 + Len(val)
    <2>1. val \in Seq(Seq(S)) /\ Len(val) >= 1 /\ split(t, Bar) = MetaTokens(meta) \o val
      BY <1>0
    <2>2. RecordAt(S, t, meta, val)
      BY <2>1, RecordIs
    <2> QED BY <2>2 DEF RecordAt
  <1>2. PICK n, m : n = Len(Ended(t)) /\ m = Len(val)
    OBVIOUS
  <1>3. m \in Nat /\ m >= 1 /\ n = 7 + m
    BY <1>0, <1>1, <1>2
  <1>4. n >= 8 /\ (n < 9 <=> m < 2)
    BY <1>3
  <1>5. ViewOf(t) = RecordOf(t)
    BY <1>2, <1>4, PrefixFacts DEF ViewOf
  <1> QED BY <1>1, <1>2, <1>4, <1>5

\* The record of a pair without a '|' in its metadata.
LEMMA KeptRecord ==
    ASSUME NEW S, Bar \in S, NEW t, NEW meta, NEW val, NEW v, NEW glued,
           NEW r, r = [meta |-> meta, val |-> val]
    PROVE  Kept(S, t, meta, val, v, FALSE, glued) =>
              /\ RecordOf(t) = r
              /\ ~filter_throws(t)
              /\ ViewOf(remove_metadata(t)) = Policy!remove_gdpr_metadata(r)
              /\ ViewOf(preserve_only_metadata(t)) = Policy!preserve_only_gdpr_metadata(r)
              /\ fmt_throws(t) <=> Len(val) < 2
  <1>0. SUFFICES ASSUME Kept(S, t, meta, val, v, FALSE, glued)
                 PROVE  /\ RecordOf(t) = r
                        /\ ~filter_throws(t)
                        /\ ViewOf(remove_metadata(t)) = Policy!remove_gdpr_metadata(r)
                        /\ ViewOf(preserve_only_metadata(t)) = Policy!preserve_only_gdpr_metadata(r)
                        /\ fmt_throws(t) <=> Len(val) < 2
    OBVIOUS
  <1>1. /\ t \in Seq(S) /\ meta \in [FieldNames -> Seq(S)] /\ val \in Seq(Seq(S)) /\ Len(val) >= 1
        /\ Len(split(t, Bar)) >= 9 /\ Exact(t, meta, val)
    BY <1>0 DEF Kept
  <1>2. /\ split(t, Bar) = MetaTokens(meta) \o val
        /\ \A f \in {"pur", "obj", "exp"} : IsNumber(meta[f])
    BY <1>1 DEF Exact
  <1>3. /\ ViewOf(t) = r /\ RecordOf(t) = r /\ filter_fields(t) = meta /\ Len(Ended(t)) >= 8
        /\ Len(Ended(t)) < 9 <=> Len(val) < 2
    BY <1>1, <1>2, RecordView
  <1>4. NumbersRead(t)
    BY <1>2, <1>3 DEF NumbersRead
  <1>5. ~filter_throws(t)
    <2>1. PICK n : n = Len(Ended(t))
      OBVIOUS
    <2>2. n \in Nat
      BY <1>1, <2>1, EndedFacts
    <2>3. ~(n < 8)
      BY <1>3, <2>1, <2>2
    <2> QED BY <1>4, <2>1, <2>3, PrefixFacts DEF filter_throws
  <1>6. fmt_throws(t) <=> Len(val) < 2
    BY <1>3, <1>4, PrefixFacts DEF fmt_throws
  <1>7. PICK b, m : Behind(S, t, b, m)
    BY <1>1, BehindLast
  <1>8. PICK f, X : f = Front(val) /\ X = Seq(S)
    OBVIOUS
  <1>9. /\ Last(split(t, Bar)) = Last(val)
        /\ Front(split(t, Bar)) = MetaTokens(meta) \o f /\ f \in Seq(X)
    <2>1. t \in Seq(S) /\ meta \in [FieldNames -> Seq(S)]
      BY <1>1
    <2>2. val \in Seq(Seq(S)) /\ Len(val) >= 1 /\ split(t, Bar) = MetaTokens(meta) \o val
      BY <1>1, <1>2
    <2>3. RecordAt(S, t, meta, val)
      BY <2>1, <2>2, RecordIs
    <2> QED BY <1>8, <2>3 DEF RecordAt
  <1>10. b \in X /\ Free(b, Bar) /\ b = Last(val)
    BY <1>7, <1>8, <1>9 DEF Behind
  <1>11. CASE b = << >>
    <2>1. remove_metadata(t) = t /\ preserve_only_metadata(t) = t
      BY <1>7, <1>11 DEF Behind
    <2>2. Policy!remove_gdpr_metadata(r) = r /\ Policy!preserve_only_gdpr_metadata(r) = r
      BY <1>10, <1>11 DEF Policy!remove_gdpr_metadata, Policy!preserve_only_gdpr_metadata,
             Policy!Last, Last
    <2> QED BY <1>3, <1>5, <1>6, <2>1, <2>2
  <1>12. CASE b # << >>
    <2>1. remove_metadata(t) = b /\ preserve_only_metadata(t) = m
      BY <1>7, <1>12 DEF Behind
    <2>2. /\ Policy!remove_gdpr_metadata(r) = [meta |-> None, val |-> << b >>]
          /\ Policy!preserve_only_gdpr_metadata(r) = [meta |-> meta, val |-> f \o << << >> >>]
      BY <1>8, <1>10, <1>12 DEF Policy!remove_gdpr_metadata, Policy!preserve_only_gdpr_metadata,
             Policy!Last, Last, Policy!Front, Front
    <2>3. ViewOf(b) = [meta |-> None, val |-> << b >>]
      <3>1. b \in Seq(S)
        BY <1>8, <1>10
      <3>2. split(b, Bar) = << b >>
        BY <1>10, <3>1, SplitFree
      <3>3. Len(split(b, Bar)) = 1
        BY <3>2
      <3>4. Len(Ended(b)) = 0
        BY <3>1, <3>3, EndedFacts
      <3> QED BY <3>2, <3>4, PrefixFacts DEF ViewOf
    <2>4. PICK z, g, h : z = << >> /\ g = MetaTokens(meta) /\ h = Append(f, z)
      OBVIOUS
    <2>5. z \in X
      BY <1>8, <2>4, EmptySeq
    <2>6. g \in Seq(X)
      BY <1>1, <1>8, <2>4, MetaFacts
    <2>7. h = f \o << z >> /\ h \in Seq(X) /\ Len(h) >= 1
      <3>1. h = f \o << z >>
        BY <1>9, <2>4, <2>5, FrontAppend
      <3>2. h \in Seq(X) /\ Len(h) = Len(f) + 1
        BY <1>9, <2>4, <2>5, AppendProperties
      <3>3. Len(f) \in Nat
        BY <1>9
      <3> QED BY <3>1, <3>2, <3>3
    <2>8. m \in Seq(S) /\ split(m, Bar) = g \o h
      <3>1. m \in Seq(S) /\ split(m, Bar) = Append(g \o f, z)
        BY <1>7, <1>9, <2>4 DEF Behind
      <3>2. Append(g \o f, z) = g \o Append(f, z)
        BY <1>9, <2>5, <2>6, ConcatAppend
      <3> QED BY <2>4, <3>1, <3>2
    <2>9. ViewOf(m) = [meta |-> meta, val |-> h]
      <3>1. h \in Seq(Seq(S)) /\ split(m, Bar) = MetaTokens(meta) \o h
        BY <1>8, <2>4, <2>7, <2>8
      <3>2. meta \in [FieldNames -> Seq(S)]
        BY <1>1
      <3> QED BY <2>7, <2>8, <3>1, <3>2, RecordView
    <2> QED BY <1>3, <1>5, <1>6, <2>1, <2>2, <2>3, <2>4, <2>7, <2>9
  <1> QED BY <1>11, <1>12

LEMMA BarredRecord ==
    ASSUME NEW S, NEW t, NEW meta, NEW val, NEW v, NEW barred, NEW glued,
           NEW r, r = [meta |-> meta, val |-> val],
           Kept(S, t, meta, val, v, barred, glued),
           \E f \in DOMAIN meta : Barred(meta[f])
    PROVE  RecordOf(t) # r
  <1>1. t \in Seq(S) /\ meta \in [FieldNames -> Seq(S)] /\ Len(split(t, Bar)) >= 9
    BY DEF Kept
  <1>2. PICK f \in FieldNames : Barred(meta[f])
    BY <1>1
  <1>3. PICK p : p = split(t, Bar)
    OBVIOUS
  <1>4. filter_fields(t) = [g \in FieldNames |-> p[Index(g)]]
    BY <1>1, <1>3, FilterFields
  <1>5. p \in Seq(Seq(S)) /\ Len(p) \in Nat /\ FreeTokens(p)
    BY <1>1, <1>3, EndedFacts
  <1>6. PICK i : i = Index(f)
    OBVIOUS
  <1>7. i \in 1..8
    BY <1>6, IndexFacts
  <1>8. i \in 1..Len(p)
    <2>1. PICK n : n = Len(p)
      OBVIOUS
    <2>2. n \in Nat /\ n >= 9
      BY <1>1, <1>3, <1>5, <2>1
    <2>3. i \in 1..n
      BY <1>7, <2>2
    <2> QED BY <2>1, <2>3
  <1>9. p[i] \in Seq(S) /\ Free(p[i], Bar)
    BY <1>5, <1>8 DEF FreeTokens
  <1>10. ~Barred(p[i])
    BY <1>9, BarredFree
  <1>11. filter_fields(t)[f] = p[i]
    BY <1>4, <1>6
  <1>12. filter_fields(t) # meta
    BY <1>2, <1>10, <1>11
  <1>13. RecordOf(t).meta = filter_fields(t)
    BY DEF RecordOf
  <1> QED BY <1>12, <1>13

(***************************************************************************)
(* RecordsAreExact: after any number of writes, in any order and of any    *)
(* values, the filter, the monitor and both conversions read from the flat *)
(* text what GDPRPolicy keeps in a record.  This is why the other modules  *)
(* may speak of records.                                                   *)
(***************************************************************************)
THEOREM PairRecords == Spec => []RecordsAreExact
  <1>1. PairInv => RecordsAreExact
    <2>0. SUFFICES ASSUME PairInv, pair # None PROVE
                      /\ (\E f \in DOMAIN pair.record.meta : Barred(pair.record.meta[f]))
                            => RecordOf(pair.text) # pair.record
                      /\ ~pair.barred =>
                            /\ RecordOf(pair.text) = pair.record
                            /\ ~filter_throws(pair.text)
                            /\ ViewOf(remove_metadata(pair.text))
                                 = Policy!remove_gdpr_metadata(pair.record)
                            /\ ViewOf(preserve_only_metadata(pair.text))
                                 = Policy!preserve_only_gdpr_metadata(pair.record)
                            /\ fmt_throws(pair.text) <=> Policy!metadata_fmt_throws(pair.record)
      BY DEF RecordsAreExact
    <2>1. pair \in Pairs /\ PairKept(pair)
      BY <2>0 DEF PairInv
    <2>2. PICK S, t, r, meta, val, v, b, g :
             /\ S = Letters /\ t = pair.text /\ r = pair.record /\ meta = r.meta /\ val = r.val
             /\ v = pair.last /\ b = pair.barred /\ g = pair.glued
      OBVIOUS
    <2>3. Kept(S, t, meta, val, v, b, g)
      BY <2>1, <2>2 DEF PairKept
    <2>4. r \in Records /\ b \in BOOLEAN
      BY <2>1, <2>2 DEF Pairs
    <2>5. r = [meta |-> meta, val |-> val]
      BY <2>2, <2>4 DEF Records
    <2>6. (\E f \in DOMAIN meta : Barred(meta[f])) => RecordOf(t) # r
      BY <2>3, <2>5, BarredRecord
    <2>7. ASSUME ~b
          PROVE  /\ RecordOf(t) = r
                 /\ ~filter_throws(t)
                 /\ ViewOf(remove_metadata(t)) = Policy!remove_gdpr_metadata(r)
                 /\ ViewOf(preserve_only_metadata(t)) = Policy!preserve_only_gdpr_metadata(r)
                 /\ fmt_throws(t) <=> Policy!metadata_fmt_throws(r)
      <3>1. Kept(S, t, meta, val, v, FALSE, g)
        <4>1. b = FALSE
          BY <2>4, <2>7
        <4> QED BY <2>3, <4>1
      <3>2. /\ RecordOf(t) = r
            /\ ~filter_throws(t)
            /\ ViewOf(remove_metadata(t)) = Policy!remove_gdpr_metadata(r)
            /\ ViewOf(preserve_only_metadata(t)) = Policy!preserve_only_gdpr_metadata(r)
            /\ fmt_throws(t) <=> Len(val) < 2
        <4>1. Bar \in S
          BY <2>2 DEF Letters
        <4> QED BY <2>5, <3>1, <4>1, KeptRecord
      <3>3. r # None
        <4>1. Records = [meta : [ToSet(PrefixFields) -> Seq(Elements \cup {Bar})],
                         val  : Seq(Seq(Elements \cup {Bar}))]
          BY DEF Records, Letters, FieldNames
        <4> QED BY <2>4, <4>1, ValueAssumption
      <3>4. Policy!metadata_fmt_throws(r) <=> Len(val) < 2
        BY <2>2, <3>3 DEF Policy!metadata_fmt_throws
      <3> QED BY <3>2, <3>4
    <2> QED BY <2>2, <2>6, <2>7
  <1> QED BY <1>1, PairsUnderWay, PTL

LEMMA KeptValue ==
    ASSUME NEW S, Bar \in S, NEW t, NEW meta, NEW val, NEW v, NEW barred, NEW glued
    PROVE  Kept(S, t, meta, val, v, barred, glued) =>
             (remove_metadata(t) = v <=> v # << >> /\ Free(v, Bar) /\ ~glued)
  <1>0. SUFFICES ASSUME Kept(S, t, meta, val, v, barred, glued)
                 PROVE  remove_metadata(t) = v <=> v # << >> /\ Free(v, Bar) /\ ~glued
    OBVIOUS
  <1>1. /\ t \in Seq(S) /\ v \in Seq(S) /\ Len(split(t, Bar)) >= 9
        /\ EndsAs(t, v, glued) /\ Outweighs(t, v)
    BY <1>0 DEF Kept
  <1>2. PICK b, m : Behind(S, t, b, m)
    BY <1>1, BehindLast
  <1>3. /\ b \in Seq(S) /\ Free(b, Bar) /\ b = Last(split(t, Bar))
        /\ b = << >> => remove_metadata(t) = t
        /\ b # << >> => remove_metadata(t) = b
    BY <1>2 DEF Behind
  <1>4. ASSUME Free(v, Bar), ~glued PROVE b = v
    <2>1. split(v, Bar) = << v >>
      BY <1>1, <1>4, SplitFree
    <2>2. Last(split(v, Bar)) = v
      BY <2>1 DEF Last
    <2> QED BY <1>1, <1>3, <1>4, <2>2 DEF EndsAs
  <1>5. ASSUME b = v PROVE ~glued
    <2>1. Free(v, Bar)
      BY <1>3, <1>5
    <2>2. PICK n : n = Len(v)
      OBVIOUS
    <2>3. n \in Nat
      BY <1>1, <2>2
    <2>4. ~(n > n)
      BY <2>3
    <2>5. ~(Len(b) > Len(v))
      BY <1>5, <2>2, <2>4
    <2> QED BY <1>1, <1>3, <2>1, <2>5 DEF EndsAs
  <1>6. t # v
    <2>1. PICK n : n = Weight(v)
      OBVIOUS
    <2>2. n \in Nat
      BY <1>1, <2>1, WeightConcat
    <2>3. ~(n >= n + 1)
      BY <2>2
    <2>4. Weight(t) >= n + 1
      BY <1>1, <2>1 DEF Outweighs
    <2> QED BY <2>1, <2>3, <2>4
  <1>7. CASE b = << >>
    BY <1>3, <1>4, <1>6, <1>7
  <1>8. CASE b # << >>
    BY <1>3, <1>4, <1>5, <1>8
  <1> QED BY <1>7, <1>8

(***************************************************************************)
(* ValueReadsBack: which values a get returns as they were put, whatever   *)
(* was put, updated and regulated before.                                  *)
(***************************************************************************)
THEOREM PairValues == Spec => []ValueReadsBack
  <1>1. PairInv => ValueReadsBack
    <2>0. SUFFICES ASSUME PairInv, pair # None
                   PROVE  remove_metadata(pair.text) = pair.last
                            <=> pair.last # << >> /\ ~Barred(pair.last) /\ ~pair.glued
      BY DEF ValueReadsBack
    <2>1. pair \in Pairs /\ PairKept(pair)
      BY <2>0 DEF PairInv
    <2>2. PICK S, t, meta, val, v, b, g :
             /\ S = Letters /\ t = pair.text /\ meta = pair.record.meta /\ val = pair.record.val
             /\ v = pair.last /\ b = pair.barred /\ g = pair.glued
      OBVIOUS
    <2>3. Kept(S, t, meta, val, v, b, g)
      BY <2>1, <2>2 DEF PairKept
    <2>4. Bar \in S
      BY <2>2 DEF Letters
    <2>5. remove_metadata(t) = v <=> v # << >> /\ Free(v, Bar) /\ ~g
      BY <2>3, <2>4, KeptValue
    <2>6. Free(v, Bar) <=> ~Barred(v)
      <3>1. v \in Seq(S)
        BY <2>3 DEF Kept
      <3> QED BY <3>1, BarredFree
    <2> QED BY <2>2, <2>5, <2>6
  <1> QED BY <1>1, PairsUnderWay, PTL

-----------------------------------------------------------------------------
(* The parser of queries.                                                  *)

\* A part of a text has no character that the text has not.
LEMMA BetweenWithout ==
    ASSUME NEW S, NEW s \in Seq(S), NEW ch, Free(s, ch), NEW from \in Nat \ {0}, NEW to \in 0..Len(s)
    PROVE  Free(between(s, from, to), ch)
  <1>1. PICK m : m = IF to = NPos \/ to < from THEN Len(s) ELSE to - 1
    OBVIOUS
  <1>2. m \in Int /\ m <= Len(s) /\ Len(s) \in Nat
    BY <1>1 DEF NPos
  <1>3. \A i \in from..m : s[i] \in S
    BY <1>2
  <1>4. /\ Len(SubSeq(s, from, m)) = IF from <= m THEN m - from + 1 ELSE 0
        /\ \A i \in 1..(m - from + 1) : SubSeq(s, from, m)[i] = s[from + i - 1]
    BY <1>2, <1>3, SubSeqProperties
  <1>5. PICK b : b = SubSeq(s, from, m)
    OBVIOUS
  <1>6. ASSUME NEW i \in 1..Len(b) PROVE b[i] # ch
    <2>1. from <= m
      <3>1. ASSUME ~(from <= m) PROVE FALSE
        <4>1. Len(b) = 0
          BY <1>4, <1>5, <3>1
        <4>2. i \in 1..0
          BY <4>1
        <4> QED BY <4>2
      <3> QED BY <3>1
    <2>2. i \in 1..(m - from + 1) /\ from + i - 1 \in 1..Len(s)
      BY <1>2, <1>4, <1>5, <2>1
    <2>3. b[i] = s[from + i - 1]
      BY <1>4, <1>5, <2>2
    <2> QED BY <2>2, <2>3 DEF Free
  <1>7. between(s, from, to) = b
    BY <1>1, <1>5 DEF between
  <1> QED BY <1>6, <1>7 DEF Free

\* What is between a quote and the next one has no quote.
LEMMA QuotedFree ==
    ASSUME NEW S, NEW s \in Seq(S), NEW ch, Free(s, ch), NEW a \in 0..Len(s),
           NEW b, b = find(s, Quote, a + 1)
    PROVE  Free(Quoted(s, a, b), Quote) /\ Free(Quoted(s, a, b), ch)
  <1>1. PICK f, l : f = a + 1 /\ l = Len(s)
    OBVIOUS
  <1>2. f \in Nat \ {0} /\ l \in Nat
    BY <1>1
  <1>3. /\ b \in Nat
        /\ b # NPos => b \in f..l /\ \A i \in f..(b - 1) : s[i] # Quote
    BY <1>1, <1>2, FindFacts
  <1>4. CASE a = NPos \/ b = NPos \/ b <= a
    BY <1>4 DEF Quoted, Free
  <1>5. CASE ~(a = NPos \/ b = NPos \/ b <= a)
    <2>1. b \in f..l /\ \A i \in f..(b - 1) : s[i] # Quote
      BY <1>3, <1>5
    <2>2. b \in f..(Len(s) + 1) /\ b \in 0..Len(s)
      BY <1>1, <1>2, <2>1
    <2>3. Free(between(s, f, b), Quote)
      BY <1>2, <2>1, <2>2, BetweenFree
    <2>4. Free(between(s, f, b), ch)
      BY <1>2, <2>2, BetweenWithout
    <2>5. Quoted(s, a, b) = between(s, f, b)
      BY <1>1, <1>5 DEF Quoted
    <2> QED BY <2>3, <2>4, <2>5
  <1> QED BY <1>4, <1>5

LEMMA ExtractFree ==
    ASSUME NEW S, NEW s \in Seq(S), NEW ch, Free(s, ch)
    PROVE  /\ Free(extract_key(s), Quote) /\ Free(extract_key(s), ch)
           /\ Free(extract_value(s), Quote) /\ Free(extract_value(s), ch)
  <1>1. \A a \in 0..Len(s) : /\ Free(Quoted(s, a, find(s, Quote, a + 1)), Quote)
                             /\ Free(Quoted(s, a, find(s, Quote, a + 1)), ch)
    BY QuotedFree
  <1>2. \A a \in 0..Len(s) : find(s, Quote, a + 1) \in 0..Len(s)
    <2>1. \A a \in 0..Len(s) : a + 1 \in Nat \ {0}
      OBVIOUS
    <2> QED BY <2>1, FindPosition
  <1>3. find(s, Quote, 1) \in 0..Len(s)
    BY FindPosition
  <1>4. Free(extract_key(s), Quote) /\ Free(extract_key(s), ch)
    BY <1>1, <1>3 DEF extract_key
  <1>5. Free(<< >>, Quote) /\ Free(<< >>, ch)
    BY DEF Free
  <1>6. Free(extract_value(s), Quote) /\ Free(extract_value(s), ch)
    BY <1>1, <1>2, <1>3, <1>5 DEF extract_value
  <1> QED BY <1>4, <1>6

\* Neither key nor value has a quote or an '&'.
Unquoted(q) ==
    /\ DOMAIN q = QueryFields
    /\ Free(q.key, Quote) /\ Free(q.key, "&")
    /\ Free(q.value, Quote) /\ Free(q.value, "&")

LEMMA PredicatePlain ==
    ASSUME NEW S, NEW q, Unquoted(q), NEW s \in Seq(S), Free(s, "&")
    PROVE  Unquoted(process_predicate(q, s))
  <1>1. PICK attr_end : attr_end = find(s, "(", 1)
    OBVIOUS
  <1>2. attr_end \in 0..Len(s)
    BY <1>1, FindPosition
  <1>3. PICK val : val = between(s, attr_end + 1, rfind(s, ")"))
    OBVIOUS
  <1>4. val \in Seq(S) /\ Free(val, "&")
    <2>1. rfind(s, ")") \in 0..Len(s)
      BY RfindPosition
    <2>2. PICK from : from = attr_end + 1
      OBVIOUS
    <2>3. from \in Nat \ {0}
      BY <1>2, <2>2
    <2> QED BY <1>3, <2>1, <2>2, <2>3, BetweenText, BetweenWithout
  <1>5. Unquoted(Throw(q))
    BY DEF Unquoted, Throw, QueryFields
  <1>6. Unquoted(parse_query(q, val))
    <2>1. PICK key, value : key = extract_key(val) /\ value = extract_value(val)
      OBVIOUS
    <2>2. Free(key, Quote) /\ Free(key, "&") /\ Free(value, Quote) /\ Free(value, "&")
      BY <1>4, <2>1, ExtractFree
    <2>3. PICK cmd_ : cmd_ = tolower(between(val, 1, find(val, "(", 1)))
      OBVIOUS
    <2>4. PICK r : r = [q EXCEPT !.cmd = cmd_]
      OBVIOUS
    <2>5. Unquoted(r)
      BY <2>4 DEF Unquoted, QueryFields
    <2>6. \/ parse_query(q, val) = r
          \/ parse_query(q, val) = [r EXCEPT !.log_key = key]
          \/ parse_query(q, val) = [r EXCEPT !.value = value, !.key = key]
          \/ parse_query(q, val) = [r EXCEPT !.key = key]
      BY <2>1, <2>3, <2>4 DEF parse_query
    <2> QED BY <2>2, <2>5, <2>6 DEF Unquoted, QueryFields
  <1>7. ASSUME NEW attr, NEW v PROVE Unquoted(parse_option(q, attr, v))
    <2>1. PICK number, names : number = stoi(v) /\ names = set_bitmap(split_comma_string(v))
      OBVIOUS
    <2>2. \/ parse_option(q, attr, v) = Throw(q)
          \/ parse_option(q, attr, v) = [q EXCEPT !.opts[attr] = {v}]
          \/ parse_option(q, attr, v) = [q EXCEPT !.opts[attr] = {number}]
          \/ parse_option(q, attr, v) = [q EXCEPT !.opts[attr] = {names}]
          \/ parse_option(q, attr, v) = [q EXCEPT !.opts[attr] = {names \cup UNION @}]
      BY <2>1 DEF parse_option
    <2> QED BY <1>5, <2>2 DEF Unquoted, QueryFields
  <1>8. \/ process_predicate(q, s) = q
        \/ process_predicate(q, s) = parse_query(q, val)
        \/ process_predicate(q, s) = Throw(q)
        \/ \E attr, v : process_predicate(q, s) = parse_option(q, attr, v)
    BY <1>1, <1>3 DEF process_predicate
  <1> QED BY <1>5, <1>6, <1>7, <1>8

\* Whatever the parser reads, its keys and values have no quote and no '&'.
LEMMA ParsePlain ==
    ASSUME NEW S, NEW t \in Seq(S)
    PROVE  Unquoted(Parse(t))
  <1> DEFINE P == {s \in Seq(S) : Free(s, "&")}
             T == {p \in Seq(P) : Unquoted(Predicates(p))}
  <1>1. << >> \in T
    <2>1. << >> \in Seq(P)
      BY EmptySeq
    <2>2. Unquoted(NewQuery)
      BY DEF Unquoted, NewQuery, QueryFields, Free
    <2> QED BY <2>1, <2>2, PredicatesEmpty
  <1>2. ASSUME NEW p \in Seq(P), NEW x \in P, p \in T PROVE Append(p, x) \in T
    <2>1. Unquoted(process_predicate(Predicates(p), x))
      BY <1>2, PredicatePlain
    <2>2. Predicates(Append(p, x)) = process_predicate(Predicates(p), x)
      BY PredicatesAppend
    <2>3. Append(p, x) \in Seq(P)
      BY AppendProperties
    <2> QED BY <2>1, <2>2, <2>3
  <1>3. \A p \in Seq(P) : p \in T
    <2> HIDE DEF T, P
    <2> QED BY <1>1, <1>2, TextInduction
  <1>4. split(t, "&") \in Seq(P)
    <2>1. PICK p, n : p = split(t, "&") /\ n = Len(p)
      OBVIOUS
    <2>2. p \in Seq(Seq(S)) /\ \A i \in 1..Len(p) : Free(p[i], "&")
      BY <2>1, SplitPieces DEF Pieces
    <2>3. n \in Nat /\ p \in [1..n -> Seq(S)]
      BY <2>1, <2>2, LenProperties
    <2>4. \A i \in 1..n : p[i] \in P
      BY <2>1, <2>2, <2>3
    <2>5. p \in [1..n -> P]
      <3> HIDE DEF P
      <3> QED BY <2>3, <2>4
    <2>6. p \in Seq(P)
      <3> HIDE DEF P
      <3> QED BY <2>3, <2>5, SeqDef
    <2> QED BY <2>1, <2>6
  <1> QED BY <1>3, <1>4 DEF Parse, Predicates

\* A part of a text between what is in front of it and behind it.
LEMMA Middle ==
    ASSUME NEW S, NEW a \in Seq(S), NEW b \in Seq(S), NEW c \in Seq(S), NEW n, NEW m
    PROVE  n = Len(a) + 1 /\ m = Len(a) + Len(b) + 1 => between(a \o (b \o c), n, m) = b
  <1>0. SUFFICES ASSUME n = Len(a) + 1, m = Len(a) + Len(b) + 1
                 PROVE  between(a \o (b \o c), n, m) = b
    OBVIOUS
  <1>1. PICK d, s : d = b \o c /\ s = a \o d
    OBVIOUS
  <1>2. /\ d \in Seq(S) /\ Len(d) = Len(b) + Len(c)
        /\ \A i \in 1..Len(b) : d[i] = b[i]
    BY <1>1, ConcatFacts
  <1>3. /\ s \in Seq(S) /\ Len(s) = Len(a) + Len(d)
        /\ \A i \in 1..Len(d) : s[Len(a) + i] = d[i]
    BY <1>1, <1>2, ConcatFacts
  <1>4. PICK x, y, z : x = Len(a) /\ y = Len(b) /\ z = Len(c)
    OBVIOUS
  <1>5. x \in Nat /\ y \in Nat /\ z \in Nat
    BY <1>4
  <1>6. Len(d) = y + z /\ Len(s) = x + (y + z) /\ n = x + 1 /\ m = x + y + 1
    BY <1>0, <1>2, <1>3, <1>4
  <1>12. PICK l : l = Len(s)
    OBVIOUS
  <1>13. l = x + (y + z)
    BY <1>6, <1>12
  <1>14. n \in Nat \ {0} /\ m \in n..(l + 1) /\ m - n = y
    <2>1. n = x + 1 /\ m = x + y + 1
      BY <1>6
    <2> QED BY <1>5, <1>13, <2>1
  <1>7. n \in Nat \ {0} /\ m \in n..(Len(s) + 1) /\ m - n = y
    BY <1>12, <1>14
  <1>8. PICK r : r = between(s, n, m)
    OBVIOUS
  <1>9. r \in Seq(S) /\ Len(r) = y /\ \A i \in 1..y : r[i] = s[n + i - 1]
    <2>1. s \in Seq(S)
      BY <1>3
    <2>2. n \in Nat \ {0} /\ m \in n..(Len(s) + 1)
      BY <1>7
    <2>3. /\ between(s, n, m) \in Seq(S) /\ Len(between(s, n, m)) = m - n
          /\ \A i \in 1..(m - n) : between(s, n, m)[i] = s[n + i - 1]
      BY <2>1, <2>2, BetweenFacts
    <2> QED BY <1>7, <1>8, <2>3
  <1>10. ASSUME NEW i \in 1..y PROVE r[i] = b[i]
    <2>1. i \in 1..Len(d) /\ n + i - 1 = x + i
      BY <1>5, <1>6
    <2>2. s[x + i] = d[i] /\ d[i] = b[i]
      BY <1>2, <1>3, <1>4, <2>1
    <2> QED BY <1>9, <2>1, <2>2
  <1>11. r = b
    BY <1>4, <1>9, <1>10, SeqEqual
  <1> QED BY <1>1, <1>8, <1>11

\* The next occurrence of a character.
LEMMA FindBehind ==
    ASSUME NEW S, NEW ch \in S, NEW a \in Seq(S), NEW b \in Seq(S), Free(b, ch), NEW c \in Seq(S),
           NEW n, NEW m
    PROVE  n = Len(a) + 1 /\ m = Len(a) + Len(b) + 1
             => find(a \o (b \o (<< ch >> \o c)), ch, n) = m
  <1>0. SUFFICES ASSUME n = Len(a) + 1, m = Len(a) + Len(b) + 1
                 PROVE  find(a \o (b \o (<< ch >> \o c)), ch, n) = m
    OBVIOUS
  <1>1. PICK e, f, d, s : e = << ch >> /\ f = e \o c /\ d = b \o f /\ s = a \o d
    OBVIOUS
  <1>2. e \in Seq(S) /\ Len(e) = 1 /\ e[1] = ch
    BY <1>1
  <1>3. f \in Seq(S) /\ Len(f) = 1 + Len(c) /\ f[1] = ch
    <2>1. /\ e \o c \in Seq(S) /\ Len(e \o c) = Len(e) + Len(c)
          /\ \A i \in 1..Len(e) : (e \o c)[i] = e[i]
      BY <1>2, ConcatFacts
    <2> QED BY <1>1, <1>2, <2>1
  <1>4. /\ d \in Seq(S) /\ Len(d) = Len(b) + Len(f)
        /\ \A i \in 1..Len(b) : d[i] = b[i]
        /\ \A i \in 1..Len(f) : d[Len(b) + i] = f[i]
    BY <1>1, <1>3, ConcatFacts
  <1>5. /\ s \in Seq(S) /\ Len(s) = Len(a) + Len(d)
        /\ \A i \in 1..Len(d) : s[Len(a) + i] = d[i]
    BY <1>1, <1>4, ConcatFacts
  <1>6. PICK x, y, z : x = Len(a) /\ y = Len(b) /\ z = Len(c)
    OBVIOUS
  <1>7. x \in Nat /\ y \in Nat /\ z \in Nat
    BY <1>6
  <1>8. Len(f) = 1 + z /\ Len(d) = y + 1 + z /\ Len(s) = x + y + 1 + z /\ n = x + 1 /\ m = x + y + 1
    BY <1>0, <1>3, <1>4, <1>5, <1>6, <1>7
  <1>9. n \in Nat \ {0} /\ Len(s) \in Nat /\ m \in n..Len(s) /\ y + 1 \in 1..Len(d) /\ 1 \in 1..Len(f)
        /\ x + (y + 1) = m
    BY <1>7, <1>8
  <1>10. s[m] = ch
    BY <1>3, <1>4, <1>5, <1>6, <1>9
  <1>11. ASSUME NEW i \in n..(m - 1) PROVE s[i] # ch
    <2>1. PICK j : j = i - x
      OBVIOUS
    <2>2. j \in 1..y /\ j \in 1..Len(d) /\ x + j = i
      BY <1>7, <1>8, <2>1
    <2>3. s[i] = b[j]
      BY <1>4, <1>5, <1>6, <2>2
    <2> QED BY <1>6, <2>2, <2>3 DEF Free
  <1>12. find(s, ch, n) = m
    BY <1>9, <1>10, <1>11, FindFirst
  <1> QED BY <1>1, <1>12

\* The quotes of a text that is in quotes are what strip_quotes removes.
LEMMA StripQuotes ==
    ASSUME NEW S, Quote \in S, NEW v \in Seq(S)
    PROVE  /\ Quotes(v) \in Seq(S) /\ Len(Quotes(v)) = Len(v) + 2
           /\ strip_quotes(Quotes(v)) = v
  <1>1. PICK e, f, s : e = << Quote >> /\ f = v \o e /\ s = e \o f
    OBVIOUS
  <1>2. e \in Seq(S) /\ Len(e) = 1 /\ e[1] = Quote
    BY <1>1
  <1>3. PICK x : x = Len(v)
    OBVIOUS
  <1>4. x \in Nat
    BY <1>3
  <1>5. f \in Seq(S) /\ Len(f) = x + 1 /\ f[x + 1] = Quote
    <2>1. /\ v \o e \in Seq(S) /\ Len(v \o e) = Len(v) + Len(e)
          /\ \A i \in 1..Len(e) : (v \o e)[Len(v) + i] = e[i]
      <3>1. e \in Seq(S)
        BY <1>2
      <3> QED BY <3>1, ConcatFacts
    <2> QED BY <1>1, <1>2, <1>3, <2>1
  <1>6. s \in Seq(S) /\ Len(s) = x + 2 /\ s[1] = Quote /\ s[x + 2] = Quote
    <2>1. /\ e \o f \in Seq(S) /\ Len(e \o f) = Len(e) + Len(f)
          /\ \A i \in 1..Len(e) : (e \o f)[i] = e[i]
          /\ \A i \in 1..Len(f) : (e \o f)[Len(e) + i] = f[i]
      <3>1. e \in Seq(S) /\ f \in Seq(S)
        BY <1>2, <1>5
      <3> QED BY <3>1, ConcatFacts
    <2>2. x + 1 \in 1..Len(f) /\ 1 + (x + 1) = x + 2 /\ 1 + Len(f) = x + 2
      BY <1>4, <1>5
    <2> QED BY <1>1, <1>2, <1>5, <2>1, <2>2
  <1>7. SubSeq(s, 2, Len(s) - 1) = v
    <2>1. PICK n, m : n = Len(e) + 1 /\ m = Len(e) + Len(v) + 1
      OBVIOUS
    <2>2. between(e \o (v \o e), n, m) = v
      <3>1. e \in Seq(S)
        BY <1>2
      <3> QED BY <2>1, <3>1, Middle
    <2>3. n = 2 /\ m = x + 2 /\ m # NPos /\ ~(m < n) /\ m - 1 = Len(s) - 1
      BY <1>2, <1>3, <1>4, <1>6, <2>1 DEF NPos
    <2>4. between(s, n, m) = SubSeq(s, n, m - 1)
      BY <2>3 DEF between
    <2> QED BY <1>1, <2>2, <2>3, <2>4
  <1>8. Quotes(v) = s
    <2>1. (e \o v) \o e = e \o (v \o e)
      <3>1. Associative(S)
        BY Concats
      <3> QED BY <1>2, <3>1 DEF Associative
    <2> QED BY <1>1, <2>1 DEF Quotes
  <1>9. Part(Quote) = << >>
    <2>1. Quote \in SingleChars
      BY Zenon DEF SingleChars
    <2> QED BY <2>1 DEF Part
  <1>10. Len(s) # 1 /\ Head(s) = Quote /\ Last(s) = Quote
    BY <1>4, <1>6 DEF Last
  <1>11. strip_quotes(s) = Part(Head(s)) \o SubSeq(s, 2, Len(s) - 1) \o Part(Last(s))
    BY <1>10 DEF strip_quotes
  <1>12. << >> \o v \o << >> = v
    <2>1. << >> \o v = v
      BY ConcatEmptySeq
    <2>2. v \o << >> = v
      BY ConcatEmptySeq
    <2> QED BY <2>1, <2>2
  <1> QED BY <1>3, <1>6, <1>7, <1>8, <1>9, <1>10, <1>11, <1>12

\* What the text of a query is made of, apart from its contents.
QueryWords == {"query", "GET", "PUT", "DELETE", "M", "sessionKey", "objOrig", "objShare", "objExp",
               "objPur", "objObjections", "monitor", "Is"}
Marks == {"(", ")", "&", Quote, Comma}

\* The elements of a query's text.
Covers(S) == Elements \subseteq S /\ QueryWords \subseteq S /\ Marks \subseteq S

LEMMA WordsAndMarks ==
    ASSUME NEW x \in QueryWords
    PROVE  x \notin Marks
  <1>1. x # Quote /\ x # Comma
    BY DEF QueryWords, Quote, Comma
  <1>2. x # "(" /\ x # ")" /\ x # "&"
    BY DEF QueryWords
  <1> QED BY <1>1, <1>2 DEF Marks

LEMMA MarksDiffer ==
    /\ Quote # "(" /\ Quote # ")" /\ Quote # "&" /\ Quote # Comma
    /\ Comma # "(" /\ Comma # ")" /\ Comma # "&"
  BY DEF Quote, Comma

\* A text of one or two words has none of the marks.
LEMMA WordsFree ==
    ASSUME NEW S, Covers(S), NEW x \in QueryWords, NEW y \in QueryWords, NEW ch \in Marks
    PROVE  /\ << x >> \in Seq(S) /\ Free(<< x >>, ch)
           /\ << x, y >> \in Seq(S) /\ Free(<< x, y >>, ch)
  <1>1. x \in S /\ y \in S
    BY DEF Covers
  <1>2. x # ch /\ y # ch
    BY WordsAndMarks
  <1>3. PICK f, g : f = << x >> /\ g = << x, y >>
    OBVIOUS
  <1>4. /\ f \in Seq(S) /\ Len(f) = 1 /\ f[1] = x
        /\ g \in Seq(S) /\ Len(g) = 2 /\ g[1] = x /\ g[2] = y
    BY <1>1, <1>3
  <1>5. \A i \in 1..1 : i = 1
    OBVIOUS
  <1>6. \A i \in 1..2 : i = 1 \/ i = 2
    OBVIOUS
  <1>7. Free(f, ch) /\ Free(g, ch)
    BY <1>2, <1>4, <1>5, <1>6 DEF Free
  <1> QED BY <1>3, <1>4, <1>7

LEMMA OptionWords ==
    ASSUME NEW S, Covers(S), NEW name \in Options, NEW ch \in Marks
    PROVE  name \in Seq(S) /\ Free(name, ch) /\ name # << "query" >>
  <1>1. \/ \E x \in QueryWords : name = << x >>
        \/ \E x, y \in QueryWords : name = << x, y >>
    <2>1. \/ name \in TextOptions \/ name \in NumberOptions \/ name \in PurposeOptions
          \/ name \in CondPurposeOptions \/ name \in BoolOptions
      BY DEF Options
    <2>2. CASE name \in TextOptions
      BY <2>2 DEF TextOptions, QueryWords
    <2>3. CASE name \in NumberOptions
      BY <2>3 DEF NumberOptions, QueryWords
    <2>4. CASE name \in PurposeOptions
      BY <2>4 DEF PurposeOptions, QueryWords
    <2>5. CASE name \in CondPurposeOptions
      BY <2>5 DEF CondPurposeOptions, QueryWords
    <2>6. CASE name \in BoolOptions
      BY <2>6 DEF BoolOptions, QueryWords
    <2> QED BY <2>1, <2>2, <2>3, <2>4, <2>5, <2>6
  <1>2. name \in Seq(S) /\ Free(name, ch)
    BY <1>1, WordsFree
  <1>3. << "query" >> \notin Options
    BY DEF Options, TextOptions, NumberOptions, PurposeOptions, CondPurposeOptions, BoolOptions
  <1> QED BY <1>2, <1>3

LEMMA CommandWords ==
    ASSUME NEW S, Covers(S), NEW c \in Commands, NEW ch \in Marks
    PROVE  c \in Seq(S) /\ Free(c, ch)
  <1>1. \/ \E x \in QueryWords : c = << x >>
        \/ \E x, y \in QueryWords : c = << x, y >>
    BY DEF Commands, QueryWords
  <1> QED BY <1>1, WordsFree

\* No command on a pair is read as another kind of command.
LEMMA LowerCommands ==
    ASSUME NEW c \in Commands
    PROVE  /\ tolower(c) # << "exit" >>
           /\ tolower(c) # << "get", "logs" >>
           /\ tolower(c) = << "put" >> <=> c = << "PUT" >>
  <1>1. PICK t : t = tolower(c)
    OBVIOUS
  <1>2. /\ DOMAIN t = DOMAIN c
        /\ \A i \in DOMAIN c : t[i] = IF c[i] \in DOMAIN LowerCase THEN LowerCase[c[i]] ELSE c[i]
    BY <1>1 DEF tolower
  <1>3. /\ DOMAIN LowerCase = {"GET", "PUT", "DELETE", "M", "LOGS"}
        /\ LowerCase["GET"] = "get" /\ LowerCase["PUT"] = "put" /\ LowerCase["DELETE"] = "delete"
        /\ LowerCase["M"] = "m"
    BY DEF LowerCase
  <1>4. CASE c = << "PUT" >>
    <2>1. DOMAIN c = 1..1 /\ c[1] = "PUT"
      BY <1>4
    <2>2. DOMAIN t = 1..1 /\ t[1] = "put"
      BY <1>2, <1>3, <2>1
    <2>3. t = [i \in 1..1 |-> t[i]]
      BY <1>1, <2>2, <2>1 DEF tolower
    <2>4. t \in Seq({"put"}) /\ Len(t) = 1
      <3>1. t \in [1..1 -> {"put"}]
        BY <2>2, <2>3
      <3>2. PICK n : n = 1
        OBVIOUS
      <3>3. n \in Nat /\ t \in [1..n -> {"put"}]
        BY <3>1, <3>2
      <3>4. t \in Seq({"put"})
        BY <3>3, SeqDef
      <3>5. Len(t) \in Nat /\ DOMAIN t = 1..Len(t)
        BY <3>4, LenProperties
      <3> QED BY <2>2, <3>4, <3>5
    <2>5. t = << "put" >>
      BY <2>2, <2>4
    <2> QED BY <1>1, <1>4, <2>5
  <1>5. CASE c = << "GET" >> \/ c = << "DELETE" >>
    <2>1. DOMAIN c = 1..1 /\ (c[1] = "GET" \/ c[1] = "DELETE")
      BY <1>5
    <2>2. DOMAIN t = 1..1 /\ (t[1] = "get" \/ t[1] = "delete")
      BY <1>2, <1>3, <2>1
    <2>3. t # << "exit" >> /\ t # << "put" >>
      BY <2>2
    <2>4. t # << "get", "logs" >>
      BY <2>2
    <2> QED BY <1>1, <1>5, <2>3, <2>4
  <1>6. CASE c = << "GET", "M" >> \/ c = << "PUT", "M" >>
    <2>1. DOMAIN c = 1..2 /\ c[2] = "M"
      BY <1>6
    <2>2. DOMAIN t = 1..2 /\ t[2] = "m"
      BY <1>2, <1>3, <2>1
    <2>3. t # << "exit" >> /\ t # << "put" >>
      <3>1. DOMAIN << "exit" >> = 1..1 /\ DOMAIN << "put" >> = 1..1 /\ 2 \in 1..2 /\ 2 \notin 1..1
        OBVIOUS
      <3> QED BY <2>2, <3>1
    <2>4. t # << "get", "logs" >>
      BY <2>2
    <2> QED BY <1>1, <1>6, <2>3, <2>4
  <1> QED BY <1>4, <1>5, <1>6 DEF Commands

\* A word with an argument in brackets.
Bracket(w, x) == w \o (<< "(" >> \o (x \o << ")" >>))

LEMMA BracketFacts ==
    ASSUME NEW S, "(" \in S, ")" \in S, NEW w \in Seq(S), Free(w, "("), NEW x \in Seq(S)
    PROVE  LET s == Bracket(w, x) IN
           /\ s \in Seq(S)
           /\ between(s, 1, find(s, "(", 1)) = w
           /\ between(s, find(s, "(", 1) + 1, rfind(s, ")")) = x
  <1>1. PICK l, r, e : l = << "(" >> /\ r = << ")" >> /\ e = << >>
    OBVIOUS
  <1>2. l \in Seq(S) /\ Len(l) = 1 /\ r \in Seq(S) /\ e \in Seq(S) /\ Len(e) = 0 /\ Free(e, ")")
    BY <1>1 DEF Free
  <1>3. PICK y, z, a, s : y = x \o r /\ z = l \o y /\ a = w \o l /\ s = w \o z
    OBVIOUS
  <1>4. y \in Seq(S)
    <2>1. r \in Seq(S)
      BY <1>2
    <2> QED BY <1>3, <2>1, ConcatFacts
  <1>5. z \in Seq(S)
    <2>1. l \in Seq(S)
      BY <1>2
    <2> QED BY <1>3, <1>4, <2>1, ConcatFacts
  <1>6. s \in Seq(S)
    BY <1>3, <1>5, ConcatFacts
  <1>7. a \in Seq(S) /\ Len(a) = Len(w) + 1
    <2>1. l \in Seq(S)
      BY <1>2
    <2>2. w \o l \in Seq(S) /\ Len(w \o l) = Len(w) + Len(l)
      BY <2>1, ConcatFacts
    <2> QED BY <1>2, <1>3, <2>2
  <1>8. Associative(S)
    BY Concats
  <1>9. s = a \o y
    BY <1>2, <1>3, <1>4, <1>8 DEF Associative
  <1>10. e \o s = s
    BY <1>1, <1>6, ConcatEmptySeq
  <1>11. PICK n, m : n = Len(e) + 1 /\ m = Len(e) + Len(w) + 1
    OBVIOUS
  <1>12. find(s, "(", n) = m
    <2>1. PICK ch \in S : ch = "("
      OBVIOUS
    <2>2. e \in Seq(S) /\ Free(w, ch)
      BY <1>2, <2>1
    <2>3. find(e \o (w \o (<< ch >> \o y)), ch, n) = m
      BY <1>4, <1>11, <2>2, FindBehind
    <2> QED BY <1>1, <1>3, <1>10, <2>1, <2>3
  <1>13. between(s, n, m) = w
    <2>1. e \in Seq(S)
      BY <1>2
    <2>2. between(e \o (w \o z), n, m) = w
      BY <1>5, <1>11, <2>1, Middle
    <2> QED BY <1>3, <1>10, <2>2
  <1>14. PICK b : b = a \o x
    OBVIOUS
  <1>15. b \in Seq(S) /\ Len(b) = Len(a) + Len(x)
    BY <1>7, <1>14, ConcatFacts
  <1>16. s = b \o r
    <2>1. (a \o x) \o r = a \o (x \o r)
      BY <1>2, <1>7, <1>8 DEF Associative
    <2> QED BY <1>3, <1>9, <1>14, <2>1
  <1>17. rfind(s, ")") = Len(b) + 1
    <2>1. PICK ch \in S : ch = ")"
      OBVIOUS
    <2>2. e \in Seq(S) /\ Free(e, ch)
      BY <1>2, <2>1
    <2>3. rfind(b \o << ch >> \o e, ch) = Len(b) + 1
      <3>1. b \in Seq(S)
        BY <1>15
      <3> QED BY <2>2, <3>1, RfindConcat
    <2>4. s \o e = s
      BY <1>1, <1>6, ConcatEmptySeq
    <2>5. b \o << ch >> \o e = s
      BY <1>1, <1>16, <2>1, <2>4
    <2> QED BY <2>1, <2>3, <2>5
  <1>18. PICK i, j : i = m + 1 /\ j = Len(b) + 1
    OBVIOUS
  <1>19. n = 1 /\ i = Len(a) + 1 /\ j = Len(a) + Len(x) + 1
    BY <1>2, <1>7, <1>11, <1>15, <1>18
  <1>20. between(a \o (x \o r), i, j) = x
    <2>1. r \in Seq(S) /\ a \in Seq(S)
      BY <1>2, <1>7
    <2> QED BY <1>19, <2>1, Middle
  <1>21. s = Bracket(w, x)
    BY <1>1, <1>3 DEF Bracket
  <1>22. between(s, i, j) = x
    BY <1>3, <1>9, <1>20
  <1> QED BY <1>6, <1>12, <1>13, <1>17, <1>18, <1>19, <1>21, <1>22

\* The key of a command stands between its first two quotes.
LEMMA KeyExtracted ==
    ASSUME NEW S, Quote \in S, NEW p \in Seq(S), Free(p, Quote), NEW k \in Seq(S), Free(k, Quote),
           NEW t \in Seq(S)
    PROVE  LET s == p \o (<< Quote >> \o (k \o (<< Quote >> \o t))) IN
           /\ s \in Seq(S)
           /\ extract_key(s) = k
           /\ find(s, Quote, 1) = Len(p) + 1
           /\ find(s, Quote, (Len(p) + 1) + 1) = Len(p) + Len(k) + 2
  <1>1. PICK ch \in S : ch = Quote
    OBVIOUS
  <1>2. PICK q, e : q = << ch >> /\ e = << >>
    OBVIOUS
  <1>3. q \in Seq(S) /\ Len(q) = 1 /\ e \in Seq(S) /\ Len(e) = 0
    BY <1>2
  <1>4. PICK x, y, z, s, a : x = q \o t /\ y = k \o x /\ z = q \o y /\ s = p \o z /\ a = p \o q
    OBVIOUS
  <1>5. x \in Seq(S)
    <2>1. q \in Seq(S)
      BY <1>3
    <2> QED BY <1>4, <2>1, ConcatFacts
  <1>6. y \in Seq(S)
    BY <1>4, <1>5, ConcatFacts
  <1>7. z \in Seq(S)
    <2>1. q \in Seq(S)
      BY <1>3
    <2> QED BY <1>4, <1>6, <2>1, ConcatFacts
  <1>8. s \in Seq(S)
    BY <1>4, <1>7, ConcatFacts
  <1>9. a \in Seq(S) /\ Len(a) = Len(p) + 1
    <2>1. q \in Seq(S)
      BY <1>3
    <2>2. p \o q \in Seq(S) /\ Len(p \o q) = Len(p) + Len(q)
      BY <2>1, ConcatFacts
    <2> QED BY <1>3, <1>4, <2>2
  <1>10. s = a \o y
    <2>1. Associative(S)
      BY Concats
    <2>2. q \in Seq(S)
      BY <1>3
    <2>3. (p \o q) \o y = p \o (q \o y)
      BY <1>6, <2>1, <2>2 DEF Associative
    <2> QED BY <1>4, <2>3
  <1>11. e \o s = s
    BY <1>2, <1>8, ConcatEmptySeq
  <1>12. PICK n, m : n = Len(e) + 1 /\ m = Len(e) + Len(p) + 1
    OBVIOUS
  <1>13. find(s, ch, n) = m
    <2>1. e \in Seq(S) /\ Free(p, ch)
      BY <1>1, <1>3
    <2>2. find(e \o (p \o (<< ch >> \o y)), ch, n) = m
      BY <1>6, <1>12, <2>1, FindBehind
    <2> QED BY <1>2, <1>4, <1>11, <2>2
  <1>14. PICK i, j : i = Len(a) + 1 /\ j = Len(a) + Len(k) + 1
    OBVIOUS
  <1>15. find(s, ch, i) = j
    <2>1. Free(k, ch) /\ a \in Seq(S)
      BY <1>1, <1>9
    <2>2. find(a \o (k \o (<< ch >> \o t)), ch, i) = j
      BY <1>14, <2>1, FindBehind
    <2> QED BY <1>2, <1>4, <1>10, <2>2
  <1>16. between(s, i, j) = k
    <2>1. between(a \o (k \o x), i, j) = k
      <3>1. a \in Seq(S)
        BY <1>9
      <3> QED BY <1>5, <1>14, <3>1, Middle
    <2> QED BY <1>4, <1>10, <2>1
  <1>17. PICK u, v : u = Len(p) /\ v = Len(k)
    OBVIOUS
  <1>18. u \in Nat /\ v \in Nat
    BY <1>17
  <1>19. n = 1 /\ m = u + 1 /\ i = m + 1 /\ j = u + v + 2
    BY <1>3, <1>9, <1>12, <1>14, <1>17, <1>18
  <1>20. m # NPos /\ j # NPos /\ ~(j <= m)
    BY <1>18, <1>19 DEF NPos
  <1>21. extract_key(s) = k
    BY <1>1, <1>13, <1>15, <1>16, <1>19, <1>20 DEF extract_key, Quoted
  <1>22. s = p \o (<< Quote >> \o (k \o (<< Quote >> \o t)))
    BY <1>1, <1>2, <1>4
  <1> QED BY <1>1, <1>8, <1>13, <1>15, <1>17, <1>19, <1>21, <1>22

LEMMA JoinFacts ==
    ASSUME NEW S, NEW a \in Seq(S), NEW b \in Seq(S), NEW c
    PROVE  c = a \o b => c \in Seq(S) /\ Len(c) = Len(a) + Len(b)
  BY ConcatFacts

\* Joining is associative.
Regrouped(a, b, c) == (a \o b) \o c = a \o (b \o c)

LEMMA Regroup ==
    ASSUME NEW S, NEW a \in Seq(S), NEW b \in Seq(S), NEW c \in Seq(S)
    PROVE  Regrouped(a, b, c)
  <1>1. Associative(S)
    BY Concats
  <1> QED BY <1>1 DEF Regrouped, Associative

\* The value of a put stands between the next two quotes.
ValueBehind(p, k, v, u, t) ==
    t = << Comma >> \o (<< Quote >> \o (v \o (<< Quote >> \o u)))
      => extract_value(p \o (<< Quote >> \o (k \o (<< Quote >> \o t)))) = v

LEMMA ValueExtracted ==
    ASSUME NEW S, Quote \in S, Comma \in S, NEW p \in Seq(S), Free(p, Quote),
           NEW k \in Seq(S), Free(k, Quote), NEW v \in Seq(S), Free(v, Quote), NEW u \in Seq(S), NEW t
    PROVE  ValueBehind(p, k, v, u, t)
  <1>0. SUFFICES ASSUME t = << Comma >> \o (<< Quote >> \o (v \o (<< Quote >> \o u)))
                 PROVE  extract_value(p \o (<< Quote >> \o (k \o (<< Quote >> \o t)))) = v
    BY DEF ValueBehind
  <1>1. PICK ch \in S : ch = Quote
    OBVIOUS
  <1>2. PICK q, c : q = << ch >> /\ c = << Comma >>
    OBVIOUS
  <1>3. q \in Seq(S) /\ c \in Seq(S)
    BY <1>2
  <1>4. Len(q) = 1 /\ Len(c) = 1 /\ Free(c, ch)
    BY <1>1, <1>2, MarksDiffer DEF Free
  <1>5. PICK w, x, y : w = q \o u /\ x = v \o w /\ y = q \o x
    OBVIOUS
  <1>6. w \in Seq(S)
    BY <1>3, <1>5, JoinFacts
  <1>7. x \in Seq(S)
    BY <1>5, <1>6, JoinFacts
  <1>8. y \in Seq(S)
    BY <1>3, <1>5, <1>7, JoinFacts
  <1>9. t = c \o y
    BY <1>0, <1>1, <1>2, <1>5
  <1>10. t \in Seq(S)
    BY <1>3, <1>8, <1>9, JoinFacts
  <1>11. PICK d, e, f, g, h : d = p \o q /\ e = d \o k /\ f = e \o q /\ g = f \o c /\ h = g \o q
    OBVIOUS
  <1>12. d \in Seq(S) /\ Len(d) = Len(p) + Len(q)
    BY <1>3, <1>11, JoinFacts
  <1>13. e \in Seq(S) /\ Len(e) = Len(d) + Len(k)
    <2>1. d \in Seq(S)
      BY <1>12
    <2> QED BY <1>11, <2>1, JoinFacts
  <1>14. f \in Seq(S) /\ Len(f) = Len(e) + Len(q)
    <2>1. e \in Seq(S)
      BY <1>13
    <2> QED BY <1>3, <1>11, <2>1, JoinFacts
  <1>15. g \in Seq(S) /\ Len(g) = Len(f) + Len(c)
    <2>1. f \in Seq(S)
      BY <1>14
    <2> QED BY <1>3, <1>11, <2>1, JoinFacts
  <1>16. h \in Seq(S) /\ Len(h) = Len(g) + Len(q)
    <2>1. g \in Seq(S)
      BY <1>15
    <2> QED BY <1>3, <1>11, <2>1, JoinFacts
  <1>17. PICK s : s = p \o (q \o (k \o (q \o t)))
    OBVIOUS
  <1>18. d \in Seq(S) /\ e \in Seq(S) /\ f \in Seq(S) /\ g \in Seq(S) /\ h \in Seq(S)
    BY <1>12, <1>13, <1>14, <1>15, <1>16
  <1>19. s = f \o t
    <2>1. PICK r, o : r = q \o t /\ o = k \o r
      OBVIOUS
    <2>2. r \in Seq(S)
      BY <1>3, <1>10, <2>1, JoinFacts
    <2>3. o \in Seq(S)
      BY <2>1, <2>2, JoinFacts
    <2>4. (p \o q) \o o = p \o (q \o o)
      <3>1. Regrouped(p, q, o)
        BY <1>3, <2>3, Regroup
      <3> QED BY <3>1 DEF Regrouped
    <2>5. (d \o k) \o r = d \o (k \o r)
      <3>1. Regrouped(d, k, r)
        BY <1>18, <2>2, Regroup
      <3> QED BY <3>1 DEF Regrouped
    <2>6. (e \o q) \o t = e \o (q \o t)
      <3>1. Regrouped(e, q, t)
        BY <1>3, <1>10, <1>18, Regroup
      <3> QED BY <3>1 DEF Regrouped
    <2> QED BY <1>11, <1>17, <2>1, <2>4, <2>5, <2>6
  <1>20. s = h \o x
    <2>1. (f \o c) \o y = f \o (c \o y)
      <3>1. Regrouped(f, c, y)
        BY <1>3, <1>8, <1>18, Regroup
      <3> QED BY <3>1 DEF Regrouped
    <2>2. (g \o q) \o x = g \o (q \o x)
      <3>1. Regrouped(g, q, x)
        BY <1>3, <1>7, <1>18, Regroup
      <3> QED BY <3>1 DEF Regrouped
    <2> QED BY <1>5, <1>9, <1>11, <1>19, <2>1, <2>2
  <1>21. find(s, ch, 1) = Len(p) + 1 /\ find(s, ch, (Len(p) + 1) + 1) = Len(p) + Len(k) + 2
    BY <1>1, <1>2, <1>10, <1>17, KeyExtracted
  <1>22. PICK i, j : i = Len(f) + 1 /\ j = Len(f) + Len(c) + 1
    OBVIOUS
  <1>23. find(s, ch, i) = j
    <2>1. Free(c, ch)
      BY <1>4
    <2>2. find(f \o (c \o (<< ch >> \o x)), ch, i) = j
      BY <1>3, <1>7, <1>18, <1>22, <2>1, FindBehind
    <2> QED BY <1>2, <1>5, <1>9, <1>19, <2>2
  <1>24. PICK a, b : a = Len(h) + 1 /\ b = Len(h) + Len(v) + 1
    OBVIOUS
  <1>25. find(s, ch, a) = b
    <2>1. Free(v, ch)
      BY <1>1
    <2>2. find(h \o (v \o (<< ch >> \o u)), ch, a) = b
      BY <1>18, <1>24, <2>1, FindBehind
    <2> QED BY <1>2, <1>5, <1>20, <2>2
  <1>26. between(s, a, b) = v
    <2>1. between(h \o (v \o w), a, b) = v
      BY <1>6, <1>18, <1>24, Middle
    <2> QED BY <1>5, <1>20, <2>1
  <1>27. PICK lp, lk, lv : lp = Len(p) /\ lk = Len(k) /\ lv = Len(v)
    OBVIOUS
  <1>28. lp \in Nat /\ lk \in Nat /\ lv \in Nat
    BY <1>27
  <1>29. PICK first, second : first = Len(p) + 1 /\ second = Len(p) + Len(k) + 2
    OBVIOUS
  <1>30. /\ first = lp + 1 /\ second = lp + lk + 2
         /\ Len(d) = lp + 1 /\ Len(e) = Len(d) + lk /\ Len(f) = Len(e) + 1
         /\ Len(g) = Len(f) + 1 /\ Len(h) = Len(g) + 1
    BY <1>4, <1>12, <1>13, <1>14, <1>15, <1>16, <1>27, <1>29
  <1>31. /\ i = second + 1 /\ j = second + 2 /\ a = j + 1 /\ b = second + lv + 3
    BY <1>4, <1>22, <1>24, <1>27, <1>28, <1>30
  <1>32. first # NPos /\ second # NPos /\ j # NPos /\ b # NPos /\ ~(b <= j)
    BY <1>28, <1>30, <1>31 DEF NPos
  <1>33. find(s, ch, 1) = first /\ find(s, ch, first + 1) = second
         /\ find(s, ch, second + 1) = j /\ find(s, ch, j + 1) = b
    BY <1>21, <1>23, <1>25, <1>29, <1>31
  <1>34. Quoted(s, j, b) = v
    BY <1>26, <1>31, <1>32 DEF Quoted
  <1>35. extract_value(s) = v
    BY <1>1, <1>32, <1>33, <1>34 DEF extract_value
  <1> QED BY <1>1, <1>2, <1>17, <1>35

LEMMA FreeJoin ==
    ASSUME NEW S, NEW a \in Seq(S), NEW b \in Seq(S), NEW ch, NEW c
    PROVE  c = a \o b => (Free(a, ch) /\ Free(b, ch) => Free(c, ch))
  <1>0. SUFFICES ASSUME c = a \o b, Free(a, ch), Free(b, ch) PROVE Free(c, ch)
    OBVIOUS
  <1>1. /\ Len(a \o b) = Len(a) + Len(b)
        /\ \A i \in 1..Len(a) : (a \o b)[i] = a[i]
        /\ \A i \in 1..Len(b) : (a \o b)[Len(a) + i] = b[i]
    BY ConcatFacts
  <1>2. PICK n, m : n = Len(a) /\ m = Len(b)
    OBVIOUS
  <1>3. n \in Nat /\ m \in Nat
    BY <1>2
  <1>4. Len(c) = n + m /\ (\A i \in 1..n : c[i] = a[i]) /\ \A i \in 1..m : c[n + i] = b[i]
    BY <1>0, <1>1, <1>2
  <1>5. ASSUME NEW i \in 1..(n + m) PROVE c[i] # ch
    <2>1. CASE i <= n
      <3>1. i \in 1..n
        BY <1>3, <2>1
      <3> QED BY <1>0, <1>2, <1>4, <3>1 DEF Free
    <2>2. CASE ~(i <= n)
      <3>1. PICK j : j = i - n
        OBVIOUS
      <3>2. j \in 1..m /\ n + j = i
        BY <1>3, <2>2, <3>1
      <3> QED BY <1>0, <1>2, <1>4, <3>2 DEF Free
    <2> QED BY <2>1, <2>2
  <1> QED BY <1>4, <1>5 DEF Free

\* A word in brackets has no '&' if word and argument have none.
LEMMA BracketFree ==
    ASSUME NEW S, "(" \in S, ")" \in S, NEW w \in Seq(S), NEW x \in Seq(S), Free(w, "&"), Free(x, "&")
    PROVE  Free(Bracket(w, x), "&")
  <1>1. PICK l, r, y, z, s : l = << "(" >> /\ r = << ")" >> /\ y = x \o r /\ z = l \o y /\ s = w \o z
    OBVIOUS
  <1>2. l \in Seq(S) /\ r \in Seq(S) /\ Free(l, "&") /\ Free(r, "&")
    BY <1>1 DEF Free
  <1>3. l \in Seq(S) /\ r \in Seq(S)
    BY <1>2
  <1>4. y \in Seq(S)
    BY <1>1, <1>3, JoinFacts
  <1>5. z \in Seq(S)
    BY <1>1, <1>3, <1>4, JoinFacts
  <1>6. Free(y, "&")
    <2>1. y = x \o r => (Free(x, "&") /\ Free(r, "&") => Free(y, "&"))
      BY <1>3, FreeJoin
    <2> QED BY <1>1, <1>2, <2>1
  <1>7. Free(z, "&")
    <2>1. z = l \o y => (Free(l, "&") /\ Free(y, "&") => Free(z, "&"))
      BY <1>3, <1>4, FreeJoin
    <2> QED BY <1>1, <1>2, <1>6, <2>1
  <1>8. Free(s, "&")
    <2>1. s = w \o z => (Free(w, "&") /\ Free(z, "&") => Free(s, "&"))
      BY <1>5, FreeJoin
    <2> QED BY <1>1, <1>7, <2>1
  <1> QED BY <1>1, <1>8 DEF Bracket

\* What a command is read as.
Commanded(q, c, val, r) ==
    /\ DOMAIN r = QueryFields
    /\ r.throws = FALSE
    /\ r.cmd = tolower(c)
    /\ r.key = extract_key(val)
    /\ r.value = IF c = << "PUT" >> THEN extract_value(val) ELSE q.value
    /\ r.opts = q.opts

LEMMA CommandRead ==
    ASSUME NEW S, Covers(S), NEW c \in Commands, NEW args \in Seq(S), NEW val, NEW q, NEW r
    PROVE  val = Bracket(c, args) /\ DOMAIN q = QueryFields /\ q.throws = FALSE
             /\ r = process_predicate(q, Bracket(<< "query" >>, val))
             => Commanded(q, c, val, r)
  <1>0. SUFFICES ASSUME val = Bracket(c, args), DOMAIN q = QueryFields, q.throws = FALSE,
                        r = process_predicate(q, Bracket(<< "query" >>, val))
                 PROVE  Commanded(q, c, val, r)
    OBVIOUS
  <1>1. "(" \in S /\ ")" \in S /\ "(" \in Marks /\ "query" \in QueryWords
    BY DEF Covers, Marks, QueryWords
  <1>2. c \in Seq(S) /\ Free(c, "(")
    BY <1>1, CommandWords
  <1>3. val \in Seq(S) /\ between(val, 1, find(val, "(", 1)) = c
    BY <1>0, <1>1, <1>2, BracketFacts
  <1>4. PICK w : w = << "query" >>
    OBVIOUS
  <1>5. PICK s : s = Bracket(w, val)
    OBVIOUS
  <1>6. /\ between(s, 1, find(s, "(", 1)) = w
        /\ between(s, find(s, "(", 1) + 1, rfind(s, ")")) = val
    <2>1. val \in Seq(S)
      BY <1>3
    <2>2. w \in Seq(S) /\ Free(w, "(")
      BY <1>1, <1>4, WordsFree
    <2> QED BY <1>1, <1>5, <2>1, <2>2, BracketFacts
  <1>7. r = parse_query(q, val)
    BY <1>0, <1>4, <1>5, <1>6 DEF process_predicate
  <1>8. PICK t, key, value, p : /\ t = tolower(c)
                                /\ key = extract_key(val)
                                /\ value = extract_value(val)
                                /\ p = [q EXCEPT !.cmd = t]
    OBVIOUS
  <1>9. t # << "exit" >> /\ t # << "get", "logs" >> /\ (t = << "put" >> <=> c = << "PUT" >>)
    BY <1>8, LowerCommands
  <1>10. DOMAIN p = QueryFields /\ p.throws = FALSE /\ p.cmd = t /\ p.value = q.value /\ p.opts = q.opts
    BY <1>0, <1>8 DEF QueryFields
  <1>11. CASE c = << "PUT" >>
    <2>1. r = [p EXCEPT !.value = value, !.key = key]
      BY <1>3, <1>7, <1>8, <1>9, <1>11 DEF parse_query
    <2>2. DOMAIN r = QueryFields /\ r.throws = FALSE /\ r.cmd = t /\ r.key = key /\ r.value = value
            /\ r.opts = q.opts
      BY <1>10, <2>1 DEF QueryFields
    <2> QED BY <1>8, <1>11, <2>2 DEF Commanded
  <1>12. CASE c # << "PUT" >>
    <2>1. r = [p EXCEPT !.key = key]
      BY <1>3, <1>7, <1>8, <1>9, <1>12 DEF parse_query
    <2>2. DOMAIN r = QueryFields /\ r.throws = FALSE /\ r.cmd = t /\ r.key = key /\ r.value = q.value
            /\ r.opts = q.opts
      BY <1>10, <2>1 DEF QueryFields
    <2> QED BY <1>8, <1>12, <2>2 DEF Commanded
  <1> QED BY <1>11, <1>12

\* The purposes that are recorded under these names.
Known(names) == {IF n \in pur_index THEN n ELSE << "purpose", "0" >> : n \in names}

\* What the reader makes of the meaning of an option.
AsRead(o, m) ==
    IF o \in NumberOptions THEN stoi(m)
    ELSE IF o \in PurposeOptions \cup CondPurposeOptions THEN Known(m) ELSE m

\* What an option becomes that was old.
SetTo(name, v, old) ==
    IF name \in NumberOptions THEN {stoi(v)}
    ELSE IF name \in PurposeOptions THEN {Known(Names(v))}
    ELSE IF name \in CondPurposeOptions THEN {Known(Names(v)) \cup UNION old}
    ELSE {v}

LEMMA OptionKinds ==
    ASSUME NEW o \in Options
    PROVE  /\ o \in NumberOptions => o \notin PurposeOptions \cup CondPurposeOptions
           /\ o \in PurposeOptions => o \notin CondPurposeOptions
           /\ o \in TextOptions => o \notin NumberOptions \cup PurposeOptions \cup CondPurposeOptions
           /\ o \in BoolOptions => o \notin NumberOptions \cup PurposeOptions \cup CondPurposeOptions
           /\ \/ o \in TextOptions \/ o \in NumberOptions \/ o \in PurposeOptions
              \/ o \in CondPurposeOptions \/ o \in BoolOptions
  BY DEF Options, TextOptions, NumberOptions, PurposeOptions, CondPurposeOptions, BoolOptions

LEMMA KnownJoin ==
    ASSUME NEW A, NEW M
    PROVE  Known(A \cup UNION M) = Known(A) \cup UNION {Known(m) : m \in M}
  BY DEF Known

LEMMA KnownNames ==
    ASSUME NEW names
    PROVE  Known(names) = names <=> names \subseteq pur_index
  <1>1. << "purpose", "0" >> \in pur_index
    BY DEF pur_index, Digits
  <1> QED BY <1>1 DEF Known

\* The last of the positions.
Lasts(p, o) == {i \in {j \in DOMAIN p : p[j].name = o} : \A j \in {k \in DOMAIN p : p[k].name = o} : j <= i}

LEMMA LastIs ==
    ASSUME NEW R, NEW p \in Seq(R), NEW o
    PROVE  Lasts(p, o) = {} \/ \E i \in DOMAIN p : Lasts(p, o) = {i}
  <1>1. DOMAIN p \subseteq Int
    BY LenProperties
  <1>2. \A i, j \in Lasts(p, o) : i = j /\ i \in DOMAIN p
    BY <1>1 DEF Lasts
  <1> QED BY <1>2

LEMMA MeantOnce ==
    ASSUME NEW R, NEW p \in Seq(R), NEW o
    PROVE  MeantBy(p, o) = {} \/ \E m : MeantBy(p, o) = {m}
  <1>1. PICK G, H : /\ G = {i \in DOMAIN p : p[i].name = o}
                    /\ H = UNION {Names(p[j].value) : j \in G}
    OBVIOUS
  <1>2. PICK f : f = [i \in DOMAIN p |-> IF o \in PurposeOptions THEN Names(p[i].value) ELSE p[i].value]
    OBVIOUS
  <1>3. MeantBy(p, o) = IF G = {} THEN {}
                        ELSE IF o \in CondPurposeOptions THEN {H}
                        ELSE {IF o \in PurposeOptions THEN Names(p[i].value) ELSE p[i].value : i \in Lasts(p, o)}
    BY <1>1 DEF MeantBy, Lasts
  <1>4. \/ MeantBy(p, o) = {}
        \/ MeantBy(p, o) = {H}
        \/ MeantBy(p, o) = {f[i] : i \in Lasts(p, o)}
    <2>1. Lasts(p, o) \subseteq DOMAIN p
      BY DEF Lasts
    <2>2. {IF o \in PurposeOptions THEN Names(p[i].value) ELSE p[i].value : i \in Lasts(p, o)}
            = {f[i] : i \in Lasts(p, o)}
      BY <1>2, <2>1
    <2> QED BY <1>3, <2>2
  <1>5. {f[i] : i \in Lasts(p, o)} = {} \/ \E m : {f[i] : i \in Lasts(p, o)} = {m}
    <2>1. CASE Lasts(p, o) = {}
      BY <2>1
    <2>2. CASE \E i \in DOMAIN p : Lasts(p, o) = {i}
      <3>1. PICK i \in DOMAIN p : Lasts(p, o) = {i}
        BY <2>2
      <3>2. {f[j] : j \in Lasts(p, o)} = {f[i]}
        BY <3>1
      <3> QED BY <3>2
    <2> QED BY <2>1, <2>2, LastIs
  <1> QED BY <1>4, <1>5

LEMMA MeantEmpty ==
    ASSUME NEW o PROVE MeantBy(<< >>, o) = {}
  BY DEF MeantBy

\* What one more option means.
MeantThen(p, x, o) ==
    IF o # x.name THEN MeantBy(p, o)
    ELSE IF o \in CondPurposeOptions THEN {Names(x.value) \cup UNION MeantBy(p, o)}
    ELSE IF o \in PurposeOptions THEN {Names(x.value)} ELSE {x.value}

LEMMA MeantAppend ==
    ASSUME NEW R, NEW p \in Seq(R), NEW x \in R, NEW o
    PROVE  MeantBy(Append(p, x), o) = MeantThen(p, x, o)
  <1>1. PICK q, n : q = Append(p, x) /\ n = Len(p)
    OBVIOUS
  <1>2. /\ n \in Nat /\ DOMAIN p = 1..n /\ DOMAIN q = 1..(n + 1)
        /\ \A i \in 1..n : q[i] = p[i]
        /\ q[n + 1] = x
    BY <1>1, LenProperties, AppendProperties
  <1>3. PICK G, H : G = {i \in DOMAIN p : p[i].name = o} /\ H = {i \in DOMAIN q : q[i].name = o}
    OBVIOUS
  <1>4. H = IF o = x.name THEN G \cup {n + 1} ELSE G
    BY <1>2, <1>3
  <1>5. PICK L, K : L = {i \in G : \A j \in G : j <= i} /\ K = {i \in H : \A j \in H : j <= i}
    OBVIOUS
  <1>6. K = IF o = x.name THEN {n + 1} ELSE L
    BY <1>2, <1>3, <1>4, <1>5
  <1>7. PICK A, B : A = {Names(p[j].value) : j \in G} /\ B = {Names(q[j].value) : j \in H}
    OBVIOUS
  <1>8. B = IF o = x.name THEN A \cup {Names(x.value)} ELSE A
    BY <1>2, <1>3, <1>4, <1>7
  <1>9. /\ MeantBy(p, o) = IF G = {} THEN {}
                           ELSE IF o \in CondPurposeOptions THEN {UNION A}
                           ELSE {IF o \in PurposeOptions THEN Names(p[i].value) ELSE p[i].value : i \in L}
        /\ MeantBy(q, o) = IF H = {} THEN {}
                           ELSE IF o \in CondPurposeOptions THEN {UNION B}
                           ELSE {IF o \in PurposeOptions THEN Names(q[i].value) ELSE q[i].value : i \in K}
    BY <1>3, <1>5, <1>7 DEF MeantBy
  <1>10. CASE o # x.name
    <2>1. H = G /\ K = L /\ B = A
      BY <1>4, <1>6, <1>8, <1>10
    <2>2. \A i \in L : q[i] = p[i]
      BY <1>2, <1>3, <1>5
    <2>3. {IF o \in PurposeOptions THEN Names(p[i].value) ELSE p[i].value : i \in L}
            = {IF o \in PurposeOptions THEN Names(q[i].value) ELSE q[i].value : i \in L}
      BY <2>2
    <2>4. MeantBy(q, o) = MeantBy(p, o)
      BY <1>9, <2>1, <2>3
    <2> QED BY <1>1, <1>10, <2>4 DEF MeantThen
  <1>11. CASE o = x.name /\ o \notin CondPurposeOptions
    <2>1. H # {} /\ K = {n + 1}
      BY <1>4, <1>6, <1>11
    <2> QED BY <1>1, <1>2, <1>9, <1>11, <2>1 DEF MeantThen
  <1>12. CASE o = x.name /\ o \in CondPurposeOptions
    <2>1. H # {} /\ B = A \cup {Names(x.value)}
      BY <1>4, <1>8, <1>12
    <2>2. MeantBy(q, o) = {UNION B}
      BY <1>9, <1>12, <2>1
    <2>3. UNION B = Names(x.value) \cup UNION A
      BY <2>1
    <2>4. UNION MeantBy(p, o) = UNION A
      <3>1. CASE G = {}
        BY <1>7, <1>9, <3>1
      <3>2. CASE G # {}
        BY <1>9, <1>12, <3>2
      <3> QED BY <3>1, <3>2
    <2> QED BY <1>1, <1>12, <2>2, <2>3, <2>4 DEF MeantThen
  <1> QED BY <1>10, <1>11, <1>12

\* An option with a value that its reader takes changes nothing but itself.
SamePair(q, r) ==
    /\ DOMAIN r = QueryFields
    /\ r.throws = FALSE
    /\ r.cmd = q.cmd /\ r.key = q.key /\ r.value = q.value

Taken(q, name, v, r) ==
    /\ DOMAIN q = QueryFields
    /\ q.throws = FALSE
    /\ name \in NumberOptions => IsNumber(v)
    /\ name \in BoolOptions => IsBool(v)
    /\ r = process_predicate(q, Bracket(name, Quotes(v)))

\* An option that is set.
OptionSet(q, name, v, r) ==
    /\ SamePair(q, r)
    /\ r.opts = [q.opts EXCEPT ![name] = SetTo(name, v, @)]

LEMMA OptionRead ==
    ASSUME NEW S, Covers(S), NEW name \in Options, NEW v \in Seq(S), NEW q, NEW r, Taken(q, name, v, r)
    PROVE  OptionSet(q, name, v, r)
  <1>0. /\ DOMAIN q = QueryFields /\ q.throws = FALSE
        /\ name \in NumberOptions => IsNumber(v)
        /\ name \in BoolOptions => IsBool(v)
        /\ r = process_predicate(q, Bracket(name, Quotes(v)))
    BY DEF Taken
  <1>1. "(" \in S /\ ")" \in S /\ Quote \in S /\ "(" \in Marks
    BY DEF Covers, Marks
  <1>2. name \in Seq(S) /\ Free(name, "(") /\ name # << "query" >>
    BY <1>1, OptionWords
  <1>3. PICK val : val = Quotes(v)
    OBVIOUS
  <1>4. val \in Seq(S) /\ Len(val) = Len(v) + 2 /\ strip_quotes(val) = v
    BY <1>1, <1>3, StripQuotes
  <1>5. val # << >>
    BY <1>4
  <1>6. val \in Seq(S)
    BY <1>4
  <1>7. PICK s : s = Bracket(name, val)
    OBVIOUS
  <1>8. /\ between(s, 1, find(s, "(", 1)) = name
        /\ between(s, find(s, "(", 1) + 1, rfind(s, ")")) = val
    BY <1>1, <1>2, <1>6, <1>7, BracketFacts
  <1>9. r = parse_option(q, name, v)
    <2>1. strip_quotes(val) = v
      BY <1>4
    <2> QED BY <1>0, <1>2, <1>3, <1>5, <1>7, <1>8, <2>1 DEF process_predicate
  <1>10. PICK number, names : number = stoi(v) /\ names = set_bitmap(split_comma_string(v))
    OBVIOUS
  <1>11. names = Known(Names(v))
    BY <1>10 DEF set_bitmap, Known, Names
  <1>12. PICK new : new = SetTo(name, v, q.opts[name])
    OBVIOUS
  <1>13. r = [q EXCEPT !.opts[name] = new]
    <2>1. PICK old : old = q.opts[name]
      OBVIOUS
    <2>2. new = IF name \in NumberOptions THEN {number}
                ELSE IF name \in PurposeOptions THEN {names}
                ELSE IF name \in CondPurposeOptions THEN {names \cup UNION old} ELSE {v}
      BY <1>10, <1>11, <1>12, <2>1 DEF SetTo
    <2>3. CASE name \in TextOptions
      <3>1. r = [q EXCEPT !.opts[name] = {v}]
        BY <1>9, <2>3, OptionKinds DEF parse_option
      <3> QED BY <2>2, <2>3, <3>1, OptionKinds
    <2>4. CASE name \in NumberOptions
      BY <1>0, <1>9, <1>10, <2>2, <2>4, OptionKinds DEF parse_option
    <2>5. CASE name \in PurposeOptions
      BY <1>9, <1>10, <2>2, <2>5, OptionKinds DEF parse_option
    <2>6. CASE name \in CondPurposeOptions
      BY <1>9, <1>10, <2>1, <2>2, <2>6, OptionKinds DEF parse_option
    <2>7. CASE name \in BoolOptions
      BY <1>0, <1>9, <2>2, <2>7, OptionKinds DEF parse_option
    <2> QED BY <2>3, <2>4, <2>5, <2>6, <2>7, OptionKinds
  <1> QED BY <1>0, <1>12, <1>13 DEF QueryFields, SamePair, OptionSet

\* The options of a query are what these options mean, as far as they can be read.
OptsRead(q, p) == q.opts = [o \in Options |-> {AsRead(o, m) : m \in MeantBy(p, o)}]

LEMMA OptsReadMore ==
    ASSUME NEW R, NEW p \in Seq(R), NEW x \in R, x.name \in Options, NEW q, NEW r,
           OptsRead(q, p), OptionSet(q, x.name, x.value, r)
    PROVE  OptsRead(r, Append(p, x))
  <1>1. PICK name, v, old, new : /\ name = x.name /\ v = x.value
                                 /\ old = q.opts /\ new = r.opts
    OBVIOUS
  <1>2. old = [o \in Options |-> {AsRead(o, m) : m \in MeantBy(p, o)}]
    BY <1>1 DEF OptsRead
  <1>3. new = [old EXCEPT ![name] = SetTo(name, v, old[name])]
    BY <1>1 DEF OptionSet
  <1>4. \A o \in Options : MeantBy(Append(p, x), o) = MeantThen(p, x, o)
    BY MeantAppend
  <1>5. ASSUME NEW o \in Options
        PROVE  new[o] = {AsRead(o, m) : m \in MeantBy(Append(p, x), o)}
    <2>1. CASE o # name
      <3>1. new[o] = old[o]
        BY <1>2, <1>3, <2>1
      <3>2. MeantBy(Append(p, x), o) = MeantBy(p, o)
        BY <1>1, <1>4, <2>1 DEF MeantThen
      <3> QED BY <1>2, <3>1, <3>2
    <2>2. CASE o = name
      <3>1. PICK M : M = MeantBy(p, o)
        OBVIOUS
      <3>2. new[o] = SetTo(o, v, old[o]) /\ old[o] = {AsRead(o, m) : m \in M}
        BY <1>1, <1>2, <1>3, <2>2, <3>1
      <3>3. MeantBy(Append(p, x), o) = IF o \in CondPurposeOptions THEN {Names(v) \cup UNION M}
                                       ELSE IF o \in PurposeOptions THEN {Names(v)} ELSE {v}
        BY <1>1, <1>4, <2>2, <3>1 DEF MeantThen
      <3>4. CASE o \in CondPurposeOptions
        <4>1. o \notin NumberOptions /\ o \notin PurposeOptions
          BY <3>4, OptionKinds
        <4>2. \A m : AsRead(o, m) = Known(m)
          BY <3>4, <4>1 DEF AsRead
        <4>3. old[o] = {Known(m) : m \in M}
          BY <3>2, <4>2
        <4>4. SetTo(o, v, old[o]) = {Known(Names(v)) \cup UNION old[o]}
          BY <3>4, <4>1 DEF SetTo
        <4>5. Known(Names(v) \cup UNION M) = Known(Names(v)) \cup UNION old[o]
          BY <4>3, KnownJoin
        <4>6. new[o] = {AsRead(o, Names(v) \cup UNION M)}
          BY <3>2, <4>2, <4>4, <4>5
        <4> QED BY <3>3, <3>4, <4>6
      <3>5. CASE o \notin CondPurposeOptions
        <4>1. PICK m : m = IF o \in PurposeOptions THEN Names(v) ELSE v
          OBVIOUS
        <4>2. MeantBy(Append(p, x), o) = {m}
          BY <3>3, <3>5, <4>1
        <4>3. SetTo(o, v, old[o]) = {AsRead(o, m)}
          BY <3>5, <4>1, OptionKinds DEF SetTo, AsRead
        <4> QED BY <3>2, <4>2, <4>3
      <3> QED BY <3>4, <3>5
    <2> QED BY <2>1, <2>2
  <1>6. DOMAIN new = Options /\ new = [o \in DOMAIN new |-> new[o]]
    BY <1>2, <1>3
  <1>7. new = [o \in Options |-> {AsRead(o, m) : m \in MeantBy(Append(p, x), o)}]
    BY <1>5, <1>6
  <1> QED BY <1>1, <1>7 DEF OptsRead

\* The brackets of a command, the arguments of which begin with a key in quotes.
Brackets(S, c, k, x, args, p, t) ==
    args = Quotes(k) \o x /\ p = c \o << "(" >> /\ t = x \o << ")" >>
      => /\ args \in Seq(S) /\ p \in Seq(S) /\ t \in Seq(S)
         /\ Bracket(c, args) = p \o (<< Quote >> \o (k \o (<< Quote >> \o t)))

LEMMA CommandText ==
    ASSUME NEW S, Covers(S), NEW c \in Seq(S), NEW k \in Seq(S), NEW x \in Seq(S), NEW args, NEW p, NEW t
    PROVE  Brackets(S, c, k, x, args, p, t)
  <1>0. SUFFICES ASSUME args = Quotes(k) \o x, p = c \o << "(" >>, t = x \o << ")" >>
                 PROVE  /\ args \in Seq(S) /\ p \in Seq(S) /\ t \in Seq(S)
                        /\ Bracket(c, args) = p \o (<< Quote >> \o (k \o (<< Quote >> \o t)))
    BY DEF Brackets
  <1>1. PICK l, r, q : l = << "(" >> /\ r = << ")" >> /\ q = << Quote >>
    OBVIOUS
  <1>2. l \in Seq(S) /\ r \in Seq(S) /\ q \in Seq(S)
    <2>1. PICK y : y = Quote
      OBVIOUS
    <2>2. y \in S /\ "(" \in S /\ ")" \in S
      BY <2>1 DEF Covers, Marks
    <2> QED BY <1>1, <2>1, <2>2
  <1>3. p \in Seq(S) /\ t \in Seq(S)
    BY <1>0, <1>1, <1>2, JoinFacts
  <1>4. PICK d, e, f, g : d = q \o k /\ e = d \o q /\ f = q \o t /\ g = k \o f
    OBVIOUS
  <1>5. d \in Seq(S)
    BY <1>2, <1>4, JoinFacts
  <1>6. e \in Seq(S)
    BY <1>2, <1>4, <1>5, JoinFacts
  <1>7. f \in Seq(S)
    BY <1>2, <1>3, <1>4, JoinFacts
  <1>8. e = Quotes(k)
    BY <1>1, <1>4 DEF Quotes
  <1>9. args \in Seq(S)
    BY <1>0, <1>6, <1>8, JoinFacts
  <1>10. args \o r = q \o g
    <2>1. Regrouped(e, x, r)
      BY <1>2, <1>6, Regroup
    <2>2. Regrouped(d, q, t)
      BY <1>2, <1>3, <1>5, Regroup
    <2>3. Regrouped(q, k, f)
      BY <1>2, <1>7, Regroup
    <2> QED BY <1>0, <1>1, <1>4, <1>8, <2>1, <2>2, <2>3 DEF Regrouped
  <1>11. g \in Seq(S)
    BY <1>4, <1>7, JoinFacts
  <1>12. PICK z : z = q \o g
    OBVIOUS
  <1>13. z \in Seq(S)
    BY <1>2, <1>11, <1>12, JoinFacts
  <1>14. Regrouped(c, l, z)
    BY <1>2, <1>13, Regroup
  <1>15. Bracket(c, args) = c \o (l \o z)
    BY <1>1, <1>10, <1>12 DEF Bracket
  <1>16. Bracket(c, args) = p \o z
    BY <1>0, <1>1, <1>14, <1>15 DEF Regrouped
  <1> QED BY <1>1, <1>3, <1>4, <1>9, <1>12, <1>16

\* The arguments of a command.
Args(it) == IF it.cmd = << "PUT" >> THEN Quotes(it.key) \o << Comma >> \o Quotes(it.value)
            ELSE Quotes(it.key)

\* The items that clients ask for.
Asked(S) == {it \in [cmd : Commands, key : Seq(S), value : Seq(S), opts : Seq([name : Options, value : Seq(S)])] :
                \A o \in ToSet(it.opts) : OptionFits(o)}

\* What the query was asked to be.
AsAsked(q, it) ==
    /\ DOMAIN q = QueryFields
    /\ q.throws = FALSE
    /\ q.cmd = tolower(it.cmd) /\ q.key = it.key /\ q.value = Meant(it).value

\* The query so far, when the options p have been read.
ReadSoFar(q, it, p) == AsAsked(q, it) /\ OptsRead(q, p)

\* The query without its options.
Queried(it) == Bracket(<< "query" >>, Bracket(it.cmd, Args(it)))

LEMMA QueryRead ==
    ASSUME NEW S, Covers(S), NEW it \in Asked(S), Free(it.key, Quote), Free(Meant(it).value, Quote)
    PROVE  Args(it) \in Seq(S) /\ ReadSoFar(process_predicate(NewQuery, Queried(it)), it, << >>)
  <1>1. it.cmd \in Commands /\ it.key \in Seq(S) /\ it.value \in Seq(S)
    BY DEF Asked
  <1>2. PICK c, k, v, args, val : /\ c = it.cmd /\ k = it.key /\ v = it.value
                                  /\ args = Args(it) /\ val = Bracket(c, args)
    OBVIOUS
  <1>3. c \in Commands /\ k \in Seq(S) /\ v \in Seq(S) /\ Free(k, Quote)
    BY <1>1, <1>2
  <1>4. Quote \in S /\ Comma \in S /\ Quote \in Marks /\ "(" \in S /\ ")" \in S
    BY DEF Covers, Marks
  <1>5. c \in Seq(S) /\ Free(c, Quote)
    BY <1>3, <1>4, CommandWords
  <1>6. PICK p, l, r, e : p = c \o l /\ l = << "(" >> /\ r = << ")" >> /\ e = << >>
    OBVIOUS
  <1>7. l \in Seq(S) /\ r \in Seq(S) /\ e \in Seq(S)
    BY <1>4, <1>6
  <1>8. Free(p, Quote)
    <2>1. Free(l, Quote)
      <3>1. Len(l) = 1 /\ l[1] = "(" /\ Quote # "("
        BY <1>6, MarksDiffer
      <3> QED BY <3>1 DEF Free
    <2>2. p = c \o l => (Free(c, Quote) /\ Free(l, Quote) => Free(p, Quote))
      BY <1>5, <1>7, FreeJoin
    <2> QED BY <1>5, <1>6, <2>1, <2>2
  <1>9. p \in Seq(S)
    BY <1>5, <1>6, <1>7, JoinFacts
  <1>10. PICK q : q = process_predicate(NewQuery, Queried(it))
    OBVIOUS
  <1>11. /\ DOMAIN NewQuery = QueryFields
         /\ NewQuery.throws = FALSE /\ NewQuery.value = << >>
         /\ NewQuery.opts = [o \in Options |-> {}]
    BY DEF NewQuery, QueryFields
  <1>12. Queried(it) = Bracket(<< "query" >>, val)
    BY <1>2 DEF Queried
  <1>13. ASSUME args \in Seq(S)
         PROVE  /\ DOMAIN q = QueryFields
                /\ q.throws = FALSE
                /\ q.cmd = tolower(c)
                /\ q.key = extract_key(val)
                /\ q.value = IF c = << "PUT" >> THEN extract_value(val) ELSE NewQuery.value
                /\ OptsRead(q, << >>)
    <2>1. PICK q0, r0 : q0 = NewQuery /\ r0 = q
      OBVIOUS
    <2>2. DOMAIN q0 = QueryFields /\ q0.throws = FALSE
      BY <1>11, <2>1
    <2>3. c \in Commands /\ args \in Seq(S)
      BY <1>3, <1>13
    <2>4. val = Bracket(c, args) /\ r0 = process_predicate(q0, Bracket(<< "query" >>, val))
      BY <1>2, <1>10, <1>12, <2>1
    <2>5. val = Bracket(c, args) /\ DOMAIN q0 = QueryFields /\ q0.throws = FALSE
            /\ r0 = process_predicate(q0, Bracket(<< "query" >>, val))
            => Commanded(q0, c, val, r0)
      BY <2>3, CommandRead
    <2>6. Commanded(q0, c, val, r0)
      BY <2>2, <2>4, <2>5
    <2>7. q.opts = [o \in Options |-> {}]
      BY <1>11, <2>1, <2>6 DEF Commanded
    <2>8. [o \in Options |-> {AsRead(o, m) : m \in MeantBy(<< >>, o)}] = [o \in Options |-> {}]
      BY MeantEmpty
    <2> QED BY <2>1, <2>6, <2>7, <2>8 DEF Commanded, OptsRead
  <1>14. CASE c = << "PUT" >>
    <2>1. PICK qs, cm, x, t : /\ qs = Quotes(v) /\ cm = << Comma >> /\ x = cm \o qs /\ t = x \o r
      OBVIOUS
    <2>2. qs \in Seq(S) /\ cm \in Seq(S)
      BY <1>3, <1>4, <2>1, StripQuotes
    <2>3. x \in Seq(S)
      BY <2>1, <2>2, JoinFacts
    <2>4. Quotes(k) \in Seq(S)
      BY <1>3, <1>4, StripQuotes
    <2>5. args = Quotes(k) \o x
      <3>1. Regrouped(Quotes(k), cm, qs)
        BY <2>2, <2>4, Regroup
      <3> QED BY <1>2, <1>14, <2>1, <3>1 DEF Args, Regrouped
    <2>6. /\ args \in Seq(S) /\ t \in Seq(S)
          /\ val = p \o (<< Quote >> \o (k \o (<< Quote >> \o t)))
      <3>1. c \in Seq(S) /\ k \in Seq(S) /\ x \in Seq(S)
        BY <1>3, <1>5, <2>3
      <3>2. Brackets(S, c, k, x, args, p, t)
        BY <3>1, CommandText
      <3> QED BY <1>2, <1>6, <2>1, <2>5, <3>2 DEF Brackets
    <2>7. t = << Comma >> \o (<< Quote >> \o (v \o (<< Quote >> \o r)))
      <3>1. PICK y, d, f, g : y = << Quote >> /\ d = y \o v /\ f = y \o r /\ g = v \o f
        OBVIOUS
      <3>2. y \in Seq(S)
        BY <1>4, <3>1
      <3>3. d \in Seq(S) /\ f \in Seq(S)
        BY <1>3, <1>7, <3>1, <3>2, JoinFacts
      <3>4. Regrouped(cm, qs, r)
        BY <1>7, <2>2, Regroup
      <3>5. Regrouped(d, y, r)
        BY <1>7, <3>2, <3>3, Regroup
      <3>6. Regrouped(y, v, f)
        BY <1>3, <3>2, <3>3, Regroup
      <3>7. qs = d \o y
        BY <2>1, <3>1 DEF Quotes
      <3> QED BY <2>1, <3>1, <3>4, <3>5, <3>6, <3>7 DEF Regrouped
    <2>8. Free(v, Quote)
      BY <1>2, <1>14 DEF Meant
    <2>9. extract_key(val) = k
      BY <1>3, <1>4, <1>8, <1>9, <2>6, KeyExtracted
    <2>10. extract_value(val) = v
      <3>1. k \in Seq(S) /\ v \in Seq(S) /\ r \in Seq(S) /\ p \in Seq(S)
        BY <1>3, <1>7, <1>9
      <3>2. Free(p, Quote) /\ Free(k, Quote) /\ Free(v, Quote) /\ Quote \in S /\ Comma \in S
        BY <1>3, <1>4, <1>8, <2>8
      <3>3. ValueBehind(p, k, v, r, t)
        BY <3>1, <3>2, ValueExtracted
      <3> QED BY <2>6, <2>7, <3>3 DEF ValueBehind
    <2>11. Meant(it).value = v
      BY <1>2, <1>14 DEF Meant
    <2> QED BY <1>2, <1>10, <1>13, <1>14, <2>6, <2>9, <2>10, <2>11 DEF AsAsked, ReadSoFar
  <1>15. CASE c # << "PUT" >>
    <2>1. Quotes(k) \in Seq(S)
      BY <1>3, <1>4, StripQuotes
    <2>2. args = Quotes(k) \o e
      <3>1. args = Quotes(k)
        BY <1>2, <1>15 DEF Args
      <3> QED BY <1>6, <2>1, <3>1, ConcatEmptySeq
    <2>3. PICK t : t = e \o r
      OBVIOUS
    <2>4. /\ args \in Seq(S) /\ t \in Seq(S)
          /\ val = p \o (<< Quote >> \o (k \o (<< Quote >> \o t)))
      <3>1. c \in Seq(S) /\ k \in Seq(S) /\ e \in Seq(S)
        BY <1>3, <1>5, <1>7
      <3>2. Brackets(S, c, k, e, args, p, t)
        BY <3>1, CommandText
      <3> QED BY <1>2, <1>6, <2>2, <2>3, <3>2 DEF Brackets
    <2>5. extract_key(val) = k
      BY <1>3, <1>4, <1>8, <1>9, <2>4, KeyExtracted
    <2>6. Meant(it).value = << >>
      BY <1>2, <1>15 DEF Meant
    <2> QED BY <1>2, <1>10, <1>11, <1>13, <1>15, <2>4, <2>5, <2>6 DEF AsAsked, ReadSoFar
  <1> QED BY <1>14, <1>15

\* A text in quotes has no '&' if the text has none.
LEMMA QuotesFree ==
    ASSUME NEW S, Covers(S), NEW v \in Seq(S)
    PROVE  Free(v, "&") => Free(Quotes(v), "&")
  <1>0. SUFFICES ASSUME Free(v, "&") PROVE Free(Quotes(v), "&")
    OBVIOUS
  <1>1. PICK q, d, e : q = << Quote >> /\ d = q \o v /\ e = d \o q
    OBVIOUS
  <1>2. q \in Seq(S)
    <2>1. PICK y : y = Quote
      OBVIOUS
    <2>2. y \in S
      BY <2>1 DEF Covers, Marks
    <2> QED BY <1>1, <2>1, <2>2
  <1>3. d \in Seq(S)
    BY <1>1, <1>2, JoinFacts
  <1>4. Free(q, "&")
    BY <1>1, MarksDiffer DEF Free
  <1>5. Free(d, "&")
    <2>1. d = q \o v => (Free(q, "&") /\ Free(v, "&") => Free(d, "&"))
      BY <1>2, FreeJoin
    <2> QED BY <1>0, <1>1, <1>4, <2>1
  <1>6. Free(e, "&")
    <2>1. e = d \o q => (Free(d, "&") /\ Free(q, "&") => Free(e, "&"))
      BY <1>2, <1>3, FreeJoin
    <2> QED BY <1>1, <1>4, <1>5, <2>1
  <1> QED BY <1>1, <1>6 DEF Quotes

\* The options that a client writes behind a command.
OptionRecords(S) == [name : Options, value : Seq(S)]
OptTexts(p) == [i \in DOMAIN p |-> option_text(p[i])]

LEMMA OptionText ==
    ASSUME NEW S, Covers(S), NEW o \in OptionRecords(S), NEW b
    PROVE  b = Bracket(o.name, Quotes(o.value))
             => /\ b \in Seq(S) /\ option_text(o) \in Seq(S)
                /\ option_text(o) = << "&" >> \o b
                /\ "&" \notin ToSet(o.value) => Free(b, "&")
  <1>0. SUFFICES ASSUME b = Bracket(o.name, Quotes(o.value))
                 PROVE  /\ b \in Seq(S) /\ option_text(o) \in Seq(S)
                        /\ option_text(o) = << "&" >> \o b
                        /\ "&" \notin ToSet(o.value) => Free(b, "&")
    OBVIOUS
  <1>1. PICK amp, l, r, q : amp = << "&" >> /\ l = << "(" >> /\ r = << ")" >> /\ q = << Quote >>
    OBVIOUS
  <1>2. amp \in Seq(S) /\ l \in Seq(S) /\ r \in Seq(S) /\ q \in Seq(S)
    <2>1. PICK y : y = Quote
      OBVIOUS
    <2>2. y \in S /\ "(" \in S /\ ")" \in S /\ "&" \in S
      BY <2>1 DEF Covers, Marks
    <2> QED BY <1>1, <2>1, <2>2
  <1>3. PICK n, v : n = o.name /\ v = o.value
    OBVIOUS
  <1>4. n \in Options /\ v \in Seq(S)
    BY <1>3 DEF OptionRecords
  <1>5. n \in Seq(S) /\ Free(n, "&")
    <2>1. "&" \in Marks
      BY DEF Marks
    <2> QED BY <1>4, <2>1, OptionWords
  <1>6. PICK d, e : d = q \o v /\ e = d \o q
    OBVIOUS
  <1>7. d \in Seq(S)
    BY <1>2, <1>4, <1>6, JoinFacts
  <1>8. e \in Seq(S)
    BY <1>2, <1>6, <1>7, JoinFacts
  <1>9. e = Quotes(v)
    BY <1>1, <1>6 DEF Quotes
  <1>10. PICK x, y, z : x = e \o r /\ y = l \o x /\ z = n \o y
    OBVIOUS
  <1>11. x \in Seq(S)
    BY <1>2, <1>8, <1>10, JoinFacts
  <1>12. y \in Seq(S)
    BY <1>2, <1>10, <1>11, JoinFacts
  <1>13. z \in Seq(S)
    <2>1. n \in Seq(S)
      BY <1>5
    <2> QED BY <1>10, <1>12, <2>1, JoinFacts
  <1>14. b = z
    BY <1>0, <1>1, <1>3, <1>9, <1>10 DEF Bracket
  <1>15. PICK f, g, h : f = amp \o n /\ g = f \o l /\ h = g \o e
    OBVIOUS
  <1>16. f \in Seq(S)
    <2>1. n \in Seq(S)
      BY <1>5
    <2> QED BY <1>2, <1>15, <2>1, JoinFacts
  <1>17. g \in Seq(S)
    BY <1>2, <1>15, <1>16, JoinFacts
  <1>18. h \o r = amp \o z
    <2>1. Regrouped(g, e, r)
      BY <1>2, <1>8, <1>17, Regroup
    <2>2. Regrouped(f, l, x)
      BY <1>2, <1>11, <1>16, Regroup
    <2>3. Regrouped(amp, n, y)
      <3>1. n \in Seq(S)
        BY <1>5
      <3> QED BY <1>2, <1>12, <3>1, Regroup
    <2> QED BY <1>10, <1>15, <2>1, <2>2, <2>3 DEF Regrouped
  <1>19. option_text(o) = h \o r
    BY <1>1, <1>3, <1>9, <1>15 DEF option_text
  <1>20. option_text(o) = amp \o b
    BY <1>14, <1>18, <1>19
  <1>21. option_text(o) \in Seq(S)
    <2>1. PICK a : a = amp \o b
      OBVIOUS
    <2>2. a \in Seq(S)
      BY <1>2, <1>13, <1>14, <2>1, JoinFacts
    <2> QED BY <1>20, <2>1, <2>2
  <1>22. ASSUME "&" \notin ToSet(o.value) PROVE Free(b, "&")
    <2>1. Free(v, "&")
      BY <1>3, <1>4, <1>22 DEF Free, ToSet
    <2>2. Free(e, "&")
      BY <1>4, <1>9, <2>1, QuotesFree
    <2>3. Free(Bracket(n, e), "&")
      <3>1. "(" \in S /\ ")" \in S
        BY DEF Covers, Marks
      <3>2. n \in Seq(S) /\ Free(n, "&")
        BY <1>5
      <3> QED BY <1>8, <2>2, <3>1, <3>2, BracketFree
    <2> QED BY <1>0, <1>3, <1>9, <2>3
  <1> QED BY <1>1, <1>13, <1>14, <1>20, <1>21, <1>22

LEMMA OptTextsAppend ==
    ASSUME NEW S, Covers(S), NEW p \in Seq(OptionRecords(S)), NEW o \in OptionRecords(S)
    PROVE  /\ OptTexts(p) \in Seq(Seq(S))
           /\ OptTexts(Append(p, o)) = Append(OptTexts(p), option_text(o))
  <1>1. PICK R : R = OptionRecords(S)
    OBVIOUS
  <1>2. \A y \in R : option_text(y) \in Seq(S)
    BY <1>1, OptionText
  <1>3. p \in Seq(R) /\ o \in R
    BY <1>1
  <1>4. PICK n, q, f, g : n = Len(p) /\ q = Append(p, o) /\ f = OptTexts(p) /\ g = OptTexts(q)
    OBVIOUS
  <1>5. n \in Nat /\ DOMAIN p = 1..n /\ \A i \in 1..n : p[i] \in R
    BY <1>3, <1>4, LenProperties
  <1>6. /\ q \in Seq(R) /\ Len(q) = n + 1
        /\ \A i \in 1..n : q[i] = p[i]
        /\ q[n + 1] = o
    BY <1>3, <1>4, AppendProperties
  <1>7. f \in [1..n -> Seq(S)] /\ \A i \in 1..n : f[i] = option_text(p[i])
    BY <1>2, <1>4, <1>5 DEF OptTexts
  <1>8. f \in Seq(Seq(S)) /\ Len(f) = n
    <2>1. f \in Seq(Seq(S))
      BY <1>5, <1>7, SeqDef
    <2> QED BY <1>5, <1>7, <2>1
  <1>9. DOMAIN q = 1..(n + 1)
    BY <1>5, <1>6
  <1>10. g = [i \in 1..(n + 1) |-> option_text(q[i])]
    BY <1>4, <1>9 DEF OptTexts
  <1>11. PICK y : y = option_text(o)
    OBVIOUS
  <1>12. y \in Seq(S)
    BY <1>2, <1>3, <1>11
  <1>13. PICK h : h = Append(f, y)
    OBVIOUS
  <1>14. /\ h \in Seq(Seq(S)) /\ Len(h) = n + 1
         /\ \A i \in 1..n : h[i] = f[i]
         /\ h[n + 1] = y
    BY <1>8, <1>12, <1>13, AppendProperties
  <1>15. h = [i \in 1..(n + 1) |-> h[i]]
    BY <1>5, <1>14
  <1>16. \A i \in 1..(n + 1) : i \in 1..n \/ i = n + 1
    BY <1>5
  <1>17. ASSUME NEW i \in 1..(n + 1) PROVE h[i] = option_text(q[i])
    <2>1. CASE i \in 1..n
      BY <1>6, <1>7, <1>14, <2>1
    <2>2. CASE i = n + 1
      BY <1>6, <1>11, <1>14, <2>2
    <2> QED BY <1>16, <2>1, <2>2
  <1>18. g = h
    BY <1>10, <1>15, <1>17
  <1> QED BY <1>4, <1>8, <1>11, <1>13, <1>18

\* The text of a query is its command and then its options.
QueryIs(S, it, c, args, o) ==
    c = it.cmd /\ args = Args(it) /\ o = FlattenSeq(OptTexts(it.opts))
      => /\ Queried(it) \in Seq(S)
         /\ query_text(it) = Queried(it) \o o
         /\ Free(c, "&") /\ Free(args, "&") => Free(Queried(it), "&")

LEMMA QueryTextIs ==
    ASSUME NEW S, Covers(S), NEW it \in Asked(S), NEW c \in Seq(S), NEW args \in Seq(S), NEW o \in Seq(S)
    PROVE  QueryIs(S, it, c, args, o)
  <1>0. SUFFICES ASSUME c = it.cmd, args = Args(it), o = FlattenSeq(OptTexts(it.opts))
                 PROVE  /\ Queried(it) \in Seq(S)
                        /\ query_text(it) = Queried(it) \o o
                        /\ Free(c, "&") /\ Free(args, "&") => Free(Queried(it), "&")
    BY DEF QueryIs
  <1>1. PICK q, l, r, ql, rr : /\ q = << "query" >> /\ l = << "(" >> /\ r = << ")" >>
                               /\ ql = << "query", "(" >> /\ rr = << ")", ")" >>
    OBVIOUS
  <1>2. "query" \in S /\ "(" \in S /\ ")" \in S /\ "query" \in QueryWords /\ "&" \in Marks
    BY DEF Covers, Marks, QueryWords
  <1>3. q \in Seq(S) /\ l \in Seq(S) /\ r \in Seq(S) /\ ql \in Seq(S) /\ rr \in Seq(S)
    BY <1>1, <1>2
  <1>4. ql = q \o l /\ rr = r \o r
    BY <1>1
  <1>5. PICK x, y, z : x = args \o r /\ y = l \o x /\ z = c \o y
    OBVIOUS
  <1>6. x \in Seq(S)
    BY <1>3, <1>5, JoinFacts
  <1>7. y \in Seq(S)
    BY <1>3, <1>5, <1>6, JoinFacts
  <1>8. z \in Seq(S)
    BY <1>5, <1>7, JoinFacts
  <1>9. z = Bracket(c, args)
    BY <1>1, <1>5 DEF Bracket
  <1>10. PICK u, v, w : u = z \o r /\ v = l \o u /\ w = q \o v
    OBVIOUS
  <1>11. u \in Seq(S)
    BY <1>3, <1>8, <1>10, JoinFacts
  <1>12. v \in Seq(S)
    BY <1>3, <1>10, <1>11, JoinFacts
  <1>13. w \in Seq(S)
    BY <1>3, <1>10, <1>12, JoinFacts
  <1>14. w = Queried(it)
    BY <1>0, <1>1, <1>9, <1>10 DEF Bracket, Queried
  <1>15. PICK d, e, f, g : d = ql \o c /\ e = d \o l /\ f = e \o args /\ g = f \o rr
    OBVIOUS
  <1>16. d \in Seq(S)
    BY <1>3, <1>15, JoinFacts
  <1>17. e \in Seq(S)
    BY <1>3, <1>15, <1>16, JoinFacts
  <1>18. PICK x2, y2 : x2 = args \o rr /\ y2 = l \o x2
    OBVIOUS
  <1>19. x2 \in Seq(S)
    BY <1>3, <1>18, JoinFacts
  <1>20. y2 \in Seq(S)
    BY <1>3, <1>18, <1>19, JoinFacts
  <1>21. u = c \o y2
    <2>1. Regrouped(args, r, r)
      BY <1>3, Regroup
    <2>2. Regrouped(l, x, r)
      BY <1>3, <1>6, Regroup
    <2>3. Regrouped(c, y, r)
      BY <1>3, <1>7, Regroup
    <2> QED BY <1>4, <1>5, <1>10, <1>18, <2>1, <2>2, <2>3 DEF Regrouped
  <1>22. g = ql \o (c \o y2)
    <2>1. Regrouped(e, args, rr)
      BY <1>3, <1>17, Regroup
    <2>2. Regrouped(d, l, x2)
      BY <1>3, <1>16, <1>19, Regroup
    <2>3. Regrouped(ql, c, y2)
      BY <1>3, <1>20, Regroup
    <2> QED BY <1>15, <1>18, <2>1, <2>2, <2>3 DEF Regrouped
  <1>23. g = w
    <2>1. Regrouped(q, l, u)
      BY <1>3, <1>11, Regroup
    <2> QED BY <1>4, <1>10, <1>21, <1>22, <2>1 DEF Regrouped
  <1>24. query_text(it) = g \o o
    <2>1. CASE it.cmd = << "PUT" >>
      <3>1. args = Quotes(it.key) \o << "," >> \o Quotes(it.value)
        BY <1>0, <2>1 DEF Args, Comma
      <3> QED BY <1>0, <1>1, <1>15, <2>1, <3>1 DEF query_text, OptTexts
    <2>2. CASE it.cmd # << "PUT" >>
      <3>1. args = Quotes(it.key)
        BY <1>0, <2>2 DEF Args
      <3> QED BY <1>0, <1>1, <1>15, <2>2, <3>1 DEF query_text, OptTexts
    <2> QED BY <2>1, <2>2
  <1>25. ASSUME Free(c, "&"), Free(args, "&") PROVE Free(w, "&")
    <2>1. "(" \in S /\ ")" \in S
      BY <1>2
    <2>2. Free(z, "&")
      BY <1>9, <1>25, <2>1, BracketFree
    <2>3. q \in Seq(S) /\ Free(q, "&")
      BY <1>1, <1>2, WordsFree
    <2>4. Free(Bracket(q, z), "&")
      BY <1>8, <2>1, <2>2, <2>3, BracketFree
    <2> QED BY <1>0, <1>1, <1>9, <1>14, <2>4 DEF Queried
  <1> QED BY <1>13, <1>14, <1>23, <1>24, <1>25

\* The arguments have no '&' if key and value have none.
LEMMA ArgsFree ==
    ASSUME NEW S, Covers(S), NEW it \in Asked(S), Free(it.key, "&"), Free(Meant(it).value, "&")
    PROVE  Free(Args(it), "&")
  <1>1. PICK k, v : k = it.key /\ v = it.value
    OBVIOUS
  <1>2. k \in Seq(S) /\ v \in Seq(S)
    BY <1>1 DEF Asked
  <1>3. Free(Quotes(k), "&")
    BY <1>1, <1>2, QuotesFree
  <1>4. CASE it.cmd # << "PUT" >>
    BY <1>1, <1>3, <1>4 DEF Args
  <1>5. CASE it.cmd = << "PUT" >>
    <2>1. Free(v, "&")
      BY <1>1, <1>5 DEF Meant
    <2>2. Free(Quotes(v), "&")
      BY <1>2, <2>1, QuotesFree
    <2>3. PICK a, b, c, d, e : a = Quotes(k) /\ b = << Comma >> /\ c = Quotes(v) /\ d = a \o b /\ e = d \o c
      OBVIOUS
    <2>4. Quote \in S /\ Comma \in S
      BY DEF Covers, Marks
    <2>5. a \in Seq(S) /\ b \in Seq(S) /\ c \in Seq(S)
      BY <1>2, <2>3, <2>4, StripQuotes
    <2>6. d \in Seq(S)
      BY <2>3, <2>5, JoinFacts
    <2>7. Free(b, "&")
      BY <2>3, MarksDiffer DEF Free
    <2>8. Free(d, "&")
      <3>1. d = a \o b => (Free(a, "&") /\ Free(b, "&") => Free(d, "&"))
        BY <2>5, FreeJoin
      <3> QED BY <1>3, <2>3, <2>7, <3>1
    <2>9. Free(e, "&")
      <3>1. e = d \o c => (Free(d, "&") /\ Free(c, "&") => Free(e, "&"))
        BY <2>5, <2>6, FreeJoin
      <3> QED BY <2>2, <2>3, <2>8, <3>1
    <2>10. Args(it) = e
      BY <1>1, <1>5, <2>3 DEF Args
    <2> QED BY <2>9, <2>10
  <1> QED BY <1>4, <1>5

\* An option is added to what was read, and changes nothing else.
LEMMA OptionAsked ==
    ASSUME NEW S, Covers(S), NEW o \in OptionRecords(S), OptionFits(o), NEW it, NEW q,
           NEW p \in Seq(OptionRecords(S)), ReadSoFar(q, it, p)
    PROVE  ReadSoFar(process_predicate(q, Bracket(o.name, Quotes(o.value))), it, Append(p, o))
  <1>1. PICK name, v : name = o.name /\ v = o.value
    OBVIOUS
  <1>2. name \in Options /\ v \in Seq(S)
    BY <1>1 DEF OptionRecords
  <1>3. (name \in NumberOptions => IsNumber(v)) /\ (name \in BoolOptions => IsBool(v))
    BY <1>1 DEF OptionFits
  <1>4. PICK r : r = process_predicate(q, Bracket(name, Quotes(v)))
    OBVIOUS
  <1>5. DOMAIN q = QueryFields /\ q.throws = FALSE
    BY DEF AsAsked, ReadSoFar
  <1>6. Taken(q, name, v, r)
    BY <1>3, <1>4, <1>5 DEF Taken
  <1>7. OptionSet(q, name, v, r)
    BY <1>2, <1>6, OptionRead
  <1>8. AsAsked(r, it)
    BY <1>7 DEF AsAsked, ReadSoFar, OptionSet, SamePair
  <1>9. OptsRead(r, Append(p, o))
    <2>1. o.name \in Options /\ OptsRead(q, p) /\ OptionSet(q, o.name, o.value, r)
      BY <1>1, <1>2, <1>7 DEF ReadSoFar
    <2> QED BY <2>1, OptsReadMore
  <1> QED BY <1>1, <1>4, <1>8, <1>9 DEF ReadSoFar

\* A text that is read as what was asked for stays so with the options behind it.
LEMMA OptionsRead ==
    ASSUME NEW S, Covers(S), NEW it \in Asked(S), NEW t \in Seq(S), ReadSoFar(Parse(t), it, << >>)
    PROVE  /\ FlattenSeq(OptTexts(it.opts)) \in Seq(S)
           /\ ReadSoFar(Parse(t \o FlattenSeq(OptTexts(it.opts))), it, it.opts)
  <1> DEFINE Fit == {o \in OptionRecords(S) : OptionFits(o)}
             Told(p) == FlattenSeq(OptTexts(p))
             T == {p \in Seq(Fit) : Told(p) \in Seq(S) /\ ReadSoFar(Parse(t \o Told(p)), it, p)}
  <1>1. << >> \in T
    <2>1. << >> \in Seq(Fit)
      BY EmptySeq
    <2>2. OptTexts(<< >>) = << >>
      BY DEF OptTexts
    <2>3. Told(<< >>) = << >>
      BY <2>2, FlattenEmpty
    <2>4. << >> \in Seq(S)
      BY EmptySeq
    <2>5. t \o << >> = t
      BY ConcatEmptySeq
    <2> QED BY <2>1, <2>3, <2>4, <2>5
  <1>2. ASSUME NEW p \in Seq(Fit), NEW o \in Fit, p \in T PROVE Append(p, o) \in T
    <2>1. PICK told, u, b : told = Told(p) /\ u = t \o told /\ b = Bracket(o.name, Quotes(o.value))
      OBVIOUS
    <2>2. told \in Seq(S) /\ ReadSoFar(Parse(u), it, p)
      BY <1>2, <2>1
    <2>3. u \in Seq(S)
      BY <2>1, <2>2, JoinFacts
    <2>4. o \in OptionRecords(S) /\ OptionFits(o)
      OBVIOUS
    <2>5. p \in Seq(OptionRecords(S))
      <3>1. PICK n : n = Len(p)
        OBVIOUS
      <3>2. n \in Nat /\ p \in [1..n -> Fit]
        BY <3>1, LenProperties
      <3>3. p \in [1..n -> OptionRecords(S)]
        BY <3>2
      <3> QED BY <3>2, <3>3, SeqDef
    <2>6. PICK ot : ot = option_text(o)
      OBVIOUS
    <2>7. /\ b \in Seq(S) /\ ot \in Seq(S)
          /\ ot = << "&" >> \o b
          /\ Free(b, "&")
      BY <2>1, <2>4, <2>6, OptionText DEF OptionFits
    <2>8. Told(Append(p, o)) = told \o ot
      <3>1. OptTexts(p) \in Seq(Seq(S)) /\ OptTexts(Append(p, o)) = Append(OptTexts(p), ot)
        BY <2>4, <2>5, <2>6, OptTextsAppend
      <3> QED BY <2>1, <2>7, <3>1, FlattenAppend
    <2>9. told \o ot \in Seq(S)
      <3>1. ot \in Seq(S)
        BY <2>7
      <3> QED BY <2>2, <3>1, ConcatFacts
    <2>10. t \o (told \o ot) = u \o << "&" >> \o b
      <3>1. PICK amp : amp = << "&" >>
        OBVIOUS
      <3>2. amp \in Seq(S) /\ b \in Seq(S) /\ ot \in Seq(S)
        <4>1. "&" \in S
          BY DEF Covers, Marks
        <4> QED BY <2>7, <3>1, <4>1
      <3>3. told \in Seq(S)
        BY <2>2
      <3>4. Regrouped(t, told, ot)
        BY <3>2, <3>3, Regroup
      <3>5. Regrouped(u, amp, b)
        BY <2>3, <3>2, Regroup
      <3> QED BY <2>1, <2>7, <3>1, <3>4, <3>5 DEF Regrouped
    <2>11. Parse(u \o << "&" >> \o b) = process_predicate(Parse(u), b)
      <3>1. "&" \in S
        BY DEF Covers, Marks
      <3>2. b \in Seq(S) /\ Free(b, "&")
        BY <2>7
      <3> QED BY <2>3, <3>1, <3>2, ParseMore
    <2>12. ReadSoFar(process_predicate(Parse(u), b), it, Append(p, o))
      BY <2>1, <2>2, <2>4, <2>5, OptionAsked
    <2>13. Append(p, o) \in Seq(Fit)
      BY AppendProperties
    <2> QED BY <2>8, <2>9, <2>10, <2>11, <2>12, <2>13
  <1>3. \A p \in Seq(Fit) : p \in T
    <2> HIDE DEF T, Fit
    <2> QED BY <1>1, <1>2, TextInduction
  <1>4. it.opts \in Seq(Fit)
    <2>1. PICK p : p = it.opts
      OBVIOUS
    <2>2. p \in Seq(OptionRecords(S)) /\ \A o \in ToSet(p) : OptionFits(o)
      BY <2>1 DEF Asked, OptionRecords
    <2>3. PICK n : n = Len(p)
      OBVIOUS
    <2>4. n \in Nat /\ p \in [1..n -> OptionRecords(S)]
      BY <2>2, <2>3, LenProperties
    <2>5. \A i \in 1..n : p[i] \in Fit
      BY <2>2, <2>4 DEF ToSet
    <2>6. p \in [1..n -> Fit]
      <3> HIDE DEF Fit
      <3> QED BY <2>4, <2>5
    <2>7. p \in Seq(Fit)
      <3> HIDE DEF Fit
      <3> QED BY <2>4, <2>6, SeqDef
    <2> QED BY <2>1, <2>7
  <1> QED BY <1>3, <1>4

\* What clients ask for is made of the elements of a query's text.
LEMMA ItemsAsked ==
    ASSUME NEW S, S = Elements \cup QueryWords \cup Marks
    PROVE  /\ Covers(S)
           /\ \A it \in QueryItems : it \in Asked(S)
  <1>1. Covers(S)
    BY DEF Covers
  <1>2. \A s \in Seq(Elements) : s \in Seq(S)
    <2>1. ASSUME NEW s \in Seq(Elements) PROVE s \in Seq(S)
      <3>1. PICK n : n = Len(s)
        OBVIOUS
      <3>2. n \in Nat /\ s \in [1..n -> Elements]
        BY <3>1, LenProperties
      <3>3. s \in [1..n -> S]
        BY <3>2
      <3> QED BY <3>2, <3>3, SeqDef
    <2> QED BY <2>1
  <1>3. PICK E, R : E = [name : Options, value : Seq(Elements)] /\ R = [name : Options, value : Seq(S)]
    OBVIOUS
  <1>4. \A o \in E : o \in R
    BY <1>2, <1>3
  <1>5. \A p \in Seq(E) : p \in Seq(R)
    <2>1. ASSUME NEW p \in Seq(E) PROVE p \in Seq(R)
      <3>1. PICK n : n = Len(p)
        OBVIOUS
      <3>2. n \in Nat /\ p \in [1..n -> E]
        BY <3>1, LenProperties
      <3>3. p \in [1..n -> R]
        BY <1>4, <3>2
      <3> QED BY <3>2, <3>3, SeqDef
    <2> QED BY <2>1
  <1>6. ASSUME NEW it \in QueryItems PROVE it \in Asked(S)
    <2>1. it \in [cmd : Commands, key : Seq(Elements), value : Seq(Elements), opts : Seq(E)]
      BY <1>3, QueryAssumption
    <2>2. it \in [cmd : Commands, key : Seq(S), value : Seq(S), opts : Seq(R)]
      BY <1>2, <1>5, <2>1
    <2>3. \A o \in ToSet(it.opts) : OptionFits(o)
      BY QueryAssumption
    <2> QED BY <1>3, <2>2, <2>3 DEF Asked
  <1> QED BY <1>1, <1>6

\* The command, the arguments and the options of a query are texts, and so is the query.
AskedTexts(S, it, c, args, o) ==
    /\ c = it.cmd /\ args = Args(it) /\ o = FlattenSeq(OptTexts(it.opts))
    /\ c \in Seq(S) /\ args \in Seq(S) /\ o \in Seq(S)

LEMMA QueryTexts ==
    ASSUME NEW S, Covers(S), NEW it \in Asked(S)
    PROVE  /\ \E c, args, o : AskedTexts(S, it, c, args, o)
           /\ query_text(it) \in Seq(S)
  <1>1. PICK c, args, o : c = it.cmd /\ args = Args(it) /\ o = FlattenSeq(OptTexts(it.opts))
    OBVIOUS
  <1>2. c \in Seq(S)
    <2>1. c \in Commands /\ "&" \in Marks
      BY <1>1 DEF Asked, Marks
    <2> QED BY <2>1, CommandWords
  <1>3. args \in Seq(S)
    <2>1. PICK k, v : k = it.key /\ v = it.value
      OBVIOUS
    <2>2. k \in Seq(S) /\ v \in Seq(S) /\ Quote \in S
      BY <2>1 DEF Asked, Covers, Marks
    <2>3. PICK a, b, d, e, f : a = Quotes(k) /\ b = << Comma >> /\ d = Quotes(v) /\ e = a \o b /\ f = e \o d
      OBVIOUS
    <2>4. a \in Seq(S) /\ d \in Seq(S)
      BY <2>2, <2>3, StripQuotes
    <2>5. b \in Seq(S)
      <3>1. Comma \in S
        BY DEF Covers, Marks
      <3> QED BY <2>3, <3>1
    <2>6. e \in Seq(S)
      BY <2>3, <2>4, <2>5, JoinFacts
    <2>7. f \in Seq(S)
      BY <2>3, <2>4, <2>6, JoinFacts
    <2>8. args = a \/ args = f
      BY <1>1, <2>1, <2>3 DEF Args
    <2> QED BY <2>4, <2>7, <2>8
  <1>4. o \in Seq(S)
    <2>1. PICK p, x : p = it.opts /\ x = [name |-> << "monitor" >>, value |-> << >>]
      OBVIOUS
    <2>2. p \in Seq(OptionRecords(S))
      BY <2>1 DEF Asked, OptionRecords
    <2>3. x \in OptionRecords(S)
      <3>1. << "monitor" >> \in Options
        BY DEF Options, BoolOptions
      <3>2. << >> \in Seq(S)
        BY EmptySeq
      <3> QED BY <2>1, <3>1, <3>2 DEF OptionRecords
    <2>4. PICK q : q = OptTexts(p)
      OBVIOUS
    <2>5. q \in Seq(Seq(S))
      BY <2>2, <2>3, <2>4, OptTextsAppend
    <2> QED BY <1>1, <2>1, <2>4, <2>5, FlattenText
  <1>5. query_text(it) \in Seq(S)
    <2>1. QueryIs(S, it, c, args, o)
      BY <1>2, <1>3, <1>4, QueryTextIs
    <2>2. PICK t : t = Queried(it)
      OBVIOUS
    <2>3. t \in Seq(S) /\ query_text(it) = t \o o
      BY <1>1, <2>1, <2>2 DEF QueryIs
    <2> QED BY <1>4, <2>3, ConcatFacts
  <1> QED BY <1>1, <1>2, <1>3, <1>4, <1>5 DEF AskedTexts

\* A number is read whole if and only if it is made of digits only.
LEMMA NumberExact ==
    ASSUME NEW S, NEW s \in Seq(S)
    PROVE  stoi(s) = s <=> ToSet(s) \subseteq Digits
  <1>1. PICK t, n : t = Append(s, "end") /\ n = Len(s)
    OBVIOUS
  <1>2. /\ n \in Nat /\ Len(t) = n + 1 /\ t[n + 1] = "end"
        /\ \A i \in 1..n : t[i] = s[i] /\ s[i] \in S
        /\ DOMAIN s = 1..n
    BY <1>1, LenProperties, AppendProperties
  <1>3. "end" \notin Digits
    BY DEF Digits
  <1>4. PICK I : I = {i \in 1..Len(t) : t[i] \notin Digits}
    OBVIOUS
  <1>5. I \in SUBSET Nat /\ n + 1 \in I
    BY <1>2, <1>3, <1>4
  <1>6. PICK m : m = Min(I)
    OBVIOUS
  <1>7. m \in I /\ \A i \in I : m <= i
    BY <1>5, <1>6, FirstPosition
  <1>8. stoi(s) = SubSeq(s, 1, m - 1)
    <2>1. SelectInSeq(t, LAMBDA x : x \notin Digits) = m
      BY <1>4, <1>5, <1>6 DEF SelectInSeq
    <2> QED BY <1>1, <2>1 DEF stoi
  <1>9. m \in Nat /\ 1 <= m /\ m <= n + 1
    BY <1>2, <1>4, <1>5, <1>7
  <1>10. PICK k, one, r : k = m - 1 /\ one = 1 /\ r = SubSeq(s, one, k)
    OBVIOUS
  <1>11. k \in Nat /\ k <= n /\ one \in Nat
    BY <1>2, <1>9, <1>10
  <1>12. \A i \in one..k : s[i] \in S
    BY <1>2, <1>10, <1>11
  <1>13. /\ r \in Seq(S)
         /\ Len(r) = IF one <= k THEN k - one + 1 ELSE 0
         /\ \A i \in 1..(k - one + 1) : r[i] = s[one + i - 1]
    BY <1>10, <1>11, <1>12, SubSeqProperties
  <1>14. Len(r) = k /\ \A i \in 1..k : r[i] = s[i]
    BY <1>10, <1>11, <1>13
  <1>15. CASE ToSet(s) \subseteq Digits
    <2>1. \A i \in 1..n : s[i] \in Digits
      BY <1>2, <1>15 DEF ToSet
    <2>2. m = n + 1
      BY <1>2, <1>4, <1>7, <1>9, <2>1
    <2>3. k = n
      BY <1>2, <1>10, <2>2
    <2>4. Len(r) = Len(s) /\ \A i \in 1..Len(s) : r[i] = s[i]
      BY <1>1, <1>14, <2>3
    <2>5. r = s
      BY <1>13, <2>4, SeqEqual
    <2> QED BY <1>8, <1>10, <1>15, <2>5
  <1>16. CASE ~(ToSet(s) \subseteq Digits)
    <2>1. PICK i \in 1..n : s[i] \notin Digits
      BY <1>2, <1>16 DEF ToSet
    <2>2. i \in I
      BY <1>2, <1>4, <2>1
    <2>3. k < n
      BY <1>2, <1>7, <1>9, <1>10, <2>1, <2>2
    <2>4. r # s
      BY <1>1, <1>11, <1>14, <2>3
    <2> QED BY <1>8, <1>10, <1>16, <2>4
  <1> QED BY <1>15, <1>16

\* The options are read as they were meant if and only if they are readable.
LEMMA OptionsExact ==
    ASSUME NEW S, NEW it \in Asked(S), NEW q, OptsRead(q, it.opts)
    PROVE  q.opts = [o \in Options |-> MeantBy(it.opts, o)] <=> Readable(it)
  <1>1. PICK p : p = it.opts
    OBVIOUS
  <1>2. p \in Seq(OptionRecords(S))
    BY <1>1 DEF Asked, OptionRecords
  <1>3. ASSUME NEW o \in Options
        PROVE  {AsRead(o, m) : m \in MeantBy(p, o)} = MeantBy(p, o)
                 <=> \A m \in MeantBy(p, o) :
                        /\ o \in NumberOptions => ToSet(m) \subseteq Digits
                        /\ o \in PurposeOptions \cup CondPurposeOptions => m \subseteq pur_index
    <2>1. CASE MeantBy(p, o) = {}
      BY <2>1
    <2>2. ASSUME NEW m, MeantBy(p, o) = {m}
          PROVE  AsRead(o, m) = m
                   <=> /\ o \in NumberOptions => ToSet(m) \subseteq Digits
                       /\ o \in PurposeOptions \cup CondPurposeOptions => m \subseteq pur_index
      <3>1. CASE o \in NumberOptions
        <4>1. o \notin PurposeOptions \cup CondPurposeOptions
          BY <3>1, OptionKinds
        <4>2. m \in Seq(S)
          <5>1. \E i \in DOMAIN p : m = p[i].value
            BY <2>2, <4>1 DEF MeantBy
          <5>2. \A i \in DOMAIN p : p[i] \in OptionRecords(S)
            BY <1>2
          <5> QED BY <5>1, <5>2 DEF OptionRecords
        <4>3. AsRead(o, m) = stoi(m)
          BY <3>1 DEF AsRead
        <4> QED BY <3>1, <4>1, <4>2, <4>3, NumberExact
      <3>2. CASE o \in PurposeOptions \cup CondPurposeOptions
        <4>1. o \notin NumberOptions
          BY <3>2, OptionKinds
        <4>2. AsRead(o, m) = Known(m)
          BY <3>2, <4>1 DEF AsRead
        <4> QED BY <3>2, <4>1, <4>2, KnownNames
      <3>3. CASE o \notin NumberOptions /\ o \notin PurposeOptions \cup CondPurposeOptions
        BY <3>3 DEF AsRead
      <3> QED BY <3>1, <3>2, <3>3
    <2>3. ASSUME NEW m, MeantBy(p, o) = {m}
          PROVE  {AsRead(o, n) : n \in MeantBy(p, o)} = MeantBy(p, o) <=> AsRead(o, m) = m
      BY <2>3
    <2>4. CASE \E m : MeantBy(p, o) = {m}
      <3>1. PICK m : MeantBy(p, o) = {m}
        BY <2>4
      <3> QED BY <2>2, <2>3, <3>1
    <2> QED BY <1>2, <2>1, <2>4, MeantOnce
  <1>4. q.opts = [o \in Options |-> MeantBy(p, o)]
          <=> \A o \in Options : {AsRead(o, m) : m \in MeantBy(p, o)} = MeantBy(p, o)
    <2>1. PICK f, g : /\ f = [o \in Options |-> {AsRead(o, m) : m \in MeantBy(p, o)}]
                      /\ g = [o \in Options |-> MeantBy(p, o)]
      OBVIOUS
    <2>2. q.opts = f
      BY <1>1, <2>1 DEF OptsRead
    <2>3. f = g <=> \A o \in Options : f[o] = g[o]
      BY <2>1
    <2> QED BY <2>1, <2>2, <2>3
  <1> QED BY <1>1, <1>3, <1>4 DEF Readable

\* A whole query is read as what was asked for.
LEMMA QueryParsed ==
    ASSUME NEW S, Covers(S), NEW it \in Asked(S),
           Free(it.key, Quote), Free(it.key, "&"),
           Free(Meant(it).value, Quote), Free(Meant(it).value, "&")
    PROVE  ReadSoFar(Parse(query_text(it)), it, it.opts)
  <1>1. ReadSoFar(process_predicate(NewQuery, Queried(it)), it, << >>)
    BY QueryRead
  <1>2. PICK c, args, o : AskedTexts(S, it, c, args, o)
    BY QueryTexts
  <1>3. PICK t : t = Queried(it)
    OBVIOUS
  <1>4. c = it.cmd /\ args = Args(it) /\ o = FlattenSeq(OptTexts(it.opts))
    BY <1>2 DEF AskedTexts
  <1>5. QueryIs(S, it, c, args, o)
    <2>1. c \in Seq(S) /\ args \in Seq(S) /\ o \in Seq(S)
      BY <1>2 DEF AskedTexts
    <2> QED BY <2>1, QueryTextIs
  <1>6. Free(c, "&")
    <2>1. c \in Commands /\ "&" \in Marks
      BY <1>4 DEF Asked, Marks
    <2> QED BY <2>1, CommandWords
  <1>7. Free(args, "&")
    BY <1>4, ArgsFree
  <1>8. t \in Seq(S) /\ Free(t, "&") /\ query_text(it) = t \o o
    BY <1>3, <1>4, <1>5, <1>6, <1>7 DEF QueryIs
  <1>9. ReadSoFar(Parse(t), it, << >>)
    <2>1. Parse(t) = process_predicate(NewQuery, t)
      BY <1>8, ParseOne
    <2> QED BY <1>1, <1>3, <2>1
  <1>10. ReadSoFar(Parse(t \o o), it, it.opts)
    <2>1. t \in Seq(S)
      BY <1>8
    <2> QED BY <1>4, <1>9, <2>1, OptionsRead
  <1> QED BY <1>8, <1>10

(***************************************************************************)
(* A whole query is read as the client meant it, its options included, if  *)
(* and only if neither key nor value contains a quote or an '&', every     *)
(* number is made of digits only and every purpose that counts is known:   *)
(* the constructor of query, with process_predicate, parse_query,          *)
(* extract_key, extract_value and parse_option of query.cpp and set_bitmap *)
(* of gdpr_metadata.hpp, for texts and options of any length and order.    *)
(***************************************************************************)
THEOREM QueriesReadBack == Spec => []QueryReadsBack
  <1>1. TextInv => QueryReadsBack
    <2> SUFFICES ASSUME TextInv, HasRead("query"), ~cut
                 PROVE  (~result.throws
                           /\ [cmd |-> result.cmd, key |-> result.key, value |-> result.value,
                               opts |-> result.opts] = Meant(item))
                          <=> /\ Without(item.key, {Quote, "&"})
                              /\ Without(Meant(item).value, {Quote, "&"})
                              /\ Readable(item)
      BY DEF QueryReadsBack
    <2>1. PICK S : S = Elements \cup QueryWords \cup Marks
      OBVIOUS
    <2>2. PICK it, r : it = item /\ r = result
      OBVIOUS
    <2>3. it \in QueryItems /\ r = Parse(query_text(it))
      BY <2>2 DEF TextInv, QueryInv, HasRead
    <2>4. Covers(S) /\ it \in Asked(S)
      BY <2>1, <2>3, ItemsAsked
    <2>5. PICK k, v, o, m : /\ k = it.key /\ v = Meant(it).value /\ m = Meant(it)
                            /\ o = [x \in Options |-> MeantBy(it.opts, x)]
      OBVIOUS
    <2>6. k \in Seq(S) /\ v \in Seq(S)
      <3>1. it.key \in Seq(S) /\ it.value \in Seq(S) /\ << >> \in Seq(S)
        BY <2>4, EmptySeq DEF Asked
      <3> QED BY <2>5, <3>1 DEF Meant
    <2>7. /\ Without(k, {Quote, "&"}) <=> Free(k, Quote) /\ Free(k, "&")
          /\ Without(v, {Quote, "&"}) <=> Free(v, Quote) /\ Free(v, "&")
      BY <2>6, WithoutFree
    <2>8. m = [cmd |-> tolower(it.cmd), key |-> k, value |-> v, opts |-> o]
      BY <2>5 DEF Meant
    <2>9. ASSUME [cmd |-> r.cmd, key |-> r.key, value |-> r.value, opts |-> r.opts] = m
          PROVE  Without(k, {Quote, "&"}) /\ Without(v, {Quote, "&"})
      <3>1. r.key = k /\ r.value = v
        BY <2>8, <2>9
      <3>2. Unquoted(r)
        <4>1. query_text(it) \in Seq(S)
          BY <2>4, QueryTexts
        <4> QED BY <2>3, <4>1, ParsePlain
      <3> QED BY <2>7, <3>1, <3>2 DEF Unquoted
    <2>10. ASSUME Without(k, {Quote, "&"}), Without(v, {Quote, "&"})
           PROVE  /\ r.throws = FALSE /\ r.cmd = tolower(it.cmd) /\ r.key = k /\ r.value = v
                  /\ r.opts = o <=> Readable(it)
      <3>1. ReadSoFar(r, it, it.opts)
        <4>1. Free(it.key, Quote) /\ Free(it.key, "&")
              /\ Free(Meant(it).value, Quote) /\ Free(Meant(it).value, "&")
          BY <2>5, <2>7, <2>10
        <4> QED BY <2>3, <2>4, <4>1, QueryParsed
      <3>2. r.throws = FALSE /\ r.cmd = tolower(it.cmd) /\ r.key = k /\ r.value = v
        BY <2>5, <3>1 DEF AsAsked, ReadSoFar
      <3>3. r.opts = o <=> Readable(it)
        <4>1. OptsRead(r, it.opts)
          BY <3>1 DEF ReadSoFar
        <4>2. r.opts = [x \in Options |-> MeantBy(it.opts, x)] <=> Readable(it)
          BY <2>4, <4>1, OptionsExact
        <4> QED BY <2>5, <4>2
      <3> QED BY <3>2, <3>3
    <2>11. ASSUME r.cmd = tolower(it.cmd), r.key = k, r.value = v
           PROVE  [cmd |-> r.cmd, key |-> r.key, value |-> r.value, opts |-> r.opts] = m <=> r.opts = o
      BY <2>8, <2>11
    <2>12. ASSUME [cmd |-> r.cmd, key |-> r.key, value |-> r.value, opts |-> r.opts] = m
           PROVE  Without(k, {Quote, "&"}) /\ Without(v, {Quote, "&"}) /\ Readable(it)
      BY <2>8, <2>9, <2>10, <2>12
    <2>13. ASSUME Without(k, {Quote, "&"}), Without(v, {Quote, "&"}), Readable(it)
           PROVE  /\ r.throws = FALSE
                  /\ [cmd |-> r.cmd, key |-> r.key, value |-> r.value, opts |-> r.opts] = m
      BY <2>10, <2>11, <2>13
    <2> QED BY <2>2, <2>5, <2>12, <2>13
  <1> QED BY <1>1, TextsUnderWay, PTL

=============================================================================
