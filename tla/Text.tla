-------------------------------- MODULE Text --------------------------------
(***************************************************************************)
(* Strings as the code that searches them sees them: sequences of          *)
(* characters, where a word that is never searched for a part of itself is *)
(* one element.  The operators are the members of std::string_view that    *)
(* the parsers use.  Positions start at 1 and NPos is 0, so that npos + 1  *)
(* is the start of the string, as it is in the code.                       *)
(***************************************************************************)
EXTENDS Integers, SequencesExt

NPos == 0

find(s, ch, from) == SelectInSubSeq(s, from, Len(s), LAMBDA x : x = ch)

rfind(s, ch) == SelectLastInSeq(s, LAMBDA x : x = ch)

\* substr(from, to - from) in unsigned arithmetic: a length that wraps around,
\* as the one up to npos does, reaches to the end of the string.
between(s, from, to) ==
    SubSeq(s, from, IF to = NPos \/ to < from THEN Len(s) ELSE to - 1)

\* The pieces of s between occurrences of ch; the last one is always there.
split(s, ch) ==
    FoldLeft(LAMBDA pieces, x : IF x = ch THEN Append(pieces, << >>)
                                ELSE [pieces EXCEPT ![Len(pieces)] = Append(@, x)],
             << << >> >>, s)

=============================================================================
