------------------------------- MODULE LogFile ------------------------------
(***************************************************************************)
(* What a log file holds and what decoding finds in it.  An entry is       *)
(* written as its size followed by its bytes, in two writes of a buffered  *)
(* stream; a crash between two flushes leaves a size without some or all   *)
(* of its bytes, Torn here.                                                *)
(***************************************************************************)
EXTENDS Integers, SequencesExt

CONSTANT Torn

\* Mutant: whatever follows is taken for entries.
ReadableToTheEnd(s) == s

\* Entries are found by their sizes, and the number of bytes read is not
\* compared with the size: a torn entry swallows bytes of what follows, and
\* from there on nothing but garbage is decoded, one last Torn here.
Readable(s) ==
    LET n == SelectInSeq(s, LAMBDA e : e = Torn)
    IN  IF n = 0 THEN s ELSE SubSeq(s, 1, n)

\* The entries that were written in full.
Whole(s) == SelectSeq(s, LAMBDA e : e # Torn)

\* What reaches the file of a buffer b that is lost.
Parts(b) == {SubSeq(b, 1, n) : n \in 0..Len(b)}
               \cup {Append(SubSeq(b, 1, n), Torn) : n \in 0..(Len(b) - 1)}

=============================================================================
