------------------------- MODULE MCNativeController -------------------------
(***************************************************************************)
(* Instances of NativeController for TLC.                                  *)
(***************************************************************************)
EXTENDS NativeController

CONSTANTS c1, c2

QueryOf(body) == << "query", "(" >> \o body \o << ")" >>
Get(k) == QueryOf(<< "GET", "(", Quote, k, Quote, ")" >>)
Delete(k) == QueryOf(<< "DELETE", "(", Quote, k, Quote, ")" >>)
Put(k, v) == QueryOf(<< "PUT", "(", Quote, k, Quote, ",", Quote >> \o v \o << Quote, ")" >>)

Exit == QueryOf(<<"exit">>)
Unknown == QueryOf(<<"list">>)

\* A query that fills the buffer; one element more is too much.  Cut behind its
\* "&" it throws, and a put that is cut there has lost its value.
Monitored == Get("k1") \o << "&", "monitor", "(", Quote, "true", Quote, ")" >>
MaxSize == Len(Monitored)
AfterAmpersand == {10}

\* The pair is sealed by another key, or too long for an answer.
Long == [i \in 1..(MaxSize + 1) |-> "x"]
MCStores == "key" :> {<<"k1">> :> << "other", "a" >>} @@ Plain :> {<<"k1">> :> Long}

\* One client reads, and sends what is refused or at the limits; the other writes.
MCTexts ==
    c1 :> {Monitored, Append(Monitored, "&"), Put("k1", <<"a">>), Exit, Unknown}
      @@ c2 :> {Put("k1", <<"b">>), Delete("k1")}

=============================================================================
