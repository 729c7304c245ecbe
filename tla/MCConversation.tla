---------------------------- MODULE MCConversation -----------------------------
(* Small alphabets for TLC: two tools, two ids, two indices, one JSON text.    *)
EXTENDS Conversation

minusOne == -1
a == <<"a">>
open == <<"{">>
close == <<"}">>
openTag == <<"<", "t">>
closeTag == <<"<", "/">>
object == <<"{", "}">>
Json == {object}

R(id, index, name, how, args) ==
    [id |-> id, index |-> index, name |-> name, how |-> how, args |-> args]
E(text, reason, fin, cs, last) ==
    [text |-> text, reason |-> reason, how |-> "snapshot", finish |-> fin, calls |-> cs,
     last |-> last]

\* One record: every address with every content, and the upstream's own tool.
Addresses == {<<0, -1>>, <<1, -1>>, <<2, -1>>, <<0, 0>>, <<1, 0>>, <<2, 1>>}
Contents == {<<"f", "piece", open>>, <<"", "piece", close>>, <<"g", "whole", object>>}
Singles == {<<R(ad[1], ad[2], c[1], c[2], c[3])>> : ad \in Addresses, c \in Contents}
           \cup {<<R(0, -1, "done", "whole", object)>>}

\* Two records, without an address or with ids in one order and the other.
Both(ids, f, g, how, args) == <<R(ids[1], -1, f, how, args), R(ids[2], -1, g, how, args)>>
Pairs == {Both(ids, "f", "g", "piece", open) : ids \in {<<0, 0>>, <<1, 2>>}}
         \cup {Both(ids, "", "", "piece", close) : ids \in {<<0, 0>>, <<2, 1>>}}

\* A whole answer: one call with each id or none, or two.
Answers == {<<R(id, -1, "f", "whole", object)>> : id \in 0..2}
           \cup {Both(ids, "f", "g", "none", <<>>) : ids \in {<<0, 0>>, <<1, 2>>}}

MCEvents ==
    {E(<<>>, <<>>, "stop", cs, FALSE) : cs \in Singles \cup Pairs}
    \cup {E(a, <<>>, "stop", <<>>, FALSE), E(<<"a", "b">>, a, "length", <<>>, FALSE)}
    \cup {E(t, <<>>, "stop", <<>>, TRUE) : t \in {<<>>, <<"a", "b">>}}
    \cup {E(a, a, "stop", cs, TRUE) : cs \in Answers}
    \cup {E(<<>>, <<>>, "stop", <<R(0, -1, "", "snapshot", object)>>, FALSE)}
    \cup {E(openTag \o a, <<>>, "stop", <<>>, FALSE),
          E(openTag \o a \o closeTag \o a, <<>>, "stop", <<>>, TRUE)}

\* Text in fragments.
Fragments == {[E(t, <<>>, "stop", <<>>, last) EXCEPT !.how = "fragment"] :
                t \in {a, <<"b">>}, last \in BOOLEAN}

\* Histories from elsewhere.
C(id, name) == [id |-> id, name |-> name]
MCStrange == {User, Result(1, ""), Result(2, ""), Result(2, "h")}
             \cup {Assistant(cs) : cs \in {<<C(1, "f")>>, <<C(1, "g")>>, <<C(1, "f"), C(2, "g")>>,
                                          <<C(1, "f"), C(1, "g")>>}}
===============================================================================
