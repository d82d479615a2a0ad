-------------------------- MODULE MCRequestParser --------------------------
(***************************************************************************)
(* RequestParser on requests of up to four lines.                          *)
(***************************************************************************)
EXTENDS RequestParser

Sep == <<"cr", "lf">>

RequestLines == {<<"GET", "sp", "x", "sp", "x">>, <<"x", "sp", "x", "sp", "x", "sp">>,
                 <<"GET", "sp", "x">>, <<"GET", "sp", "sp", "x">>, <<"sp", "x", "sp", "x">>,
                 <<"GET", "sp", "x", "sp">>, <<>>}

HeaderLines  == {<<"x", "colon", "x">>, <<"X", "colon", "sp">>, <<"sp", "x">>, <<"sp", "colon">>, <<"x">>,
                 <<"colon", "x">>, <<"x", "cr", "colon">>, <<"x", "lf", "colon">>}

Headers == {<<>>} \cup {h \o Sep : h \in HeaderLines}
             \cup {g \o Sep \o h \o Sep : g, h \in HeaderLines}

\* Complete requests, with nothing, a body or a second request behind.
MCRequests ==
    {r \o Sep \o h \o Sep \o t : r \in RequestLines, h \in Headers, t \in {<<>>, <<"x">>}}
      \cup {<<"GET", "sp", "x", "sp", "x">> \o Sep \o a \o Sep \o b \o Sep \o c \o Sep \o Sep :
              a \in {<<"x", "colon", "x">>}, b, c \in HeaderLines}
=============================================================================
