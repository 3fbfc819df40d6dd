------------------------------ MODULE MCInputs ------------------------------
(* Instances of Inputs for TLC. *)
EXTENDS Inputs

Arguments ==
    {<<"dir">>, <<"other">>, <<"">>, <<"--example">>, <<"-e", "basic">>, <<"--example", "">>,
     <<"--example-path">>, <<"--example-path", "a">>, <<"--no-git">>, <<"-h">>, <<"-v">>,
     <<"--storage", "prisma">>}
Lines == UNION {[1 .. n -> Arguments] : n \in 0 .. 4}
Unknown == {"--storage"}

Names == UNION {[1 .. n -> {"a", "b"}] : n \in 1 .. 3}
Requests ==
         [kind : {"named"}, path : Names, flagged : BOOLEAN, slashed : {FALSE}]
    \cup [kind : {"root"}, path : Names, slash : BOOLEAN, flagged : BOOLEAN, slashed : BOOLEAN]
    \cup [kind : {"tree"}, branch : Names, path : Names, inUrl : BOOLEAN, slash : BOOLEAN,
          flagged : BOOLEAN, slashed : BOOLEAN]
Repositories == [release : {<<>>, <<"v1">>}, branch : {<<"trunk">>}]

Keys == <<"", "code", "hmac", "shop">>
Pairs == {[key |-> k, value |-> v] : k \in {"code", "shop"}, v \in {"x", "y"}}
HmacParts == {[key |-> "hmac", value |-> v] : v \in {"digest", "", "%", "(none)"}}
Received == UNION {[1 .. n -> Pairs \cup HmacParts \cup {Blank}] : n \in 0 .. 4}
SignedTexts ==
    {t \in UNION {[1 .. n -> Pairs] : n \in 0 .. 3} :
        \A i, j \in DOMAIN t : i < j => ~(t[i].key = "shop" /\ t[j].key = "code")}

\* Octets at the edges of the ranges, and their neighbours.
Edges ==
    {<<a, b, c>> : a \in {0, 9, 10, 11, 126, 127, 128, 223, 224, 239, 240, 255}, b \in {0, 255},
                   c \in {0}}
    \cup {<<100, b, 7>> : b \in {63, 64, 127, 128}} \cup {<<169, b, 7>> : b \in {253, 254, 255}}
    \cup {<<172, b, 7>> : b \in {15, 16, 31, 32}}
    \cup {<<192, b, c>> : b \in {0, 1, 167, 168, 169}, c \in {0, 1, 255}}
    \cup {<<198, b, 7>> : b \in {17, 18, 19, 20}}
Plain == {Octets(e[1], e[2], e[3], 8) : e \in Edges}
Notations ==
    UNION {{Zeros(5) \o <<65535>> \o v4, <<100, 65435>> \o Zeros(4) \o v4,
            <<100, 65435, 1>> \o Zeros(3) \o v4, <<8194>> \o v4 \o Zeros(5)} : v4 \in Plain}
    \cup {<<g>> \o Zeros(6) \o <<last>> :
             g \in {0, 8193, 64511, 64512, 65023, 65024, 65151, 65152, 65215, 65216, 65279, 65280},
             last \in {0, 1, 2}}
=============================================================================
