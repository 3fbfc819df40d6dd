--------------------------- MODULE CallbackQuery ---------------------------
(***************************************************************************)
(* verifyShopifyHmac: whether a callback's query string is one that        *)
(* Shopify signed.  A query is the sequence of its parts between "&" signs;*)
(* a part has a key and, after "=", perhaps a value, both as they were     *)
(* encoded.  Shopify signs the parts of a request sorted by key.           *)
(*                                                                         *)
(* The digest is a collision-free function of the signed text, so that an  *)
(* hmac parameter either carries the digest of what Shopify signed         *)
(* ("digest"), or something else.                                          *)
(***************************************************************************)
EXTENDS Integers, Sequences, SequencesExt

CONSTANTS KeyOrder         \* the keys, in the order of their code units

NoValue == "(none)"        \* a part without "="
Blank == [key |-> "", value |-> NoValue]

Pair == [key : STRING, value : STRING]
IsHmac(pair) == pair.key = "hmac" /\ pair.value # NoValue
Hmacs == {pair \in Pair : IsHmac(pair)}
Rest == {pair \in Pair : ~IsHmac(pair) /\ pair # Blank}
WithKey(key) == {pair \in Rest : pair.key = key}

\* What a loop pushes of the pairs it goes through: those that are wanted.
Pushed(pairs, wanted) ==
    LET pushed[n \in 0 .. Len(pairs)] ==
            IF n = 0 THEN <<>>
            ELSE IF pairs[n] \in wanted THEN Append(pushed[n - 1], pairs[n]) ELSE pushed[n - 1]
    IN pushed[Len(pairs)]

\* Fault: parameters are hashed in the order in which they came.
Sorted_NotAtAll(pairs) == pairs

\* A stable sort by key.
Sorted(pairs) == FlattenSeq([i \in DOMAIN KeyOrder |-> Pushed(pairs, WithKey(KeyOrder[i]))])

\* The hmac parameter: exactly one, neither empty nor wrongly encoded.
Provided(query) ==
    LET hmacs == Pushed(query, Hmacs) IN
    IF Len(hmacs) = 1 /\ hmacs[1].value \notin {"", "%"} THEN hmacs[1].value ELSE "none"

\* verifyShopifyHmac, for a text that Shopify signed.
Verified(query, signed) ==
    Provided(query) = "digest" /\ Sorted(Pushed(query, Rest)) = signed

-----------------------------------------------------------------------------
\* What Shopify signs.
Signable ==
    {text \in Seq({pair \in Rest : \E i \in DOMAIN KeyOrder : KeyOrder[i] = pair.key}) :
        \A i, j \in DOMAIN text : \A k, l \in DOMAIN KeyOrder :
           i <= j /\ text[i].key = KeyOrder[k] /\ text[j].key = KeyOrder[l] => k <= l}

\* The values that a query gives a key, in order, as Express reads them.
ValuesOf(query, key) == Pushed(query, WithKey(key))

\* A query is taken for Shopify's if and only if it says of every parameter what
\* Shopify said, once or several times and in that order, and bears its digest.
Genuine(query, signed) ==
    /\ \A i \in DOMAIN KeyOrder : ValuesOf(query, KeyOrder[i]) = ValuesOf(signed, KeyOrder[i])
    /\ \E i \in DOMAIN query : query[i] = [key |-> "hmac", value |-> "digest"]
    /\ \A i, j \in DOMAIN query : IsHmac(query[i]) /\ IsHmac(query[j]) => i = j
=============================================================================
