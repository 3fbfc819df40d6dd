------------------------------ MODULE MCLogin ------------------------------
(* Instances of Login for TLC. *)
EXTENDS Login, TLC

CONSTANTS k1, k2, alice, bob, ch1, domA, domB, shopA, shopB, null

TwoDomains == [id \in ShopIds |-> IF id = shopA THEN domA ELSE domB]
Symmetry == Permutations(Slots) \cup Permutations(Clients)

Uri(scheme, host, port) ==
    [scheme |-> scheme, host |-> host, port |-> port, rest |-> "/cb",
     userinfo |-> "", fragment |-> ""]

Asked == {Uri("https", "app", ""), Uri("http", "app", ""), Uri("https", "app", "8443"),
          Uri("http", "localhost", "1"), Uri("http", "localhost", "2"),
          Uri("https", "localhost", "1"), Uri("javascript", "", ""),
          [Uri("https", "app", "") EXCEPT !.userinfo = "user:pass"]}
AskedSets == {{u} : u \in Asked \ {Uri("https", "app", "8443"), Uri("https", "localhost", "1"),
                                   Uri("http", "localhost", "2")}}
Loopback == {"localhost"}
Dangerous == {"javascript"}
=============================================================================
