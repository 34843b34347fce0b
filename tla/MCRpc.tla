------------------------------- MODULE MCRpc -------------------------------
(* A small instance of Rpc: seven for the largest safe integer, five for   *)
(* 2^31 - 1, and six products that share their letters.                    *)
EXTENDS Rpc, DemoMessages

MCSpelling ==
  "A" :> <<"a">> @@ "B" :> <<"b">> @@ "AB" :> <<"a", "b">> @@
  "BA" :> <<"b", "a">> @@ "AA" :> <<"a", "a">> @@ "BAB" :> <<"b", "a", "b">>
MCCatalogue == DOMAIN MCSpelling
MCIdLists == {<<>>} \cup {<<p>> : p \in MCCatalogue}
             \cup {<<p, q>> : p \in {"A", "BA"}, q \in {"AB", "BA"}}
MCPageNumbers == {-1, 0, 1, 5, 6, 8}
MCPeerNumbers == {-9, -7, 0, 1, 7, 8, 9}
=============================================================================
