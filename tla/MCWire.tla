------------------------------- MODULE MCWire -------------------------------
(* Two operations in a row on one connection.                                *)
EXTENDS Wire

O(o, ks) == [op |-> o, keys |-> ks]
MCPlans ==
  {<<O(o, ks), O("GET", <<"a", "b">>)>> : o \in {"GET", "HAS", "PUT", "IDS"}, ks \in {<<"a">>, <<"a", "b">>}}
  \cup {<<O(o, <<"a", "b", "a">>)>> : o \in {"GET", "PUT", "IDS"}}
  \cup {<<O("GET", <<"a">>), O("PUT", <<"a">>), O("HAS", <<"a">>)>>}
=============================================================================
