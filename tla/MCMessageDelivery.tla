------------------------- MODULE MCMessageDelivery -------------------------
(* Finite instances of MessageDelivery for TLC.                            *)
EXTENDS MessageDelivery

A == <<"a">>
AB == <<"a", "b">>
Plus  == <<"+">>
Hash  == <<"#">>

\* Filters of one to three levels, '#' only at their end.
MCFilters ==
  {<<w>> : w \in {A, Plus, Hash}}
    \cup {<<v, w>> : v \in {A, Plus}, w \in {A, Plus, Hash}}
    \cup {<<AB, Hash>>, <<A, Plus, AB>>, <<Plus, A, Hash>>}

\* Names of one to three levels, some of them empty.
MCNames ==
  LET levels == {A, AB} \cup {<< >>} IN
  {<<w>> : w \in {A, AB}} \cup {<<v, w>> : v, w \in levels}
    \cup {<<u, v, w>> : u \in {A, << >>}, v \in {A, << >>}, w \in levels}
=============================================================================
