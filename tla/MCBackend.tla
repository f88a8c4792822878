------------------------------ MODULE MCBackend ------------------------------
EXTENDS Backend
CONSTANTS n1, n2, m1
MCParts == [n \in Names |-> CASE n = n1 -> <<"ab", "ab/cd">> [] n = n2 -> <<"ab", "ab/ef">>
                              [] OTHER -> <<"meta">>]
MCStrays == {<<"ab/ef", n1>>}
=============================================================================
