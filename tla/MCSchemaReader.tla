--------------------------- MODULE MCSchemaReader ---------------------------
(* Three tables on a pool of two connections.                              *)
EXTENDS SchemaReader

Index(n, u, cols) == [name |-> n, unique |-> u, columns |-> cols]

\* The second and the third table have an index on an expression, in the
\* middle of it and as its first part.
SomeIndexes ==
    "plain" :> <<Index("i", FALSE, <<"a">>), Index("j", TRUE, <<"a", "b">>),
                 Index("k", TRUE, <<"b", "a">>)>>
    @@ "middle" :> <<Index("i", FALSE, <<"b">>), Index("j", TRUE, <<"a", NoColumn, "b">>),
                     Index("k", FALSE, <<"b">>)>>
    @@ "first" :> <<Index("i", FALSE, <<NoColumn>>), Index("j", FALSE, <<"a">>)>>

SomeTables == DOMAIN SomeIndexes
AB == [t \in SomeTables |-> <<"a", "b">>]
=============================================================================
