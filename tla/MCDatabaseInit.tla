--------------------------- MODULE MCDatabaseInit ---------------------------
(* The local server and two roles on a fresh host, with the schema and   *)
(* the default data statements of dns_database.c.                        *)
EXTENDS DatabaseInit

MCProcs == {"local", "root", "s2"}
MCTableOf == [p \in MCProcs |-> IF p = "local" THEN "cache" ELSE p]

\* sql_create, dns_database.c 99-104.
MCSchema == <<"root", "s1", "s2", "s3", "s4", "cache">>

\* sql_insert, dns_database.c 27-65: 8 root rows, 4 of s1, 7 of s2, 4 of
\* s3, 8 of s4.
Rep(t, n) == [i \in 1..n |-> t]
MCDefaultRows == Rep("root", 8) \o Rep("s1", 4) \o Rep("s2", 7) \o Rep("s3", 4) \o Rep("s4", 8)

=============================================================================
