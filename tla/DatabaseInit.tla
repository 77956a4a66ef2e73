---------------------------- MODULE DatabaseInit ----------------------------
(***************************************************************************)
(* The shared sqlite file of dns_database.c as the server processes open *)
(* it.  Every DNS_database_get_record first runs DNS_database_init: when  *)
(* access() finds no file it opens (creating the file), runs the CREATE  *)
(* statements and then the INSERTs of DNS_database_write_default_data,   *)
(* else it opens the existing file.  Then it runs its SELECT.            *)
(*                                                                         *)
(* Each process (root, s1 ... s4, local) runs this on its own, in the     *)
(* order the system drives them: the local server's get_cache comes       *)
(* first, and a role looks up only when the local server, blocked on its  *)
(* reply, queried it. A process may be killed at any statement and        *)
(* started again. sqlite3_exec runs a string of statements one at a time, *)
(* each in its own autocommit transaction, and stops at the first that    *)
(* fails; a statement is one step here.  Rows are the INSERT statements'  *)
(* indices; their contents do not matter to what a lookup sees.           *)
(***************************************************************************)
EXTENDS Naturals, Sequences, FiniteSets

CONSTANTS
    Procs,        \* the server processes
    First,        \* the local server, whose cache read opens the file first
    TableOf,      \* TableOf[p]: the table p's lookups read (DNS_query_set_table_name)
    Schema,       \* the tables of sql_create, in statement order
    DefaultRows,  \* the table of each INSERT of sql_insert, in statement order
    MaxLookups,   \* bound on the lookups of each process
    MaxCrashes    \* bound on the processes killed and restarted

VARIABLES
    fileExists,   \* whether dns_database.db exists
    created,      \* the tables created so far
    inserted,     \* the INSERT statements committed so far
    pc,           \* where each process is in get_record
    idx,          \* the next statement of the exec a process is in
    lookups,      \* the lookups each process has completed
    result,       \* what each process's last lookup returned (history)
    crashes       \* processes killed so far

vars == <<fileExists, created, inserted, pc, idx, lookups, result, crashes>>

\* get_record returns NULL (no rows, the caller answers NXDOMAIN), or the
\* table's rows.
Null == [ok |-> FALSE, rows |-> {}]
Rows(t) == [ok |-> TRUE, rows |-> {k \in inserted : DefaultRows[k] = t}]

\* Every row the default data puts in table t.
FullTable(t) == {k \in DOMAIN DefaultRows : DefaultRows[k] = t}

Init ==
    /\ fileExists = FALSE
    /\ created = {}
    /\ inserted = {}
    /\ pc = [p \in Procs |-> "access"]
    /\ idx = [p \in Procs |-> 1]
    /\ lookups = [p \in Procs |-> 0]
    /\ result = [p \in Procs |-> Null]
    /\ crashes = 0

\* get_record returns: the lookup is counted and the process goes on to
\* its next one.
Return(p, r) ==
    /\ result' = [result EXCEPT ![p] = r]
    /\ lookups' = [lookups EXCEPT ![p] = @ + 1]
    /\ pc' = [pc EXCEPT ![p] = "access"]

\* Who may enter the database: DNS_query_create_response_local reads the
\* cache (get_cache, which runs DNS_database_init) before it sends any
\* upstream query, and it waits for each role's reply before the next, so
\* at most one process is inside get_record at a time and a role's first
\* lookup follows a completed cache read.
MayStart(p) ==
    /\ \A o \in Procs \ {p} : pc[o] = "access"
    /\ p = First \/ lookups[First] > 0

\* DNS_database_init: access(DATABASE_NAME, F_OK).
Access(p) ==
    /\ pc[p] = "access"
    /\ MayStart(p)
    /\ lookups[p] < MaxLookups
    /\ pc' = [pc EXCEPT ![p] = IF fileExists THEN "open" ELSE "openNew"]
    /\ UNCHANGED <<fileExists, created, inserted, idx, lookups, result, crashes>>

\* sqlite3_open of a missing file creates it, empty.
OpenNew(p) ==
    /\ pc[p] = "openNew"
    /\ fileExists' = TRUE
    /\ pc' = [pc EXCEPT ![p] = "create"]
    /\ idx' = [idx EXCEPT ![p] = 1]
    /\ UNCHANGED <<created, inserted, lookups, result, crashes>>

\* One CREATE TABLE of sql_create.  One that exists already fails the
\* exec, DNS_database_init returns false and get_record NULL.
Create(p) ==
    /\ pc[p] = "create"
    /\ LET t == Schema[idx[p]] IN
       \/ /\ t \in created
          /\ Return(p, Null)
          /\ UNCHANGED <<created, idx>>
       \/ /\ t \notin created
          /\ created' = created \cup {t}
          /\ IF idx[p] = Len(Schema)
             THEN pc' = [pc EXCEPT ![p] = "insert"] /\ idx' = [idx EXCEPT ![p] = 1]
             ELSE pc' = [pc EXCEPT ![p] = "create"] /\ idx' = [idx EXCEPT ![p] = @ + 1]
          /\ UNCHANGED <<lookups, result>>
    /\ UNCHANGED <<fileExists, inserted, crashes>>

\* One INSERT of DNS_database_write_default_data.  A row whose id is taken
\* fails the exec, and so does init.
Insert(p) ==
    /\ pc[p] = "insert"
    /\ \/ /\ idx[p] \in inserted
          /\ Return(p, Null)
          /\ UNCHANGED <<inserted, idx>>
       \/ /\ idx[p] \notin inserted
          /\ inserted' = inserted \cup {idx[p]}
          /\ IF idx[p] = Len(DefaultRows)
             THEN pc' = [pc EXCEPT ![p] = "select"]
             ELSE pc' = [pc EXCEPT ![p] = "insert"]
          /\ idx' = [idx EXCEPT ![p] = @ + 1]
          /\ UNCHANGED <<lookups, result>>
    /\ UNCHANGED <<fileExists, created, crashes>>

\* sqlite3_open of the existing file.
Open(p) ==
    /\ pc[p] = "open"
    /\ pc' = [pc EXCEPT ![p] = "select"]
    /\ UNCHANGED <<fileExists, created, inserted, idx, lookups, result, crashes>>

\* The SELECT of get_record: sqlite3_get_table fails on a missing table
\* (NULL), else returns the rows committed so far.
Select(p) ==
    /\ pc[p] = "select"
    /\ Return(p, IF TableOf[p] \in created THEN Rows(TableOf[p]) ELSE Null)
    /\ UNCHANGED <<fileExists, created, inserted, idx, crashes>>

\* The process is killed inside get_record and started again by hand
\* (DNS_server_start): what it committed stays in the file, the rest of
\* its exec is lost, and it starts over with no open lookup.
Crash(p) ==
    /\ pc[p] # "access"
    /\ crashes < MaxCrashes
    /\ crashes' = crashes + 1
    /\ pc' = [pc EXCEPT ![p] = "access"]
    /\ idx' = [idx EXCEPT ![p] = 1]
    /\ UNCHANGED <<fileExists, created, inserted, lookups, result>>

Next ==
    \E p \in Procs :
        Access(p) \/ OpenNew(p) \/ Create(p) \/ Insert(p) \/ Open(p) \/ Select(p) \/ Crash(p)

Spec == Init /\ [][Next]_vars

-----------------------------------------------------------------------------

\* DNS_database_init creates the database when the file is missing: every
\* lookup a process completes reads its whole default table (the cache
\* table starts empty), even after a process was killed while it was
\* creating the file and then started again.
LookupsComplete ==
    \A p \in Procs :
        lookups[p] > 0 => result[p] = [ok |-> TRUE, rows |-> FullTable(TableOf[p])]

=============================================================================
