------------------------------ MODULE Database -------------------------------
(***************************************************************************)
(* The part of PostgreSQL (READ COMMITTED) and of Prisma's interactive     *)
(* transactions that the services rely on: a transaction is open or not,   *)
(* an UPDATE locks the row it matched until the transaction ends, and a    *)
(* transaction the client has lost is rolled back.                         *)
(*                                                                         *)
(* The code always updates through `updateMany({ where: guard })`.  Such a *)
(* statement looks at committed rows: when the guard is false it matches   *)
(* nothing and does not wait; when it is true and another transaction      *)
(* holds the row it waits, then evaluates the guard again.  A module that  *)
(* uses this one writes that as "guard false: zero rows" or "guard true    *)
(* and Lockable: Lock", and applies what a transaction wrote when it       *)
(* commits: until then no other transaction sees it, and the row lock      *)
(* keeps the value the guard was evaluated on.                             *)
(***************************************************************************)
CONSTANTS
    Rows,           \* the rows that are ever updated under a guard
    Clients,        \* the handler calls that open transactions
    NoClient        \* no client

VARIABLES
    holder,         \* holder[x]: the client whose transaction locked row x
    open            \* the clients whose transaction is open

databaseVars == <<holder, open>>

DatabaseTypeOK ==
    /\ holder \in [Rows -> Clients \cup {NoClient}]
    /\ open \subseteq Clients

DatabaseInit ==
    /\ holder = [x \in Rows |-> NoClient]
    /\ open = {}

\* prisma.$transaction(async (tx) => ...): the callback starts.
Begin(c) ==
    /\ open' = open \cup {c}
    /\ UNCHANGED holder

Lockable(x) == holder[x] = NoClient

Lock(c, x) ==
    /\ c \in open
    /\ Lockable(x)
    /\ holder' = [holder EXCEPT ![x] = c]
    /\ UNCHANGED open

\* Commit, rollback, expiry or loss of the connection: every lock goes.
End(c) ==
    /\ open' = open \ {c}
    /\ holder' = [x \in Rows |-> IF holder[x] = c THEN NoClient ELSE holder[x]]

\* Only an open transaction holds rows.
LocksAreOpen == \A x \in Rows : holder[x] # NoClient => holder[x] \in open
==============================================================================
