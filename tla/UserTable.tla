------------------------------ MODULE UserTable -------------------------------
(***************************************************************************)
(* The User table with its Wallet column, as schema.prisma declares it,    *)
(* and the calls that read and write it.  A row that a call inserts is     *)
(* named by the call.  seedHash and hasSeed are always written together    *)
(* and are one column; a fresh seed phrase is named by the call, too.      *)
(***************************************************************************)
EXTENDS Access

CONSTANTS
    Calls,              \* runs of the handlers
    Request,            \* Request[r]: what a call is given
    Given, GivenRow,    \* the rows at the start
    Values,             \* e-mails, public keys, X ids, passwords
    WalletEnabled,      \* config.wallet.enabled
    None, Refused

Of(op) == {r \in Calls : Request[r].op = op}

Registrations == Of("register")             \* POST /auth/register
Creations == Of("createUser")               \* POST /users
MagicRegistrations == Of("registerUserWithMagicLink")
MagicLogins == Of("getOrCreateMagicLinkUser")
SeedRegistrations == Of("createUserWithSeed")
SeedAdditions == Of("addSeedToUser")
NostrLogins == Of("resolveNostrUser")
XLogins == Of("upsertTwitterUser")          \* from X and from Twitter
PasswordLogins == Of("login")
SeedLogins == Of("seedStrategy")
Reads == Of("getUserById")                  \* and getUserWallet
Updates == Of("updateUserById")
Deletions == Of("deleteUserById")
Provisions == Of("provisionApplicationServiceAccount")
Promotions == Of("makeAdmin")

Creators == Registrations \cup Creations \cup MagicRegistrations
SignIns == MagicLogins \cup NostrLogins \cup XLogins \cup PasswordLogins
SignUps == Creators \cup MagicLogins \cup SeedRegistrations \cup NostrLogins
             \cup XLogins \cup Provisions
Ids == Given \cup Calls

Operations == {"register", "createUser", "registerUserWithMagicLink",
    "getOrCreateMagicLinkUser", "createUserWithSeed", "addSeedToUser",
    "resolveNostrUser", "upsertTwitterUser", "login", "seedStrategy",
    "getUserById", "updateUserById", "deleteUserById", "provisionApplicationServiceAccount", "makeAdmin"}

Maybe(S) == S \cup {None}

Requests == [
    op: Operations,
    identity: Maybe(Values),    \* the e-mail, public key or X id it is about
    password: Maybe(Values),    \* the one presented; of a new account, its own
    email: Maybe(Values),       \* updateBody.email
    newPassword: Maybe(Values), \* updateBody.password
    role: Roles,                \* of the account to create
    target: Maybe(Ids),         \* the user in the path; the seed phrase presented
    token: Maybe(Ids),          \* whose access token it carries
    session: Maybe(Ids),        \* the user in its session, stored by a login with X
    application: Maybe(Values), \* the e-mail in its application cookie
    secret: Maybe(Values),      \* and the password in it
    source: Maybe(Values)]      \* the address it comes from

Rows == [
    email: Maybe(Values), password: Maybe(Values), twitterId: Maybe(Values),
    nostrPubkey: Maybe(Values), seed: Maybe(Ids), role: Roles,
    isEmailVerified: BOOLEAN, wallet: {"none", "enabled", "disabled"}]

ASSUME UserTableAssumption ==
    /\ None \notin Values \cup Ids
    /\ Refused \notin Ids \cup {None}
    /\ Given \cap Calls = {}
    /\ Request \in [Calls -> Requests]
    /\ GivenRow \in [Given -> Rows]
    /\ Applications \subseteq Values
    /\ WalletEnabled \in BOOLEAN
    /\ \A u \in Given :
         /\ GivenRow[u].wallet # "none"
         /\ \E f \in {"seed", "email", "twitterId", "nostrPubkey"} : GivenRow[u][f] # None
    /\ \A r \in Calls \ Creations : Request[r].role = "USER"
    /\ \A r \in Creations : Request[r].role # "APPLICATION"
    /\ \A r \in Creators \cup SignIns \cup Provisions \cup Promotions :
         Request[r].identity # None
    /\ \A r \in Provisions :    \* checked before the first statement
         Request[r].identity \in Applications /\ Request[r].password # None
    /\ \A r \in SeedLogins : Request[r].target # None
    /\ \A r \in SeedRegistrations : Request[r].identity = None

VARIABLES
    ids,        \* the rows there are
    users,      \* and what is in them
    replaced    \* history: <<u, p>> where p was the password of account u

Blank == [email |-> None, password |-> None, twitterId |-> None, nostrPubkey |-> None,
          seed |-> None, role |-> "USER", isEmailVerified |-> FALSE, wallet |-> "none"]

TableInit ==
    /\ ids = Given
    /\ users = [u \in Ids |-> IF u \in Given THEN GivenRow[u] ELSE Blank]
    /\ replaced = {}

\* The columns with a unique index, and the one a call finds its user by.
UniqueFields == {"email", "twitterId", "nostrPubkey"}
Field(r) ==
    IF r \in NostrLogins THEN "nostrPubkey"
    ELSE IF r \in XLogins THEN "twitterId"
    ELSE "email"
Identity(r) == Request[r].identity

Holds(u, f, v) == u \in ids /\ v # None /\ users[u][f] = v
Taken(f, v) == \E u \in Ids : Holds(u, f, v)

\* A row with these columns may be written at u.
Unique(u, row) ==
    \A f \in UniqueFields : \A v \in Ids \ {u} : ~Holds(v, f, row[f])

\* getNewWalletData.
NewWallet == IF WalletEnabled THEN "enabled" ELSE "disabled"

\* The row that a call creates.
NewRow(r) ==
    CASE r \in Registrations \cup Creations ->
           [Blank EXCEPT !.email = Identity(r), !.password = Request[r].password,
                         !.role = Request[r].role, !.wallet = NewWallet]
      [] r \in MagicRegistrations \cup MagicLogins ->
           [Blank EXCEPT !.email = Identity(r), !.wallet = NewWallet]
      [] r \in SeedRegistrations -> [Blank EXCEPT !.seed = r, !.wallet = NewWallet]
      [] r \in NostrLogins -> [Blank EXCEPT !.nostrPubkey = Identity(r), !.wallet = NewWallet]
      [] r \in XLogins -> [Blank EXCEPT !.twitterId = Identity(r), !.wallet = NewWallet]
      [] r \in Provisions ->
           [Blank EXCEPT !.email = Identity(r), !.password = Request[r].password,
                         !.role = "APPLICATION", !.isEmailVerified = TRUE,
                         !.wallet = "disabled"]

\* The row u of a user with the identity of call r connected to it.
Linked(r, u) == [users[u] EXCEPT ![Field(r)] = Identity(r)]

\* What updateUserById leaves: `undefined` keeps a column.
Amended(r, u) ==
    [users[u] EXCEPT
        !.email = IF Request[r].email = None THEN @ ELSE Request[r].email,
        !.password = IF Request[r].newPassword = None THEN @ ELSE Request[r].newPassword]

\* What provisioning leaves of an account that exists: the password is written
\* only if it was not the one presented.
PasswordMatches(r, u) == users[u].password = Request[r].password
Confirmed(u) == [users[u] EXCEPT !.isEmailVerified = TRUE, !.wallet = "disabled"]
Renewed(r, u) == [Confirmed(u) EXCEPT !.password = Request[r].password]

\* The password presented is that of u, or was until somebody replaced it.
HadPassword(r, u) == PasswordMatches(r, u) \/ <<u, Request[r].password>> \in replaced

Seeded(r, u) == [users[u] EXCEPT !.seed = r]
Promoted(u) == [users[u] EXCEPT !.role = "ADMIN"]

Put(u, row) ==
    /\ ids' = ids \cup {u}
    /\ users' = [users EXCEPT ![u] = row]
    /\ replaced' = replaced \cup ({<<u, users[u].password>>} \ {<<u, row.password>>})
Same == UNCHANGED <<ids, users, replaced>>
==============================================================================
