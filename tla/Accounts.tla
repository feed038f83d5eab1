------------------------------- MODULE Accounts -------------------------------
(***************************************************************************)
(* Accounts: user.service.ts, the strategies of config/passport that       *)
(* create and connect users, the registration part of auth.service.ts,     *)
(* provisioning and makeAdmin.ts, behind the auth middleware.  Every       *)
(* statement is a transaction of its own; pc[r] is the statement that call *)
(* r waits for, and other calls come between any two.                      *)
(***************************************************************************)
EXTENDS UserTable

CONSTANT Scenarios      \* sets of calls that are made together

ASSUME ScenariosAssumption == Scenarios \subseteq SUBSET Calls

VARIABLES
    pc,         \* where each call is suspended; "never": it is not made
    current,    \* current[r]: req.user
    found,      \* found[r]: the row an earlier statement of r returned
    mail,       \* mail[r]: the e-mail updateUserById read first
    answer,     \* answer[r]: None yet, the user r is about, or Refused
    released    \* history: identities that were taken off an account

callVars == <<pc, current, found, mail, answer>>
vars == <<ids, users, replaced, callVars, released>>

Labels == {"application", "jwt", "find", "check", "insert", "refind", "upsert", "link",
           "login", "email", "own", "verify", "amend", "seed", "delete", "renew",
           "confirm", "promote", "done", "never"}

TypeOK ==
    /\ ids \subseteq Ids
    /\ users \in [Ids -> Rows]
    /\ pc \in [Calls -> Labels]
    /\ current \in [Calls -> Maybe(Ids)]
    /\ found \in [Calls -> Maybe(Ids)]
    /\ mail \in [Calls -> Maybe(Values)]
    /\ answer \in [Calls -> Maybe(Ids) \cup {Refused}]
    /\ released \subseteq Values
    /\ replaced \subseteq Ids \X Maybe(Values)

\* The first statement of a handler.
FirstLabel(r) ==
    IF r \in Registrations \cup Creations THEN "check"
    ELSE IF r \in SeedRegistrations THEN "insert"
    ELSE IF r \in XLogins THEN "upsert"
    ELSE "find"

MustAuthenticate == Creations \cup Reads \cup Updates \cup SeedAdditions \cup Deletions
MayAuthenticate == NostrLogins \cup XLogins     \* optionalAuth

Init ==
    /\ TableInit
    /\ \E S \in Scenarios :
         pc = [r \in Calls |->
                 IF r \notin S THEN "never"
                 ELSE IF r \in MustAuthenticate \cup MayAuthenticate THEN "application"
                 ELSE FirstLabel(r)]
    /\ current = [r \in Calls |-> None]
    /\ found = [r \in Calls |-> None]
    /\ mail = [r \in Calls |-> None]
    /\ answer = [r \in Calls |-> None]
    /\ released = {}

At(r, label) == pc[r] = label
GoTo(r, label) == pc' = [pc EXCEPT ![r] = label]
Answer(r, a) == GoTo(r, "done") /\ answer' = [answer EXCEPT ![r] = a]

\* A statement that only reads, and leaves r suspended before the next one.
Reading(r, label) ==
    /\ GoTo(r, label)
    /\ UNCHANGED <<ids, users, replaced, answer, released>>

\* The last statement, when it only read.
Ending(r, a) ==
    /\ Answer(r, a)
    /\ UNCHANGED <<ids, users, replaced, current, found, mail, released>>

\* The last statement writes row at u, or fails on a unique index.
Lost(u, row) == {users[u][f] : f \in {g \in UniqueFields : users[u][g] # row[g]}} \ {None}
Saving(r, u, row) ==
    IF u \in ids /\ Unique(u, row)
      THEN /\ Put(u, row)
           /\ released' = released \cup Lost(u, row)
           /\ Answer(r, u)
           /\ UNCHANGED <<current, found, mail>>
      ELSE Ending(r, Refused)

-----------------------------------------------------------------------------
(* The auth middleware.                                                    *)

Needs(r) ==
    IF r \in Creations THEN CreateUserRoute
    ELSE IF r \in Reads THEN ReadUserRoute
    ELSE IF r \in Updates THEN UpdateUserRoute
    ELSE IF r \in Deletions THEN DeleteUserRoute
    ELSE AddSeedRoute

Admits(r, u) == Permits(Needs(r), users[u].role, u, Request[r].target)

\* The application strategy: the account, its password, then the rights.
IsApplication(r, u) ==
    /\ SourceAllowed(Request[r].application, Request[r].source)
    /\ Holds(u, "email", Request[r].application)
    /\ users[u].password # None
    /\ users[u].password = Request[r].secret

AuthenticateApplication(r) ==
    /\ At(r, "application")
    /\ \E u \in Ids :
         /\ IsApplication(r, u) /\ Admits(r, u)
         /\ current' = [current EXCEPT ![r] = u]
    /\ Reading(r, FirstLabel(r))
    /\ UNCHANGED <<found, mail>>

\* Whatever is wrong with it, the access token is tried next.
NoApplication(r) ==
    /\ At(r, "application")
    /\ \A u \in Ids : ~(IsApplication(r, u) /\ Admits(r, u))
    /\ Reading(r, "jwt")
    /\ UNCHANGED <<current, found, mail>>

AuthenticateUser(r) ==
    /\ At(r, "jwt")
    /\ Request[r].token \in ids
    /\ Admits(r, Request[r].token)
    /\ current' = [current EXCEPT ![r] = Request[r].token]
    /\ Reading(r, FirstLabel(r))
    /\ UNCHANGED <<found, mail>>

\* 400, 401 or 403.
NotAuthenticated(r) ==
    /\ At(r, "jwt")
    /\ r \in MustAuthenticate
    /\ Request[r].token \in ids => ~Admits(r, Request[r].token)
    /\ Ending(r, Refused)

\* optionalAuth goes on, as the user of the session if there is one.
Anonymous(r) ==
    /\ At(r, "jwt")
    /\ r \in MayAuthenticate
    /\ Request[r].token \notin ids
    /\ current' = [current EXCEPT ![r] = Request[r].session]
    /\ Reading(r, FirstLabel(r))
    /\ UNCHANGED <<found, mail>>

Authenticate(r) ==
    \/ AuthenticateApplication(r)
    \/ NoApplication(r)
    \/ AuthenticateUser(r)
    \/ NotAuthenticated(r)
    \/ Anonymous(r)

-----------------------------------------------------------------------------
(* Creating users.                                                         *)

\* getOrCreateMagicLinkUser, registerUserWithMagicLink and resolveNostrUser
\* without a user look for the account first.
Finders == MagicLogins \cup MagicRegistrations \cup {r \in NostrLogins : current[r] = None}

FindUser(r) ==
    /\ r \in Finders
    /\ pc[r] \in {"find", "refind"}
    /\ \E u \in Ids : Holds(u, Field(r), Identity(r)) /\ Ending(r, u)

FindNobody(r) ==
    /\ r \in Finders
    /\ At(r, "find")
    /\ ~Taken(Field(r), Identity(r))
    /\ Reading(r, IF r \in NostrLogins THEN "insert" ELSE "check")
    /\ UNCHANGED <<current, found, mail>>

\* Who looks again when somebody else was faster.
Retrying == MagicLogins \cup NostrLogins
NobodyRetries(r) == Ending(r, Refused)
LoseRace(r) ==
    IF r \in Retrying
      THEN Reading(r, "refind") /\ UNCHANGED <<current, found, mail>>
      ELSE Ending(r, Refused)

FindNobodyAgain(r) ==
    /\ At(r, "refind")
    /\ ~Taken(Field(r), Identity(r))
    /\ Ending(r, Refused)

\* createUser and createUserWithEmail look before they create.
CheckEmail(r) ==
    /\ At(r, "check")
    /\ IF Taken("email", Identity(r))
         THEN LoseRace(r)
         ELSE Reading(r, "insert") /\ UNCHANGED <<current, found, mail>>

\* The row and its wallet are created in one statement.
CreateUser(r) ==
    /\ At(r, "insert")
    /\ IF Unique(r, NewRow(r))
         THEN /\ Put(r, NewRow(r))
              /\ Answer(r, r)
              /\ UNCHANGED <<current, found, mail, released>>
         ELSE LoseRace(r)

Create(r) ==
    \/ FindUser(r)
    \/ FindNobody(r)
    \/ FindNobodyAgain(r)
    \/ CheckEmail(r)
    \/ CreateUser(r)

-----------------------------------------------------------------------------
(* Connecting an identity to a signed-in user.                             *)

\* resolveNostrUser with a user.
FindLinkedUser(r) ==
    /\ r \in NostrLogins
    /\ current[r] # None
    /\ At(r, "find")
    /\ IF Taken("nostrPubkey", Identity(r))
         THEN Ending(r, IF Holds(current[r], "nostrPubkey", Identity(r))
                          THEN current[r] ELSE Refused)
         ELSE /\ found' = [found EXCEPT ![r] = current[r]]
              /\ Reading(r, "link")
              /\ UNCHANGED <<current, mail>>

\* The SELECT of Prisma's upsert: by id for a signed-in user, else by X id.
UpsertFinds(r, u) ==
    IF current[r] # None THEN u = current[r] /\ u \in ids
    ELSE Holds(u, "twitterId", Identity(r))

FindUpsert(r) ==
    /\ At(r, "upsert")
    /\ \/ \E u \in Ids :
            /\ UpsertFinds(r, u)
            /\ found' = [found EXCEPT ![r] = u]
            /\ Reading(r, "link")
       \/ /\ \A u \in Ids : ~UpsertFinds(r, u)
          /\ Reading(r, "insert")
          /\ UNCHANGED found
    /\ UNCHANGED <<current, mail>>

Link(r) ==
    /\ At(r, "link")
    /\ Saving(r, found[r], Linked(r, found[r]))

Connect(r) == FindLinkedUser(r) \/ FindUpsert(r) \/ Link(r)

-----------------------------------------------------------------------------
(* Logins with a password or a seed phrase.                                *)

\* The account of a password login: right password, and no application.
LogsIn(u, email, password) ==
    /\ Holds(u, "email", email)
    /\ users[u].password # None
    /\ users[u].role # "APPLICATION"
    /\ users[u].password = password

\* login looks whether there is a password; without one a link is sent.
FindPasswordUser(r) ==
    /\ r \in PasswordLogins
    /\ At(r, "find")
    /\ IF \E u \in Ids : Holds(u, "email", Identity(r)) /\ users[u].password # None
         THEN Reading(r, "login") /\ UNCHANGED <<current, found, mail>>
         ELSE Ending(r, Refused)

LogIn(r) ==
    /\ At(r, "login")
    /\ \/ \E u \in Ids : LogsIn(u, Identity(r), Request[r].password) /\ Ending(r, u)
       \/ /\ \A u \in Ids : ~LogsIn(u, Identity(r), Request[r].password)
          /\ Ending(r, Refused)

\* The seed strategy: the account whose seed phrase is the one presented.
LogInWithSeed(r) ==
    /\ r \in SeedLogins
    /\ At(r, "find")
    /\ \/ \E u \in ids : users[u].seed = Request[r].target /\ Ending(r, u)
       \/ /\ \A u \in ids : users[u].seed # Request[r].target
          /\ Ending(r, Refused)

-----------------------------------------------------------------------------
(* updateUserById, with requirePassword as the route calls it.             *)

Target(r) == Request[r].target

\* getUserById; what it returns of the e-mail decides the checks.
FindTarget(r) ==
    /\ r \in Updates
    /\ At(r, "find")
    /\ IF Target(r) \in ids
         THEN /\ mail' = [mail EXCEPT ![r] = users[Target(r)].email]
              /\ Reading(r, "email")
              /\ UNCHANGED <<current, found>>
         ELSE Ending(r, Refused)

MustConfirm(r) ==
    mail[r] # None /\ (Request[r].email # None \/ Request[r].newPassword # None)

\* A new e-mail that somebody has is refused here; the update would fail, too.
CheckNewEmail(r) ==
    /\ At(r, "email")
    /\ IF Taken("email", Request[r].email)
         THEN Ending(r, Refused)
         ELSE /\ Reading(r, IF MustConfirm(r) THEN "own" ELSE "amend")
              /\ UNCHANGED <<current, found, mail>>

\* The second read: a password there is must be confirmed, and one must be set
\* before the e-mail changes.
ReadOwnPassword(r) ==
    /\ At(r, "own")
    /\ LET password == users[Target(r)].password
           unset == Request[r].email # None /\ Request[r].newPassword = None
           refused == IF password = None THEN unset ELSE Request[r].password = None
       IN IF Target(r) \notin ids \/ refused
            THEN Ending(r, Refused)
            ELSE /\ Reading(r, IF password = None THEN "amend" ELSE "verify")
                 /\ UNCHANGED <<current, found, mail>>

\* loginUserWithEmailAndPassword with the e-mail of the first read.
VerifyPassword(r) ==
    /\ At(r, "verify")
    /\ IF \E u \in Ids : LogsIn(u, mail[r], Request[r].password)
         THEN Reading(r, "amend") /\ UNCHANGED <<current, found, mail>>
         ELSE Ending(r, Refused)

AmendUser(r) ==
    /\ At(r, "amend")
    /\ Saving(r, Target(r), Amended(r, Target(r)))

Update(r) ==
    \/ FindTarget(r)
    \/ CheckNewEmail(r)
    \/ ReadOwnPassword(r)
    \/ VerifyPassword(r)
    \/ AmendUser(r)

-----------------------------------------------------------------------------
(* The other operations.                                                   *)

\* getUserById and getUserWallet: the latter needs the wallet as well.
ReadUser(r) ==
    /\ r \in Reads
    /\ At(r, "find")
    /\ Ending(r, IF Target(r) \in ids THEN Target(r) ELSE Refused)

\* addSeedToUser: the ways to sign in other than the seed phrase.
HasOtherMethod(u) ==
    users[u].email # None \/ users[u].twitterId # None \/ users[u].nostrPubkey # None

\* (The slip: the check is forgotten.)
AnySeedMayChange(u) == TRUE
SeedMayChange(u) == users[u].seed = None \/ HasOtherMethod(u)

FindSeedUser(r) ==
    /\ r \in SeedAdditions
    /\ At(r, "find")
    /\ IF current[r] \in ids /\ SeedMayChange(current[r])
         THEN Reading(r, "seed") /\ UNCHANGED <<current, found, mail>>
         ELSE Ending(r, Refused)

AddSeed(r) ==
    /\ At(r, "seed")
    /\ Saving(r, current[r], Seeded(r, current[r]))

\* deleteUserById: the foreign key of the wallet restricts the deletion.
FindDeleted(r) ==
    /\ r \in Deletions
    /\ At(r, "find")
    /\ IF Target(r) \in ids
         THEN Reading(r, "delete") /\ UNCHANGED <<current, found, mail>>
         ELSE Ending(r, Refused)

\* (The slip: ON DELETE CASCADE.)
Cascades(u) == TRUE
Deletable(u) == users[u].wallet = "none"

DeleteUser(r) ==
    /\ At(r, "delete")
    /\ IF Target(r) \in ids /\ Deletable(Target(r))
         THEN /\ ids' = ids \ {Target(r)}
              /\ users' = [users EXCEPT ![Target(r)] = Blank]
              /\ Answer(r, Target(r))
              /\ UNCHANGED <<replaced, current, found, mail, released>>
         ELSE Ending(r, Refused)

\* provisionApplicationServiceAccount: people are not replaced.  The password it
\* reads here decides whether the update writes one.
FindApplication(r) ==
    /\ r \in Provisions
    /\ At(r, "find")
    /\ \/ /\ ~Taken("email", Identity(r))
          /\ Reading(r, "insert")
          /\ UNCHANGED <<current, found, mail>>
       \/ \E u \in Ids :
            /\ Holds(u, "email", Identity(r))
            /\ IF users[u].role = "APPLICATION"
                 THEN /\ found' = [found EXCEPT ![r] = u]
                      /\ Reading(r, IF PasswordMatches(r, u) THEN "confirm" ELSE "renew")
                      /\ UNCHANGED <<current, mail>>
                 ELSE Ending(r, Refused)

RenewApplication(r) ==
    /\ At(r, "renew")
    /\ Saving(r, found[r], Renewed(r, found[r]))

ConfirmApplication(r) ==
    /\ At(r, "confirm")
    /\ Saving(r, found[r], Confirmed(found[r]))

\* makeAdmin.ts.
Promotable(u) == users[u].role # "APPLICATION"

FindPromoted(r) ==
    /\ r \in Promotions
    /\ At(r, "find")
    /\ \/ ~Taken("email", Identity(r)) /\ Ending(r, Refused)
       \/ \E u \in Ids :
            /\ Holds(u, "email", Identity(r))
            /\ IF users[u].role = "ADMIN" THEN Ending(r, u)
               ELSE IF ~Promotable(u) THEN Ending(r, Refused)
               ELSE /\ found' = [found EXCEPT ![r] = u]
                    /\ Reading(r, "promote")
                    /\ UNCHANGED <<current, mail>>

PromoteUser(r) ==
    /\ At(r, "promote")
    /\ Saving(r, found[r], Promoted(found[r]))

Other(r) ==
    \/ FindPasswordUser(r) \/ LogIn(r) \/ LogInWithSeed(r)
    \/ ReadUser(r)
    \/ FindSeedUser(r) \/ AddSeed(r)
    \/ FindDeleted(r) \/ DeleteUser(r)
    \/ FindApplication(r) \/ RenewApplication(r) \/ ConfirmApplication(r)
    \/ FindPromoted(r) \/ PromoteUser(r)

Next ==
    \E r \in Calls : Authenticate(r) \/ Create(r) \/ Connect(r) \/ Update(r) \/ Other(r)

Spec == Init /\ [][Next]_vars

-----------------------------------------------------------------------------
(* Properties.                                                             *)

Dir == INSTANCE Directory

\* What a call may rely on between its statements; every user has a wallet and
\* a way to sign in.
\* A handler that is suspended is one that has such a statement; what it found
\* is still there; the account it is to make an administrator or provision again
\* is still none, or is one; the password that matched did until it was replaced;
\* who may change the path's user still may.
Suspended(r) ==
    /\ answer[r] # None <=> At(r, "done")
    /\ r \in ids => At(r, "done")
    /\ pc[r] \in {"application", "jwt"} => r \in MustAuthenticate \cup MayAuthenticate
    /\ At(r, "check") => r \in Creators \cup MagicLogins
    /\ At(r, "insert") => r \in SignUps /\ (r \in NostrLogins => current[r] = None)
    /\ At(r, "upsert") => r \in XLogins
    /\ At(r, "link") =>
         r \in NostrLogins \cup XLogins /\ (r \in NostrLogins => current[r] # None)
    /\ At(r, "login") => r \in PasswordLogins
    /\ pc[r] \in {"email", "own", "verify", "amend"} => r \in Updates
    /\ At(r, "delete") => r \in Deletions
    /\ pc[r] \in {"renew", "confirm"} =>
         r \in Provisions /\ found[r] \in ids /\ users[found[r]].role = "APPLICATION"
    /\ At(r, "confirm") => HadPassword(r, found[r])
    /\ At(r, "promote") =>
         r \in Promotions /\ found[r] \in ids /\ users[found[r]].role # "APPLICATION"
    /\ At(r, "seed") =>
         /\ r \in SeedAdditions
         /\ current[r] \in ids
         /\ HasOtherMethod(current[r])
    /\ At(r, "refind") =>
         /\ r \in MagicLogins \cup {n \in NostrLogins : current[n] = None}
         /\ Taken(Field(r), Identity(r)) \/ Identity(r) \in released
    /\ r \in Updates /\ pc[r] \in {"find", "email", "own", "verify", "amend"} =>
         \/ Target(r) = current[r]
         \/ current[r] \in ids /\ users[current[r]].role = "ADMIN"

Sound ==
    /\ TypeOK
    /\ \A u \in ids : users[u].wallet # "none"
    /\ \A u \in ids : users[u].seed # None \/ HasOtherMethod(u)
    /\ \A r \in Calls : Suspended(r)

\* The statements of a call, taken together, have the effect of one operation
\* of Directory when it is answered: no identity is on two accounts, no account
\* or wallet is lost (a deletion is refused by the wallet's foreign key), nobody
\* becomes or ceases to be an application, a provisioned one has the password of
\* the call or one that replaced it, and a seed phrase is replaced only on an
\* account that has another way in, although the checks came before the writes.
DirectorySpec == Dir!DirectorySpec

\* Who asks for the account of an e-mail (getOrCreateMagicLinkUser) or of a public
\* key (resolveNostrUser without a user) gets it, created if need be, also when
\* others create it meanwhile.  It fails only if they have given it up again.
SignInSucceeds ==
    \A r \in MagicLogins \cup {n \in NostrLogins : current[n] = None} :
        answer[r] = Refused => Identity(r) \in released

\* "Logged-in users can only update their own information.  Only admins can
\* update other users" (user.route.ts): whoever changes a row in the name of the
\* user that auth() found, statements earlier, changes the own row or is still an
\* administrator at the write.
WritesArePermitted ==
    [][\A r \in Updates \cup SeedAdditions, u \in ids :
         users'[u] # users[u] /\ answer'[r] # answer[r] =>
             u = current[r] \/ users[current[r]].role = "ADMIN"]_vars
==============================================================================
