------------------------------- MODULE Directory ------------------------------
(***************************************************************************)
(* What the accounts promise: every call takes effect at one moment, when  *)
(* it is answered.  An identity leads to one account, whoever asks for it  *)
(* first creates it, an account keeps its wallet and is never lost, and a  *)
(* seed phrase that is the only way into an account is not replaced.       *)
(***************************************************************************)
EXTENDS UserTable

VARIABLE answer     \* answer[r]: None yet, the user of the call, or Refused

directoryVars == <<ids, users, replaced, answer>>

DirectoryInit == TableInit /\ answer = [r \in Calls |-> None]

Answered(r, a) == answer[r] = None /\ answer' = [answer EXCEPT ![r] = a]

\* A call that asks for an identity is told the account that has it.
SignIn(r) ==
    /\ r \in SignIns \cup MagicRegistrations \cup Promotions
    /\ \E u \in ids : Answered(r, u) /\ Holds(u, Field(r), Identity(r))
    /\ Same

\* A seed phrase leads to an account that has it now.
SignInWithSeed(r) ==
    /\ r \in SeedLogins
    /\ \E u \in ids : Answered(r, u) /\ users[u].seed = Request[r].target
    /\ Same

\* Nobody has the identity: an account with it, and with a wallet, comes into
\* being.
SignUp(r) ==
    /\ r \in SignUps
    /\ Answered(r, r)
    /\ ~Taken(Field(r), Identity(r))
    /\ Put(r, NewRow(r))

\* An identity that nobody else has is connected to an account.
Connect(r, u) ==
    /\ r \in NostrLogins \cup XLogins
    /\ Answered(r, u)
    /\ \A v \in Ids \ {u} : ~Holds(v, Field(r), Identity(r))
    /\ Put(u, Linked(r, u))

Amend(r, u) ==
    /\ r \in Updates
    /\ Answered(r, u)
    /\ \A v \in Ids \ {u} : ~Holds(v, "email", Request[r].email)
    /\ Put(u, Amended(r, u))

\* Ways to sign in other than the seed phrase.
OtherMethod(u) ==
    users[u].email # None \/ users[u].twitterId # None \/ users[u].nostrPubkey # None

Reseed(r, u) ==
    /\ r \in SeedAdditions
    /\ Answered(r, u)
    /\ users[u].seed # None => OtherMethod(u)
    /\ Put(u, Seeded(r, u))

\* Applications and people do not turn into each other.
Renew(r, u) ==
    /\ r \in Provisions
    /\ Answered(r, u)
    /\ users[u].role = "APPLICATION"
    /\ Put(u, Renewed(r, u))

\* An application that has the password presented keeps it, and whatever password
\* has replaced it meanwhile.
Confirm(r, u) ==
    /\ r \in Provisions
    /\ Answered(r, u)
    /\ users[u].role = "APPLICATION"
    /\ HadPassword(r, u)
    /\ Put(u, Confirmed(u))

Promote(r, u) ==
    /\ r \in Promotions
    /\ Answered(r, u)
    /\ users[u].role # "APPLICATION"
    /\ Put(u, Promoted(u))

Read(r) ==
    /\ r \in Reads
    /\ \E u \in ids : Answered(r, u)
    /\ Same

Refuse(r) == Answered(r, Refused) /\ Same

DirectoryNext ==
    \E r \in Calls :
        \/ SignIn(r) \/ SignInWithSeed(r) \/ SignUp(r) \/ Read(r) \/ Refuse(r)
        \/ \E u \in ids :
             \/ Connect(r, u) \/ Amend(r, u) \/ Reseed(r, u)
             \/ Renew(r, u) \/ Confirm(r, u) \/ Promote(r, u)

DirectorySpec == DirectoryInit /\ [][DirectoryNext]_directoryVars
==============================================================================
