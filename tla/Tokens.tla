-------------------------------- MODULE Tokens --------------------------------
(***************************************************************************)
(* The Token table and the handlers of auth.service.ts, token.service.ts   *)
(* and auth.controller.ts that write it: issue, refresh, logout, and the   *)
(* three tokens sent by e-mail.  Every statement of these is restricted to *)
(* one user, so there is one.  A token is a row; the row that a call       *)
(* inserts is named by the call.                                           *)
(*                                                                         *)
(* Access and identity tokens are never stored.  The columns of User that  *)
(* are written (password, isEmailVerified) are read by none of the         *)
(* handlers below: of these writes only the row lock is kept.              *)
(***************************************************************************)
EXTENDS Integers, FiniteSets

CONSTANTS
    Issues,         \* calls that log in, or ask for an e-mail with a token
    Refreshes,      \* calls of refreshAuth
    Logouts,        \* of logout
    MagicLinks,     \* of consumeMagicLink
    Resets,         \* of resetPassword
    Verifications,  \* of verifyEmail
    IssuedKind,     \* IssuedKind[c]: the type of the token that c issues
    Given,          \* tokens the user holds at the start
    GivenKind,      \* and their types
    UserRow,        \* the user's row
    NoClient,
    MaxCalls,       \* bound on the calls that come
    Expiring,       \* the tokens whose time may end, and
    MaxExpired      \* the bound on how many it does

Kinds == {"REFRESH", "MAGIC_LINK", "RESET_PASSWORD", "VERIFY_EMAIL"}

OneTime == MagicLinks \cup Resets
Transactions == OneTime \cup Verifications
Calls == Issues \cup Refreshes \cup Logouts \cup Transactions
Tokens == Given \cup Calls

ASSUME TokensAssumption ==
    /\ Issues \cap (Refreshes \cup Logouts \cup Transactions) = {}
    /\ Refreshes \cap (Logouts \cup Transactions) = {}
    /\ Logouts \cap Transactions = {}
    /\ MagicLinks \cap Resets = {}
    /\ Verifications \cap OneTime = {}
    /\ Given \cap Calls = {}
    /\ UserRow \notin Tokens
    /\ NoClient \notin Calls
    /\ IssuedKind \in [Issues -> Kinds]
    /\ GivenKind \in [Given -> Kinds]

\* The type of a token: everybody but Issues saves refresh tokens.
Kind(i) ==
    IF i \in Given THEN GivenKind[i]
    ELSE IF i \in Issues THEN IssuedKind[i]
    ELSE "REFRESH"

\* The type that a call asks verifyToken for.
Asked(c) ==
    IF c \in MagicLinks THEN "MAGIC_LINK"
    ELSE IF c \in Resets THEN "RESET_PASSWORD"
    ELSE IF c \in Verifications THEN "VERIFY_EMAIL"
    ELSE "REFRESH"

VARIABLES
    pc,             \* pc[c]: the await that call c is suspended at
    token,          \* token[c]: the token that was presented to c
    state,          \* state[i]: "none" (not yet), "live", "blacklisted", "deleted"
    expired,        \* tokens whose time is over
    seen,           \* seen[c]: the rows in the snapshot of the sweep of c
    doomed,         \* doomed[c]: rows deleted by the open transaction of c
    holder, open,   \* row locks and transactions, see Database
    origin,         \* history: the login that a refresh token descends from
    before,         \* history: the rows there were when the token was verified
    accepted        \* history: calls whose transaction committed

DB == INSTANCE Database WITH Rows <- Tokens \cup {UserRow}, Clients <- Calls

callVars == <<seen, doomed, before>>
vars == <<pc, token, state, expired, callVars, holder, open, origin, accepted>>

Labels == {"start", "consume", "cleanup", "revoke", "begin", "own", "user",
           "sweep", "sweeping", "commit", "save", "done", "failed"}

TypeOK ==
    /\ pc \in [Calls -> Labels]
    /\ token \in [Calls -> Tokens]
    /\ state \in [Tokens -> {"none", "live", "blacklisted", "deleted"}]
    /\ expired \subseteq Tokens
    /\ seen \in [Calls -> SUBSET Tokens]
    /\ doomed \in [Calls -> SUBSET Tokens]
    /\ DB!DatabaseTypeOK
    /\ origin \in [Tokens -> Tokens]
    /\ before \in [Calls -> SUBSET Tokens]
    /\ accepted \subseteq Calls

\* A token that no call has been given yet is the one it may insert.
Init ==
    /\ pc = [c \in Calls |-> "start"]
    /\ token = [c \in Calls |-> c]
    /\ state = [i \in Tokens |-> IF i \in Given THEN "live" ELSE "none"]
    /\ expired = {}
    /\ seen = [c \in Calls |-> {}]
    /\ doomed = [c \in Calls |-> {}]
    /\ DB!DatabaseInit
    /\ origin = [i \in Tokens |-> i]
    /\ before = [c \in Calls |-> {}]
    /\ accepted = {}

At(c, l) == pc[c] = l
Goto(c, l) == pc' = [pc EXCEPT ![c] = l]

\* The last write of a call is committed: its answer arrives or is lost.
Answer(c) == Goto(c, "done") \/ Goto(c, "failed")

InTable(i) == state[i] \in {"live", "blacklisted"}
Table == {i \in Tokens : InTable(i)}

\* The tokens that reached their user: in a cookie or by e-mail.
Known == Given \cup {c \in Calls : At(c, "done") /\ state[c] # "none"}

\* A request comes.
Comes(c) == At(c, "start") /\ Cardinality({d \in Calls : ~At(d, "start")}) < MaxCalls

-----------------------------------------------------------------------------
(* verifyToken, and the findFirst of logout, which accepts expired tokens. *)

Valid(c, i) == state[i] = "live" /\ (c \in Logouts \/ i \notin expired)

AfterVerify(c) ==
    IF c \in Refreshes THEN "consume"
    ELSE IF c \in Logouts THEN "revoke"
    ELSE "begin"

VerifyToken(c, i) ==
    /\ Comes(c)
    /\ c \notin Issues
    /\ i \in Known
    /\ Kind(i) = Asked(c)
    /\ Valid(c, i)
    /\ Goto(c, AfterVerify(c))
    /\ token' = [token EXCEPT ![c] = i]
    /\ before' = [before EXCEPT ![c] = Table]
    /\ UNCHANGED <<state, expired, seen, doomed, holder, open, origin, accepted>>

\* The controller of logout swallows the error and answers as always.
TokenNotFound(c, i) ==
    /\ Comes(c)
    /\ c \notin Issues
    /\ i \in Known
    /\ Kind(i) = Asked(c)
    /\ ~Valid(c, i)
    /\ Goto(c, IF c \in Logouts THEN "done" ELSE "failed")
    /\ UNCHANGED <<token, state, expired, callVars, holder, open, origin, accepted>>

-----------------------------------------------------------------------------
(* refreshAuth: one statement after the other, no transaction.             *)

\* The guard of updateMany: blacklisted is false.  (The slip: the id alone.)
AnyRow(i) == InTable(i)
NotConsumed(i) == state[i] = "live"

ConsumeRefreshToken(c) ==
    /\ At(c, "consume")
    /\ IF NotConsumed(token[c])
         THEN /\ DB!Lockable(token[c])
              /\ state' = [state EXCEPT ![token[c]] = "blacklisted"]
              /\ Goto(c, "cleanup")
         ELSE /\ Goto(c, "failed")
              /\ UNCHANGED state
    /\ UNCHANGED <<token, expired, callVars, holder, open, origin, accepted>>

\* deleteMany of what has expired waits for the rows that are being deleted.
DeleteExpired(c) ==
    LET old == Table \cap expired IN
    /\ At(c, "cleanup")
    /\ \A i \in old : DB!Lockable(i)
    /\ state' = [i \in Tokens |-> IF i \in old THEN "deleted" ELSE state[i]]
    /\ Goto(c, "save")
    /\ UNCHANGED <<token, expired, callVars, holder, open, origin, accepted>>

\* saveToken, for all who issue a token.
StartIssue(c) ==
    /\ c \in Issues
    /\ Comes(c)
    /\ Goto(c, "save")
    /\ UNCHANGED <<token, state, expired, callVars, holder, open, origin, accepted>>

SaveToken(c) ==
    /\ At(c, "save")
    /\ state' = [state EXCEPT ![c] = "live"]
    /\ origin' = [origin EXCEPT ![c] = IF c \in Refreshes THEN origin[token[c]] ELSE c]
    /\ Answer(c)
    /\ UNCHANGED <<token, expired, callVars, holder, open, accepted>>

\* logout deletes the row that it found, whatever became of it meanwhile.
RevokeRefreshToken(c) ==
    /\ At(c, "revoke")
    /\ IF InTable(token[c])
         THEN /\ DB!Lockable(token[c])
              /\ state' = [state EXCEPT ![token[c]] = "deleted"]
         ELSE UNCHANGED state
    /\ Answer(c)
    /\ UNCHANGED <<token, expired, callVars, holder, open, origin, accepted>>

-----------------------------------------------------------------------------
(* consumeMagicLink, resetPassword and verifyEmail: one transaction.  What *)
(* it deletes is applied when it commits, see Database.                    *)

BeginTransaction(c) ==
    /\ At(c, "begin")
    /\ DB!Begin(c)
    /\ Goto(c, IF c \in OneTime THEN "own" ELSE "sweep")
    /\ UNCHANGED <<token, state, expired, callVars, origin, accepted>>

\* consumedToken.count is 1, and a count that nobody looks at.
CountIgnored(i) == TRUE
CountIsOne(i) == state[i] = "live"

\* The presented token goes first; who finds it gone throws.
ConsumeToken(c) ==
    /\ At(c, "own")
    /\ IF CountIsOne(token[c])
         THEN /\ DB!Lock(c, token[c])
              /\ doomed' = [doomed EXCEPT ![c] = {token[c]}]
              /\ Goto(c, IF c \in Resets THEN "user" ELSE "sweep")
         ELSE /\ DB!End(c)
              /\ Goto(c, "failed")
              /\ UNCHANGED doomed
    /\ UNCHANGED <<token, state, expired, seen, before, origin, accepted>>

\* user.update.  A reset does it before its sweep, the others after theirs.
UpdateUser(c) ==
    /\ At(c, "user")
    /\ DB!Lock(c, UserRow)
    /\ Goto(c, IF c \in Resets THEN "sweep" ELSE "commit")
    /\ UNCHANGED <<token, state, expired, callVars, origin, accepted>>

\* The types that a call deletes.  (The slip: a reset leaves refresh tokens.)
SweptOwnKind(c) == {Asked(c)}
Swept(c) == IF c \in Resets THEN {"RESET_PASSWORD", "REFRESH"} ELSE {Asked(c)}

\* deleteMany takes its snapshot: a row that is inserted later escapes it ...
StartSweep(c) ==
    /\ At(c, "sweep")
    /\ seen' = [seen EXCEPT ![c] = {i \in Table : Kind(i) \in Swept(c)} \ doomed[c]]
    /\ Goto(c, "sweeping")
    /\ UNCHANGED <<token, state, expired, doomed, before, holder, open, origin, accepted>>

\* ... and waits for the rows that are locked; those then deleted are skipped.
SweepTokens(c) ==
    LET found == seen[c] \cap Table IN
    /\ At(c, "sweeping")
    /\ \A i \in found : DB!Lockable(i)
    /\ holder' = [x \in DOMAIN holder |-> IF x \in found THEN c ELSE holder[x]]
    /\ doomed' = [doomed EXCEPT ![c] = @ \cup found]
    /\ seen' = [seen EXCEPT ![c] = {}]
    /\ Goto(c, IF c \in Resets THEN "commit" ELSE "user")
    /\ UNCHANGED <<token, state, expired, before, open, origin, accepted>>

CommitTransaction(c) ==
    /\ At(c, "commit")
    /\ state' = [i \in Tokens |-> IF i \in doomed[c] THEN "deleted" ELSE state[i]]
    /\ accepted' = accepted \cup {c}
    /\ DB!End(c)
    /\ doomed' = [doomed EXCEPT ![c] = {}]
    /\ IF c \in MagicLinks THEN Goto(c, "save") ELSE Answer(c)
    /\ UNCHANGED <<token, expired, seen, before, origin>>

-----------------------------------------------------------------------------

\* A statement fails, PostgreSQL picks c as the victim of a deadlock, Prisma's
\* transaction times out, or the process dies: what is not committed is undone.
Fail(c) ==
    /\ ~At(c, "start") /\ ~At(c, "done") /\ ~At(c, "failed")
    /\ Goto(c, "failed")
    /\ DB!End(c)
    /\ doomed' = [doomed EXCEPT ![c] = {}]
    /\ seen' = [seen EXCEPT ![c] = {}]
    /\ UNCHANGED <<token, state, expired, before, origin, accepted>>

Expire(i) ==
    /\ InTable(i)
    /\ i \notin expired
    /\ i \in Expiring
    /\ Cardinality(expired) < MaxExpired
    /\ expired' = expired \cup {i}
    /\ UNCHANGED <<pc, token, state, callVars, holder, open, origin, accepted>>

Refresh(c) == ConsumeRefreshToken(c) \/ DeleteExpired(c)
Issue(c) == StartIssue(c) \/ SaveToken(c)
Transaction(c) ==
    \/ BeginTransaction(c) \/ ConsumeToken(c) \/ UpdateUser(c)
    \/ StartSweep(c) \/ SweepTokens(c) \/ CommitTransaction(c)

Next ==
    \/ \E c \in Calls :
         \/ \E i \in Tokens : VerifyToken(c, i) \/ TokenNotFound(c, i)
         \/ Refresh(c) \/ RevokeRefreshToken(c) \/ Issue(c) \/ Transaction(c)
         \/ Fail(c)
    \/ \E i \in Tokens : Expire(i)

Spec == Init /\ [][Next]_vars

-----------------------------------------------------------------------------
(* Properties.                                                             *)

LiveRefresh(i) == state[i] = "live" /\ Kind(i) = "REFRESH"

\* Rotation: of all refresh tokens that descend from one login at most one is
\* live, however often and from wherever any of them is presented.
OneLivePerLogin ==
    \A i, j \in Tokens :
        LiveRefresh(i) /\ LiveRefresh(j) /\ origin[i] = origin[j] => i = j

\* A magic link and a reset link are good for one login and one password.
ConsumedOnce ==
    \A c, d \in OneTime \cap accepted : token[c] = token[d] => c = d

\* A committed reset leaves no refresh or reset token, a magic login no magic
\* link and a verification no verification link, that was there when its token
\* was verified.  (Of a refresh in flight the new token may come later.)
Revoked(c) ==
    IF c \in MagicLinks THEN {"MAGIC_LINK"}
    ELSE IF c \in Verifications THEN {"VERIFY_EMAIL"}
    ELSE {"RESET_PASSWORD", "REFRESH"}

RevokesOlder ==
    \A c \in accepted : \A i \in before[c] : Kind(i) \in Revoked(c) => ~InTable(i)

-----------------------------------------------------------------------------
(* Every statement that is committed is one step of Sessions, or none.     *)

Live == {i \in Tokens : state[i] = "live"}
Gone == {i \in Tokens : state[i] \in {"blacklisted", "deleted"}}

\* Refreshes between their two statements.
Consumed == {c \in Refreshes : pc[c] \in {"cleanup", "save"}}

Abstract == INSTANCE Sessions WITH
    valid <- Live,
    used <- Gone,
    line <- origin,
    passing <- {token[c] : c \in Consumed},
    redeemed <- {<<c, token[c]>> : c \in OneTime \cap accepted}

\* The handlers implement Sessions: a token that is not valid is never acted on
\* nor valid again, rotation keeps one line per login, a link is redeemed by the
\* commit that removes it, and what is rolled back leaves no trace
\* (auth.service.ts, token.service.ts).
SessionsSpec == Abstract!SessionsSpec
=============================================================================
