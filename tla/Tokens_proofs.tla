----------------------------- MODULE Tokens_proofs -----------------------------
(***************************************************************************)
(* Rotation, single use and revocation of tokens, for every set of calls   *)
(* and of tokens and every order of their statements.                      *)
(***************************************************************************)
EXTENDS Tokens, TLAPS

Ended == {"start", "done", "failed"}

\* A call is suspended only where its own handler suspends.
LabelInv ==
    /\ \A c \in Calls : pc[c] \in {"consume", "cleanup"} => c \in Refreshes
    /\ \A c \in Calls : pc[c] = "revoke" => c \in Logouts
    /\ \A c \in Calls : pc[c] = "own" => c \in OneTime
    /\ \A c \in Calls :
         pc[c] \in {"begin", "user", "sweep", "sweeping", "commit"} => c \in Transactions
    /\ \A c \in Calls : pc[c] = "save" => c \in Issues \cup Refreshes \cup MagicLinks

\* The row of a call is inserted by its last step, and a call works on a row
\* that there was when it verified it.
RowInv ==
    /\ \A c \in Calls : pc[c] \notin {"done", "failed"} => state[c] = "none"
    /\ \A c \in Calls \ Issues :
         pc[c] \notin Ended => state[token[c]] # "none" /\ Kind(token[c]) = Asked(c)
    /\ \A c \in Calls : \A i \in before[c] : state[i] # "none"

\* A login is the origin of nothing before its own row exists.
OriginInv ==
    \A i \in Tokens : state[i] = "none" => \A j \in Tokens : origin[j] = i => j = i

\* Between its two statements a refresh stands for the live token of its login.
LineInv ==
    /\ OneLivePerLogin
    /\ \A c \in Consumed : \A i \in Tokens : LiveRefresh(i) => origin[i] # origin[token[c]]
    /\ \A c, d \in Consumed : origin[token[c]] = origin[token[d]] => c = d

\* What an open transaction has deleted is still there for everybody else, and
\* locked.
LockInv ==
    /\ \A c \in Calls : \A i \in doomed[c] : holder[i] = c /\ InTable(i)
    /\ \A c \in Calls :
         pc[c] \notin {"user", "sweep", "sweeping", "commit"} => doomed[c] = {}

OnceInv ==
    /\ \A c \in OneTime : pc[c] \in {"user", "sweep", "sweeping", "commit"}
                            => token[c] \in doomed[c]
    /\ \A c \in accepted : pc[c] \in {"save", "done", "failed"}
    /\ \A c \in accepted \cap OneTime : state[token[c]] = "deleted"
    /\ ConsumedOnce

\* What a transaction has still to delete of what it found.
SweepInv ==
    /\ accepted \subseteq Transactions
    /\ \A c \in Transactions : \A i \in before[c] :
         Kind(i) \in Revoked(c) /\ InTable(i) =>
           /\ pc[c] = "sweeping" => i \in seen[c] \cup doomed[c]
           /\ pc[c] = "commit" => i \in doomed[c]
           /\ pc[c] = "user" /\ c \notin Resets => i \in doomed[c]
    /\ RevokesOlder

IInv ==
    /\ TypeOK
    /\ LabelInv
    /\ RowInv
    /\ OriginInv
    /\ LineInv
    /\ LockInv
    /\ OnceInv
    /\ SweepInv

-----------------------------------------------------------------------------

\* A call remembers a row of the type it asked for; nothing is written.
LEMMA VerifyTokenSound ==
    ASSUME IInv, NEW c \in Calls, NEW i \in Tokens, VerifyToken(c, i)
    PROVE  IInv'
<1> USE TokensAssumption DEF IInv, Goto, At, callVars
<1>1. TypeOK'
  BY DEF TypeOK, VerifyToken, AfterVerify, Table, DB!DatabaseTypeOK, Labels
<1>2. LabelInv'
  BY DEF LabelInv, VerifyToken, AfterVerify, Calls
<1>3. RowInv'
  BY DEF RowInv, VerifyToken, Comes, Valid, Table, InTable, TypeOK
<1>4. OriginInv'
  BY DEF OriginInv, VerifyToken
<1>5. LineInv'
  BY DEF LineInv, OneLivePerLogin, LiveRefresh, Consumed, VerifyToken,
     AfterVerify, TypeOK
<1>6. LockInv'
  BY DEF LockInv, InTable, VerifyToken, Comes
<1>7. OnceInv'
  BY DEF OnceInv, ConsumedOnce, VerifyToken, Comes, AfterVerify
<1>8. SweepInv'
  BY DEF SweepInv, RevokesOlder, InTable, VerifyToken, Comes, AfterVerify,
     OnceInv
<1> QED
  BY <1>1, <1>2, <1>3, <1>4, <1>5, <1>6, <1>7, <1>8

\* A refused call ends without a write.
LEMMA TokenNotFoundSound ==
    ASSUME IInv, NEW c \in Calls, NEW i \in Tokens, TokenNotFound(c, i)
    PROVE  IInv'
<1> USE TokensAssumption DEF IInv, Goto, At, callVars
<1>1. TypeOK'
  BY DEF TypeOK, TokenNotFound, DB!DatabaseTypeOK, Labels
<1>2. LabelInv'
  BY DEF LabelInv, TokenNotFound
<1>3. RowInv'
  BY DEF RowInv, TokenNotFound, Ended
<1>4. OriginInv'
  BY DEF OriginInv, TokenNotFound
<1>5. LineInv'
  BY DEF LineInv, OneLivePerLogin, LiveRefresh, Consumed, TokenNotFound
<1>6. LockInv'
  BY DEF LockInv, InTable, TokenNotFound, Comes
<1>7. OnceInv'
  BY DEF OnceInv, ConsumedOnce, TokenNotFound
<1>8. SweepInv'
  BY DEF SweepInv, RevokesOlder, InTable, TokenNotFound
<1> QED
  BY <1>1, <1>2, <1>3, <1>4, <1>5, <1>6, <1>7, <1>8

\* A call that logs in writes nothing yet.
LEMMA StartIssueSound ==
    ASSUME IInv, NEW c \in Calls, StartIssue(c)
    PROVE  IInv'
<1> USE TokensAssumption DEF IInv, Goto, At, callVars
<1>1. TypeOK'
  BY DEF TypeOK, StartIssue, DB!DatabaseTypeOK, Labels
<1>2. LabelInv'
  BY DEF LabelInv, StartIssue
<1>3. RowInv'
  BY DEF RowInv, StartIssue, Comes
<1>4. OriginInv'
  BY DEF OriginInv, StartIssue
<1>5. LineInv'
  BY DEF LineInv, OneLivePerLogin, LiveRefresh, Consumed, StartIssue
<1>6. LockInv'
  BY DEF LockInv, InTable, StartIssue, LabelInv
<1>7. OnceInv'
  BY DEF OnceInv, ConsumedOnce, StartIssue
<1>8. SweepInv'
  BY DEF SweepInv, RevokesOlder, InTable, StartIssue
<1> QED
  BY <1>1, <1>2, <1>3, <1>4, <1>5, <1>6, <1>7, <1>8

\* The live token of a login goes and its refresh stands for it: the guard is
\* evaluated under the row lock, so there was no other refresh of that login.
LEMMA ConsumeRefreshTokenSound ==
    ASSUME IInv, NEW c \in Calls, ConsumeRefreshToken(c)
    PROVE  IInv'
<1> USE TokensAssumption DEF IInv, Goto, At, callVars
<1>1. TypeOK'
  BY DEF TypeOK, ConsumeRefreshToken, DB!DatabaseTypeOK, Labels
<1>2. LabelInv'
  BY DEF LabelInv, ConsumeRefreshToken, TypeOK
<1>3. RowInv'
  <2>1. \A j \in Tokens : state[j] = "none" <=> state'[j] = "none"
    BY DEF TypeOK, ConsumeRefreshToken, NotConsumed
  <2>2. UNCHANGED <<token, before>> /\ \A e \in Calls : e # c => pc'[e] = pc[e]
    BY DEF TypeOK, ConsumeRefreshToken
  <2> QED
    BY <2>1, <2>2 DEF TypeOK, RowInv, Ended, ConsumeRefreshToken, Tokens
<1>4. OriginInv'
  BY DEF OriginInv, ConsumeRefreshToken, TypeOK
<1>5. LineInv'
  BY DEF LineInv, OneLivePerLogin, LiveRefresh, Consumed, ConsumeRefreshToken,
     NotConsumed, DB!Lockable, LabelInv, TypeOK, RowInv, Ended, Asked, Calls,
     Transactions, OneTime
<1>6. LockInv'
  BY DEF LockInv, InTable, ConsumeRefreshToken, TypeOK, RowInv
<1>7. OnceInv'
  BY DEF OnceInv, ConsumedOnce, ConsumeRefreshToken, NotConsumed, TypeOK,
     Calls, Transactions
<1>8. SweepInv'
  BY DEF SweepInv, RevokesOlder, InTable, ConsumeRefreshToken, NotConsumed,
     TypeOK, Calls
<1> QED
  BY <1>1, <1>2, <1>3, <1>4, <1>5, <1>6, <1>7, <1>8

\* Rows that go can only help, and no open transaction has deleted them: it
\* would hold them.
LEMMA DeleteExpiredSound ==
    ASSUME IInv, NEW c \in Calls, DeleteExpired(c)
    PROVE  IInv'
<1> USE TokensAssumption DEF IInv, Goto, At, callVars
<1>1. TypeOK'
  BY DEF TypeOK, DeleteExpired, DB!DatabaseTypeOK, Labels
<1>2. LabelInv'
  BY DEF LabelInv, DeleteExpired
<1>3. RowInv'
  <2>1. \A j \in Tokens : state[j] = "none" <=> state'[j] = "none"
    BY DEF InTable, DeleteExpired, Table
  <2>2. UNCHANGED <<token, before>> /\ \A e \in Calls : e # c => pc'[e] = pc[e]
    BY DEF DeleteExpired
  <2> QED
    BY <2>1, <2>2 DEF TypeOK, RowInv, Ended, DeleteExpired, Calls, Tokens
<1>4. OriginInv'
  BY DEF OriginInv, DeleteExpired
<1>5. LineInv'
  BY DEF LineInv, OneLivePerLogin, LiveRefresh, Consumed, DeleteExpired
<1>6. LockInv'
  BY DEF LockInv, InTable, DeleteExpired, DB!Lockable, TypeOK
<1>7. OnceInv'
  BY DEF OnceInv, ConsumedOnce, DeleteExpired, TypeOK
<1>8. SweepInv'
  BY DEF SweepInv, RevokesOlder, InTable, DeleteExpired, TypeOK, Calls
<1> QED
  BY <1>1, <1>2, <1>3, <1>4, <1>5, <1>6, <1>7, <1>8

\* A refresh hands its place to the token it inserts; a login starts a new line.
LEMMA SaveTokenSound ==
    ASSUME IInv, NEW c \in Calls, SaveToken(c)
    PROVE  IInv'
<1> USE TokensAssumption DEF IInv, Goto, At, callVars
<1>1. TypeOK'
  BY DEF TypeOK, SaveToken, Answer, DB!DatabaseTypeOK, Labels, Tokens
<1>2. LabelInv'
  BY DEF LabelInv, SaveToken, Answer, TypeOK
<1>3. RowInv'
  BY DEF RowInv, SaveToken, Answer, LabelInv, TypeOK, Ended
<1>4. OriginInv'
  BY DEF OriginInv, SaveToken, TypeOK, RowInv, Ended
<1>5. LineInv'
  BY DEF LineInv, OneLivePerLogin, LiveRefresh, Consumed, SaveToken, Answer,
     TypeOK, RowInv, Ended, OriginInv, Calls
<1>6. LockInv'
  BY DEF LockInv, InTable, SaveToken, Answer, DB!DatabaseTypeOK, LabelInv,
     TypeOK
<1>7. OnceInv'
  BY DEF OnceInv, ConsumedOnce, SaveToken, Answer, TypeOK, RowInv, Calls,
     Transactions
<1>8. SweepInv'
  BY DEF SweepInv, RevokesOlder, InTable, SaveToken, Answer, TypeOK, RowInv,
     Calls
<1> QED
  BY <1>1, <1>2, <1>3, <1>4, <1>5, <1>6, <1>7, <1>8

\* A logout deletes a row that no open transaction holds.
LEMMA RevokeRefreshTokenSound ==
    ASSUME IInv, NEW c \in Calls, RevokeRefreshToken(c)
    PROVE  IInv'
<1> USE TokensAssumption DEF IInv, Goto, At, callVars
<1>1. TypeOK'
  BY DEF TypeOK, RevokeRefreshToken, Answer, DB!DatabaseTypeOK, Labels
<1>2. LabelInv'
  BY DEF LabelInv, RevokeRefreshToken, Answer, TypeOK
<1>3. RowInv'
  <2>1. \A j \in Tokens : state[j] = "none" <=> state'[j] = "none"
    BY DEF TypeOK, InTable, RevokeRefreshToken
  <2>2. UNCHANGED <<token, before>> /\ \A e \in Calls : e # c => pc'[e] = pc[e]
    BY DEF TypeOK, RevokeRefreshToken, Answer
  <2> QED
    BY <2>1, <2>2 DEF TypeOK, RowInv, Ended, RevokeRefreshToken, Answer,
       Tokens
<1>4. OriginInv'
  BY DEF OriginInv, RevokeRefreshToken, TypeOK
<1>5. LineInv'
  BY DEF LineInv, OneLivePerLogin, LiveRefresh, Consumed, RevokeRefreshToken,
     InTable, Answer, DB!Lockable, TypeOK, Calls
<1>6. LockInv'
  BY DEF LockInv, InTable, RevokeRefreshToken, Answer, DB!Lockable, TypeOK
<1>7. OnceInv'
  BY DEF OnceInv, ConsumedOnce, RevokeRefreshToken, Answer, TypeOK, Calls,
     Transactions
<1>8. SweepInv'
  BY DEF SweepInv, RevokesOlder, InTable, RevokeRefreshToken, Answer, TypeOK,
     Calls
<1> QED
  BY <1>1, <1>2, <1>3, <1>4, <1>5, <1>6, <1>7, <1>8

\* A transaction begins with nothing deleted.
LEMMA BeginTransactionSound ==
    ASSUME IInv, NEW c \in Calls, BeginTransaction(c)
    PROVE  IInv'
<1> USE TokensAssumption DEF IInv, Goto, At, callVars
<1>1. TypeOK'
  BY DEF TypeOK, BeginTransaction, DB!Begin, DB!DatabaseTypeOK, Labels
<1>2. LabelInv'
  BY DEF LabelInv, BeginTransaction
<1>3. RowInv'
  BY DEF RowInv, BeginTransaction, Ended
<1>4. OriginInv'
  BY DEF OriginInv, BeginTransaction
<1>5. LineInv'
  BY DEF LineInv, OneLivePerLogin, LiveRefresh, Consumed, BeginTransaction
<1>6. LockInv'
  BY DEF LockInv, InTable, BeginTransaction, DB!Begin
<1>7. OnceInv'
  BY DEF OnceInv, ConsumedOnce, BeginTransaction
<1>8. SweepInv'
  BY DEF SweepInv, RevokesOlder, InTable, BeginTransaction
<1> QED
  BY <1>1, <1>2, <1>3, <1>4, <1>5, <1>6, <1>7, <1>8

\* The presented link is deleted under its lock, and stays so until the commit.
LEMMA ConsumeTokenSound ==
    ASSUME IInv, NEW c \in Calls, ConsumeToken(c)
    PROVE  IInv'
<1> USE TokensAssumption DEF IInv, Goto, At, callVars
<1>1. TypeOK'
  BY DEF TypeOK, ConsumeToken, DB!Lock, DB!End, DB!DatabaseTypeOK, Labels
<1>2. LabelInv'
  BY DEF LabelInv, ConsumeToken, TypeOK, Transactions
<1>3. RowInv'
  BY DEF RowInv, ConsumeToken, TypeOK, Ended
<1>4. OriginInv'
  BY DEF OriginInv, ConsumeToken
<1>5. LineInv'
  BY DEF LineInv, OneLivePerLogin, LiveRefresh, Consumed, ConsumeToken,
     DB!Lock, TypeOK, Calls
<1>6. LockInv'
  BY DEF LockInv, InTable, ConsumeToken, CountIsOne, DB!Lock, DB!Lockable,
     DB!End, DB!DatabaseTypeOK, LabelInv, TypeOK, Calls
<1>7. OnceInv'
  BY DEF OnceInv, ConsumedOnce, ConsumeToken, DB!Lock, TypeOK, Calls,
     Transactions
<1>8. SweepInv'
  BY DEF SweepInv, RevokesOlder, InTable, ConsumeToken, TypeOK, Calls
<1> QED
  BY <1>1, <1>2, <1>3, <1>4, <1>5, <1>6, <1>7, <1>8

\* The user's row is no token.
LEMMA UpdateUserSound ==
    ASSUME IInv, NEW c \in Calls, UpdateUser(c)
    PROVE  IInv'
<1> USE TokensAssumption DEF IInv, Goto, At, callVars
<1>1. TypeOK'
  BY DEF TypeOK, UpdateUser, DB!Lock, DB!DatabaseTypeOK, Labels
<1>2. LabelInv'
  BY DEF LabelInv, UpdateUser
<1>3. RowInv'
  BY DEF RowInv, UpdateUser, Ended
<1>4. OriginInv'
  BY DEF OriginInv, UpdateUser
<1>5. LineInv'
  BY DEF LineInv, OneLivePerLogin, LiveRefresh, Consumed, UpdateUser
<1>6. LockInv'
  BY DEF LockInv, InTable, UpdateUser, DB!Lock, TypeOK
<1>7. OnceInv'
  BY DEF OnceInv, ConsumedOnce, UpdateUser
<1>8. SweepInv'
  BY DEF SweepInv, RevokesOlder, InTable, UpdateUser
<1> QED
  BY <1>1, <1>2, <1>3, <1>4, <1>5, <1>6, <1>7, <1>8

\* The snapshot holds every older row of the swept types that is not yet deleted.
LEMMA StartSweepSound ==
    ASSUME IInv, NEW c \in Calls, StartSweep(c)
    PROVE  IInv'
<1> USE TokensAssumption DEF IInv, Goto, At, callVars
<1>1. TypeOK'
  BY DEF TypeOK, StartSweep, Table, DB!DatabaseTypeOK, Labels
<1>2. LabelInv'
  BY DEF LabelInv, StartSweep
<1>3. RowInv'
  BY DEF RowInv, StartSweep, Ended
<1>4. OriginInv'
  BY DEF OriginInv, StartSweep
<1>5. LineInv'
  BY DEF LineInv, OneLivePerLogin, LiveRefresh, Consumed, StartSweep
<1>6. LockInv'
  BY DEF LockInv, InTable, StartSweep
<1>7. OnceInv'
  BY DEF OnceInv, ConsumedOnce, StartSweep
<1>8. SweepInv'
  BY DEF SweepInv, RevokesOlder, InTable, StartSweep, Table, Swept, Revoked,
     Asked, TypeOK, Transactions, OneTime
<1> QED
  BY <1>1, <1>2, <1>3, <1>4, <1>5, <1>6, <1>7, <1>8

\* What was in the snapshot and is still there is deleted, all of it.
LEMMA SweepTokensSound ==
    ASSUME IInv, NEW c \in Calls, SweepTokens(c)
    PROVE  IInv'
<1> USE TokensAssumption DEF IInv, Goto, At, callVars
<1>1. TypeOK'
  BY DEF TypeOK, SweepTokens, DB!DatabaseTypeOK, Labels
<1>2. LabelInv'
  BY DEF LabelInv, SweepTokens
<1>3. RowInv'
  BY DEF RowInv, SweepTokens, Ended
<1>4. OriginInv'
  BY DEF OriginInv, SweepTokens
<1>5. LineInv'
  BY DEF LineInv, OneLivePerLogin, LiveRefresh, Consumed, SweepTokens
<1>6. LockInv'
  BY DEF LockInv, InTable, SweepTokens, Table, DB!Lockable, DB!DatabaseTypeOK,
     TypeOK
<1>7. OnceInv'
  BY DEF OnceInv, ConsumedOnce, SweepTokens
<1>8. SweepInv'
  BY DEF SweepInv, RevokesOlder, InTable, SweepTokens, Table, TypeOK
<1> QED
  BY <1>1, <1>2, <1>3, <1>4, <1>5, <1>6, <1>7, <1>8

\* The deleted rows go for everybody at once: the link is spent, and of the older
\* rows none is left.
LEMMA CommitTransactionSound ==
    ASSUME IInv, NEW c \in Calls, CommitTransaction(c)
    PROVE  IInv'
<1> USE TokensAssumption DEF IInv, Goto, At, callVars
<1>1. TypeOK'
  BY DEF TypeOK, CommitTransaction, DB!End, Answer, InTable,
     DB!DatabaseTypeOK, Calls, Labels
<1>2. LabelInv'
  BY DEF LabelInv, CommitTransaction, Answer, TypeOK
<1>3. RowInv'
  <2>1. \A j \in Tokens : state[j] = "none" <=> state'[j] = "none"
    BY DEF InTable, LockInv, CommitTransaction
  <2>2. UNCHANGED <<token, before>> /\ \A e \in Calls : e # c => pc'[e] = pc[e]
    BY DEF TypeOK, CommitTransaction, Answer
  <2> QED
    BY <2>1, <2>2 DEF TypeOK, RowInv, Ended, CommitTransaction, Tokens
<1>4. OriginInv'
  BY DEF OriginInv, CommitTransaction
<1>5. LineInv'
  BY DEF LineInv, OneLivePerLogin, LiveRefresh, Consumed, CommitTransaction,
     Answer, TypeOK, Calls, Transactions, OneTime
<1>6. LockInv'
  BY DEF LockInv, InTable, CommitTransaction, DB!End, Answer, TypeOK
<1>7. OnceInv'
  BY DEF OnceInv, ConsumedOnce, CommitTransaction, Answer, InTable, TypeOK,
     LockInv, Calls, Transactions
<1>8. SweepInv'
  BY DEF SweepInv, RevokesOlder, InTable, CommitTransaction, Answer, LabelInv,
     TypeOK, Calls
<1> QED
  BY <1>1, <1>2, <1>3, <1>4, <1>5, <1>6, <1>7, <1>8

\* What is rolled back was never visible.
LEMMA FailSound ==
    ASSUME IInv, NEW c \in Calls, Fail(c)
    PROVE  IInv'
<1> USE TokensAssumption DEF IInv, Goto, At, callVars
<1>1. TypeOK'
  BY DEF TypeOK, Fail, DB!End, DB!DatabaseTypeOK, Labels
<1>2. LabelInv'
  BY DEF LabelInv, Fail
<1>3. RowInv'
  BY DEF RowInv, Fail, Ended
<1>4. OriginInv'
  BY DEF OriginInv, Fail
<1>5. LineInv'
  BY DEF LineInv, OneLivePerLogin, LiveRefresh, Consumed, Fail
<1>6. LockInv'
  BY DEF LockInv, InTable, Fail, DB!End, TypeOK
<1>7. OnceInv'
  BY DEF OnceInv, ConsumedOnce, Fail, TypeOK
<1>8. SweepInv'
  BY DEF SweepInv, RevokesOlder, InTable, Fail, TypeOK
<1> QED
  BY <1>1, <1>2, <1>3, <1>4, <1>5, <1>6, <1>7, <1>8

\* Time writes no row.
LEMMA ExpireSound ==
    ASSUME IInv, NEW i \in Tokens, Expire(i)
    PROVE  IInv'
<1> USE TokensAssumption DEF IInv, Goto, At, callVars
<1>1. TypeOK'
  BY DEF TypeOK, Expire, DB!DatabaseTypeOK
<1>2. LabelInv'
  BY DEF LabelInv, Expire
<1>3. RowInv'
  BY DEF RowInv, Expire
<1>4. OriginInv'
  BY DEF OriginInv, Expire
<1>5. LineInv'
  BY DEF LineInv, OneLivePerLogin, LiveRefresh, Consumed, Expire
<1>6. LockInv'
  BY DEF LockInv, InTable, Expire
<1>7. OnceInv'
  BY DEF OnceInv, ConsumedOnce, Expire
<1>8. SweepInv'
  BY DEF SweepInv, RevokesOlder, InTable, Expire
<1> QED
  BY <1>1, <1>2, <1>3, <1>4, <1>5, <1>6, <1>7, <1>8

-----------------------------------------------------------------------------

\* Nothing is inserted, verified or deleted yet.
LEMMA InitSound == Init => IInv
<1> SUFFICES ASSUME Init PROVE IInv
  OBVIOUS
<1>1. TypeOK
  BY DEF Init, TypeOK, Labels, Tokens, DB!DatabaseInit, DB!DatabaseTypeOK
<1>2. LabelInv /\ RowInv
  BY TokensAssumption DEF Init, LabelInv, RowInv, Ended, Calls, Tokens
<1>3. OriginInv /\ LineInv
  BY DEF Init, OriginInv, LineInv, OneLivePerLogin, Consumed, Calls
<1>4. LockInv /\ OnceInv /\ SweepInv
  BY DEF Init, LockInv, OnceInv, SweepInv, ConsumedOnce, RevokesOlder,
     OneTime, Transactions, Calls
<1> QED
  BY <1>1, <1>2, <1>3, <1>4 DEF IInv

\* A step of nobody.
LEMMA StutterSound == IInv /\ UNCHANGED vars => IInv'
<1> SUFFICES ASSUME IInv, UNCHANGED vars PROVE IInv'
  OBVIOUS
<1> USE DEF IInv, vars, callVars
<1>1. TypeOK'
  BY DEF TypeOK, DB!DatabaseTypeOK
<1>2. LabelInv' /\ RowInv' /\ OriginInv'
  BY DEF LabelInv, RowInv, OriginInv
<1>3. LineInv'
  BY DEF LineInv, OneLivePerLogin, LiveRefresh, Consumed
<1>4. LockInv' /\ OnceInv'
  BY DEF LockInv, OnceInv, ConsumedOnce, InTable
<1>5. SweepInv'
  BY DEF SweepInv, RevokesOlder, InTable
<1> QED
  BY <1>1, <1>2, <1>3, <1>4, <1>5

\* The inductive invariant holds in every behaviour: every statement of every
\* handler of auth.service.ts and token.service.ts keeps it.
THEOREM TokensInvariant == Spec => []IInv
<1>1. IInv /\ [Next]_vars => IInv'
  <2> SUFFICES ASSUME IInv, [Next]_vars PROVE IInv'
    OBVIOUS
  <2>1. ASSUME NEW c \in Calls, NEW i \in Tokens, VerifyToken(c, i) \/ TokenNotFound(c, i)
        PROVE  IInv'
    BY <2>1, VerifyTokenSound, TokenNotFoundSound
  <2>2. ASSUME NEW c \in Calls, Refresh(c) \/ RevokeRefreshToken(c) \/ Issue(c)
        PROVE  IInv'
    BY <2>2, ConsumeRefreshTokenSound, DeleteExpiredSound, RevokeRefreshTokenSound,
       StartIssueSound, SaveTokenSound DEF Refresh, Issue
  <2>3. ASSUME NEW c \in Calls, Transaction(c)
        PROVE  IInv'
    BY <2>3, BeginTransactionSound, ConsumeTokenSound, UpdateUserSound,
       StartSweepSound, SweepTokensSound, CommitTransactionSound DEF Transaction
  <2>4. ASSUME NEW c \in Calls, Fail(c)
        PROVE  IInv'
    BY <2>4, FailSound
  <2>5. ASSUME NEW i \in Tokens, Expire(i)
        PROVE  IInv'
    BY <2>5, ExpireSound
  <2>6. CASE UNCHANGED vars
    BY <2>6, StutterSound
  <2> QED
    BY <2>1, <2>2, <2>3, <2>4, <2>5, <2>6 DEF Next
<1> QED
  BY InitSound, <1>1, PTL DEF Spec

\* Every variable keeps its type.
THEOREM TokensTyped == Spec => []TypeOK
<1>1. IInv => TypeOK
  BY DEF IInv
<1> QED
  BY <1>1, TokensInvariant, PTL

\* Rotation (refreshAuth): of the refresh tokens that descend from one login at
\* most one is live.
THEOREM RotationKeepsOne == Spec => []OneLivePerLogin
<1>1. IInv => OneLivePerLogin
  BY DEF IInv, LineInv
<1> QED
  BY <1>1, TokensInvariant, PTL

\* Single use (consumeMagicLink, resetPassword): no two committed calls presented
\* the same link.
THEOREM LinksAreConsumedOnce == Spec => []ConsumedOnce
<1>1. IInv => ConsumedOnce
  BY DEF IInv, OnceInv
<1> QED
  BY <1>1, TokensInvariant, PTL

\* Revocation (the deleteMany of each transaction): what was there when its token
\* was verified, and is of a type it revokes, is gone when it commits.
THEOREM OlderTokensAreRevoked == Spec => []RevokesOlder
<1>1. IInv => RevokesOlder
  BY DEF IInv, SweepInv
<1> QED
  BY <1>1, TokensInvariant, PTL

-----------------------------------------------------------------------------
(* Refinement: the committed statements are the steps of Sessions.         *)

\* Only refreshAuth sets `blacklisted`, so a link is live or deleted.
OnlyRefreshBlacklisted ==
    \A i \in Tokens : state[i] = "blacklisted" => Kind(i) = "REFRESH"

LEMMA BlacklistedIsRefresh ==
    ASSUME IInv, OnlyRefreshBlacklisted, [Next]_vars
    PROVE  OnlyRefreshBlacklisted'
<1> USE DEF OnlyRefreshBlacklisted, TypeOK
<1>1. TypeOK
  BY DEF IInv
<1>2. ASSUME NEW c \in Calls, ConsumeRefreshToken(c)
      PROVE  OnlyRefreshBlacklisted'
  <2>1. c \in Calls \ Issues /\ Kind(token[c]) = "REFRESH"
    BY <1>2, TokensAssumption DEF IInv, LabelInv, RowInv, Ended, ConsumeRefreshToken, At, Asked,
      Transactions, OneTime
  <2> QED BY <1>1, <1>2, <2>1 DEF ConsumeRefreshToken, Kind
<1>3. ASSUME NEW c \in Calls,
             DeleteExpired(c) \/ SaveToken(c) \/ RevokeRefreshToken(c) \/ CommitTransaction(c)
      PROVE  OnlyRefreshBlacklisted'
  BY <1>1, <1>3 DEF DeleteExpired, SaveToken, RevokeRefreshToken, CommitTransaction, Kind
<1>4. CASE UNCHANGED state
  BY <1>4 DEF Kind
<1> QED
  BY <1>2, <1>3, <1>4 DEF Next, VerifyToken, TokenNotFound, Refresh, Issue, StartIssue,
     Transaction, BeginTransaction, ConsumeToken, UpdateUser, StartSweep, SweepTokens, Fail,
     Expire, vars

LEMMA BlacklistedIsAlwaysRefresh == Spec => []OnlyRefreshBlacklisted
<1>1. Init => OnlyRefreshBlacklisted
  BY DEF Init, OnlyRefreshBlacklisted
<1>2. IInv /\ OnlyRefreshBlacklisted /\ [Next]_vars => OnlyRefreshBlacklisted'
  BY BlacklistedIsRefresh
<1> QED
  BY <1>1, <1>2, TokensInvariant, PTL DEF Spec

\* What Sessions sees of the table and of the calls.
Passing == {token[c] : c \in Consumed}
Redeemed == {<<c, token[c]>> : c \in OneTime \cap accepted}
SessionView == <<Live, Gone, origin, Passing, Redeemed>>

\* A call that moves between other statements, and remembers nothing new that counts.
LEMMA ViewKept ==
    ASSUME UNCHANGED <<state, origin, accepted>>,
           \A c \in Refreshes : pc'[c] \in {"cleanup", "save"} <=> pc[c] \in {"cleanup", "save"},
           \A c \in Consumed \cup (OneTime \cap accepted) : token'[c] = token[c]
    PROVE  UNCHANGED SessionView
<1>1. Live' = Live /\ Gone' = Gone
  BY DEF Live, Gone
<1>2. Consumed' = Consumed
  BY DEF Consumed
<1>3. Passing' = Passing
  BY <1>2 DEF Passing
<1>4. Redeemed' = Redeemed
  BY DEF Redeemed
<1> QED
  BY <1>1, <1>3, <1>4 DEF SessionView

\* Rows that are deleted become invalid for ever.
LEMMA DeletingWithdraws ==
    ASSUME TypeOK, NEW S \in SUBSET Tokens, \A i \in S : InTable(i),
           state' = [i \in Tokens |-> IF i \in S THEN "deleted" ELSE state[i]]
    PROVE  Live' = Live \ S /\ Gone' = Gone \cup S
BY DEF TypeOK, Live, Gone, InTable

\* A refresh stands for its token alone.
LEMMA PassingIsOwn ==
    ASSUME IInv, NEW c \in Consumed
    PROVE  \A d \in Consumed : token[d] = token[c] => d = c
BY DEF IInv, LineInv

LEMMA SaveTokenIsIssue ==
    ASSUME IInv, NEW c \in Calls, SaveToken(c)
    PROVE  Abstract!SessionsNext
<1> USE DEF SaveToken, At, Answer, Goto
<1>1. /\ c \in Tokens /\ state[c] = "none" /\ TypeOK
      /\ c \in Issues \cup Refreshes \cup MagicLinks
  BY DEF IInv, RowInv, LabelInv, Tokens
<1>2. c \notin Live \cup Gone /\ Live' = Live \cup {c} /\ Gone' = Gone
  BY <1>1 DEF Live, Gone, TypeOK
<1>3. UNCHANGED <<token, accepted>> /\ pc'[c] \in {"done", "failed"}
      /\ \A d \in Calls : d # c => pc'[d] = pc[d]
  BY <1>1 DEF TypeOK
<1>4. Redeemed' = Redeemed
  BY <1>3 DEF Redeemed
<1>5. CASE c \notin Refreshes
  <2>1. Consumed' = Consumed
    BY <1>3, <1>5 DEF Consumed, Calls
  <2>2. Passing' = Passing
    BY <1>3, <2>1 DEF Passing
  <2>3. origin' = [origin EXCEPT ![c] = c]
    BY <1>5
  <2>4. Abstract!Issue(c)
    BY <1>2, <1>4, <2>2, <2>3 DEF Abstract!Issue, Abstract!Fresh, Passing, Redeemed
  <2> QED
    BY <1>1, <2>4 DEF Abstract!SessionsNext
<1>6. CASE c \in Refreshes
  <2>1. c \in Consumed /\ Consumed' = Consumed \ {c} /\ token[c] \in Tokens
    BY <1>1, <1>3, <1>6 DEF Consumed, Calls, TypeOK
  <2>2. Passing' = Passing \ {token[c]} /\ token[c] \in Passing
    BY <1>3, <2>1, PassingIsOwn DEF Passing
  <2>3. origin' = [origin EXCEPT ![c] = origin[token[c]]]
    BY <1>6
  <2>4. Abstract!PassOn(token[c], c)
    BY <1>2, <1>4, <2>2, <2>3 DEF Abstract!PassOn, Abstract!Fresh, Passing, Redeemed
  <2> QED
    BY <1>1, <2>1, <2>4 DEF Abstract!SessionsNext
<1> QED
  BY <1>5, <1>6

LEMMA ConsumeRefreshTokenIsUse ==
    ASSUME IInv, NEW c \in Calls, ConsumeRefreshToken(c)
    PROVE  Abstract!SessionsNext \/ UNCHANGED SessionView
<1> USE DEF ConsumeRefreshToken, At, Goto
<1>1. c \in Refreshes /\ pc[c] = "consume" /\ token[c] \in Tokens /\ TypeOK
  BY DEF IInv, LabelInv, TypeOK
<1>2. CASE ~NotConsumed(token[c])
  <2>1. \A d \in Refreshes : pc'[d] \in {"cleanup", "save"} <=> pc[d] \in {"cleanup", "save"}
    BY <1>1, <1>2 DEF TypeOK, Calls
  <2> QED
    BY <1>2, <2>1, ViewKept
<1>3. CASE NotConsumed(token[c])
  <2>1. /\ token[c] \in Live /\ Live' = Live \ {token[c]} /\ Gone' = Gone \cup {token[c]}
    BY <1>1, <1>3 DEF NotConsumed, Live, Gone, TypeOK
  <2>2. Consumed' = Consumed \cup {c}
    BY <1>1, <1>3 DEF Consumed, TypeOK, Calls
  <2>3. Passing' = Passing \cup {token[c]} /\ Redeemed' = Redeemed
    BY <2>2 DEF Passing, Redeemed
  <2> PICK i \in Tokens : i = token[c]
    BY <1>1
  <2>4. Abstract!Use(i)
    BY <2>1, <2>3 DEF Abstract!Use, Passing, Redeemed
  <2> QED
    BY <2>4 DEF Abstract!SessionsNext
<1> QED
  BY <1>2, <1>3

LEMMA DeletionIsWithdrawal ==
    ASSUME IInv, NEW c \in Calls, DeleteExpired(c) \/ RevokeRefreshToken(c)
    PROVE  Abstract!SessionsNext \/ UNCHANGED SessionView
<1>1. TypeOK
  BY DEF IInv
<1>2. Passing' = Passing /\ Redeemed' = Redeemed /\ UNCHANGED origin
  <2>1. Consumed' = Consumed
    BY <1>1, TokensAssumption DEF IInv, LabelInv, Consumed, DeleteExpired, RevokeRefreshToken,
      At, Answer, Goto, TypeOK, Calls
  <2>2. UNCHANGED <<token, accepted, origin>>
    BY DEF DeleteExpired, RevokeRefreshToken
  <2> QED
    BY <2>1, <2>2 DEF Passing, Redeemed
<1>3. \E S \in SUBSET Tokens : Live' = Live \ S /\ Gone' = Gone \cup S /\ S \subseteq Live \cup Gone
  <2>1. CASE DeleteExpired(c)
    <3>1. Table \cap expired \in SUBSET Tokens /\ \A i \in Table \cap expired : InTable(i)
      BY DEF Table
    <3>2. Live' = Live \ (Table \cap expired) /\ Gone' = Gone \cup (Table \cap expired)
      BY <1>1, <2>1, <3>1, DeletingWithdraws DEF DeleteExpired
    <3> QED
      BY <3>1, <3>2 DEF Table, InTable, Live, Gone
  <2>2. CASE RevokeRefreshToken(c) /\ InTable(token[c])
    <3>1. {token[c]} \in SUBSET Tokens /\ \A i \in {token[c]} : InTable(i)
      BY <1>1, <2>2 DEF TypeOK
    <3>2. Live' = Live \ {token[c]} /\ Gone' = Gone \cup {token[c]}
      BY <1>1, <2>2, <3>1 DEF RevokeRefreshToken, TypeOK, Live, Gone, InTable
    <3> QED
      BY <3>1, <3>2 DEF InTable, Live, Gone
  <2>3. CASE RevokeRefreshToken(c) /\ ~InTable(token[c])
    BY <2>3 DEF RevokeRefreshToken, Live, Gone
  <2> QED
    BY <2>1, <2>2, <2>3
<1>4. Abstract!Withdraw
  BY <1>2, <1>3 DEF Abstract!Withdraw, Abstract!Withdrawn, Passing, Redeemed
<1> QED
  BY <1>4 DEF Abstract!SessionsNext

LEMMA CommitIsRedemption ==
    ASSUME IInv, OnlyRefreshBlacklisted, NEW c \in Calls, CommitTransaction(c)
    PROVE  Abstract!SessionsNext
<1> USE DEF CommitTransaction, At, Answer, Goto
<1>1. /\ TypeOK /\ pc[c] = "commit" /\ c \in Transactions /\ token[c] \in Tokens
      /\ doomed[c] \in SUBSET Tokens /\ \A i \in doomed[c] : InTable(i)
  BY DEF IInv, LabelInv, LockInv, TypeOK
<1>2. Live' = Live \ doomed[c] /\ Gone' = Gone \cup doomed[c] /\ doomed[c] \subseteq Live \cup Gone
  <2>1. Live' = Live \ doomed[c] /\ Gone' = Gone \cup doomed[c]
    BY <1>1, DeletingWithdraws
  <2> QED
    BY <1>1, <2>1 DEF Live, Gone, InTable
<1>3. Abstract!Withdrawn
  BY <1>2 DEF Abstract!Withdrawn
<1>4. Passing' = Passing /\ UNCHANGED <<origin, token>> /\ accepted' = accepted \cup {c}
  <2>1. Consumed' = Consumed
    BY <1>1, TokensAssumption DEF Consumed, TypeOK, Calls
  <2> QED
    BY <2>1 DEF Passing
<1>5. CASE c \in OneTime
  <2>1. Redeemed' = Redeemed \cup {<<c, token[c]>>}
    BY <1>4, <1>5 DEF Redeemed
  <2>2. token[c] \in doomed[c] /\ Kind(token[c]) # "REFRESH"
    BY <1>1, <1>5, TokensAssumption DEF IInv, OnceInv, RowInv, Ended, Asked, OneTime
  <2>3. token[c] \in Live \ Live'
    BY <1>1, <1>2, <2>2 DEF OnlyRefreshBlacklisted, InTable, Live
  <2> PICK i \in Tokens : i = token[c]
    BY <1>1
  <2>4. Abstract!Redeem(c, i)
    BY <1>3, <1>4, <2>1, <2>3 DEF Abstract!Redeem, Passing, Redeemed
  <2> QED
    BY <2>4 DEF Abstract!SessionsNext
<1>6. CASE c \notin OneTime
  <2>1. Redeemed' = Redeemed
    BY <1>4, <1>6 DEF Redeemed
  <2>2. Abstract!Withdraw
    BY <1>3, <1>4, <2>1 DEF Abstract!Withdraw, Passing, Redeemed
  <2> QED
    BY <2>2 DEF Abstract!SessionsNext
<1> QED
  BY <1>5, <1>6

LEMMA FailIsBreak ==
    ASSUME IInv, NEW c \in Calls, Fail(c)
    PROVE  Abstract!SessionsNext \/ UNCHANGED SessionView
<1> USE DEF Fail, At, Goto
<1>1. TypeOK /\ pc'[c] = "failed" /\ \A d \in Calls : d # c => pc'[d] = pc[d]
  BY DEF IInv, TypeOK
<1>2. CASE c \notin Consumed
  <2>1. \A d \in Refreshes : pc'[d] \in {"cleanup", "save"} <=> pc[d] \in {"cleanup", "save"}
    BY <1>1, <1>2 DEF Consumed, Calls
  <2> QED
    BY <2>1, ViewKept
<1>3. CASE c \in Consumed
  <2>1. Consumed' = Consumed \ {c} /\ token[c] \in Tokens
    BY <1>1, <1>3 DEF Consumed, Calls, TypeOK
  <2>2. Passing' = Passing \ {token[c]} /\ token[c] \in Passing
    BY <1>3, <2>1, PassingIsOwn DEF Passing
  <2>3. UNCHANGED <<Live, Gone, origin, Redeemed>>
    BY DEF Live, Gone, Redeemed
  <2> PICK i \in Tokens : i = token[c]
    BY <2>1
  <2>4. Abstract!Break(i)
    BY <2>2, <2>3 DEF Abstract!Break, Passing, Redeemed
  <2> QED
    BY <2>4 DEF Abstract!SessionsNext
<1> QED
  BY <1>2, <1>3

\* The other statements write nothing that a user could notice.
LEMMA OthersAreInvisible ==
    ASSUME IInv, NEW c \in Calls,
           \/ \E i \in Tokens : VerifyToken(c, i) \/ TokenNotFound(c, i)
           \/ StartIssue(c) \/ BeginTransaction(c) \/ ConsumeToken(c) \/ UpdateUser(c)
           \/ StartSweep(c) \/ SweepTokens(c)
    PROVE  UNCHANGED SessionView
<1>0. Refreshes \cap (Issues \cup Transactions) = {} /\ OneTime \subseteq Transactions
  BY TokensAssumption DEF Transactions
<1>1. UNCHANGED <<state, origin, accepted>> /\ \A d \in Calls : d # c => pc'[d] = pc[d]
  BY DEF IInv, TypeOK, VerifyToken, TokenNotFound, StartIssue, BeginTransaction, ConsumeToken,
    UpdateUser, StartSweep, SweepTokens, Goto
<1>2. c \in Refreshes => pc[c] = "start" /\ pc'[c] \in {"consume", "failed"}
  BY <1>0, TokensAssumption DEF IInv, LabelInv, TypeOK, VerifyToken, TokenNotFound, StartIssue,
    BeginTransaction, ConsumeToken, UpdateUser, StartSweep, SweepTokens, Goto, Comes, At,
    AfterVerify
<1>3. \A d \in Refreshes : pc'[d] \in {"cleanup", "save"} <=> pc[d] \in {"cleanup", "save"}
  BY <1>1, <1>2 DEF Calls
<1>4. \A d \in Calls : token'[d] = token[d] \/ (d = c /\ pc[c] = "start")
  BY DEF IInv, TypeOK, VerifyToken, TokenNotFound, StartIssue, BeginTransaction, ConsumeToken,
    UpdateUser, StartSweep, SweepTokens, Comes, At
<1>5. \A d \in Consumed \cup (OneTime \cap accepted) : d \in Calls /\ pc[d] # "start"
  BY DEF IInv, OnceInv, TypeOK, Consumed, Calls
<1> QED
  BY <1>1, <1>3, <1>4, <1>5, ViewKept

(***************************************************************************)
(* The handlers implement Sessions, for every set of calls and tokens: a   *)
(* token that is not valid is never acted on nor valid again, rotation     *)
(* keeps one line per login, and a link is redeemed by the commit that     *)
(* removes it (auth.service.ts:126-290, 334-390, token.service.ts:43-110).   *)
(***************************************************************************)
THEOREM TokensImplementSessions == Spec => SessionsSpec
<1>1. Init => Abstract!SessionsInit
  <2> SUFFICES ASSUME Init PROVE Abstract!SessionsInit
    OBVIOUS
  <2>1. Live = Given /\ Gone = {} /\ origin = [i \in Tokens |-> i]
    BY DEF Init, Live, Gone, Tokens
  <2>2. Consumed = {} /\ accepted = {}
    BY DEF Init, Consumed, Calls
  <2> QED
    BY <2>1, <2>2 DEF Abstract!SessionsInit
<1>2. ASSUME IInv, OnlyRefreshBlacklisted, [Next]_vars
      PROVE  Abstract!SessionsNext \/ UNCHANGED SessionView
  <2>1. ASSUME NEW c \in Calls, Fail(c)
        PROVE  Abstract!SessionsNext \/ UNCHANGED SessionView
    BY <1>2, <2>1, FailIsBreak
  <2>2. ASSUME NEW c \in Calls, Refresh(c) \/ RevokeRefreshToken(c) \/ Issue(c)
        PROVE  Abstract!SessionsNext \/ UNCHANGED SessionView
    BY <1>2, <2>2, ConsumeRefreshTokenIsUse, DeletionIsWithdrawal, SaveTokenIsIssue,
      OthersAreInvisible DEF Refresh, Issue
  <2>3. ASSUME NEW c \in Calls, Transaction(c)
        PROVE  Abstract!SessionsNext \/ UNCHANGED SessionView
    BY <1>2, <2>3, CommitIsRedemption, OthersAreInvisible DEF Transaction
  <2>4. ASSUME NEW c \in Calls, NEW i \in Tokens, VerifyToken(c, i) \/ TokenNotFound(c, i)
        PROVE  UNCHANGED SessionView
    BY <1>2, <2>4, OthersAreInvisible
  <2>5. CASE (\E i \in Tokens : Expire(i)) \/ UNCHANGED vars
    BY <2>5, ViewKept DEF Expire, vars
  <2> QED
    BY <1>2, <2>1, <2>2, <2>3, <2>4, <2>5 DEF Next
<1>3. IInv /\ OnlyRefreshBlacklisted /\ [Next]_vars
        => [Abstract!SessionsNext]_(Abstract!sessionVars)
  BY <1>2 DEF SessionView, Passing, Redeemed, Abstract!sessionVars
<1> QED
  BY <1>1, <1>3, TokensInvariant, BlacklistedIsAlwaysRefresh, PTL
     DEF Spec, SessionsSpec, Abstract!SessionsSpec
=============================================================================
