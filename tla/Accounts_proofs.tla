---------------------------- MODULE Accounts_proofs ----------------------------
(***************************************************************************)
(* The properties of Accounts, for all calls, rows and interleavings.      *)
(***************************************************************************)
EXTENDS Accounts, TLAPS

\* What a step may do to a row that there is: everything that suspended calls rely
\* on survives it.
WaysIn == {"seed", "email", "twitterId", "nostrPubkey"}

Keeps(u, row) ==
    /\ row \in Rows
    /\ row.wallet # "none"
    /\ row.role = "APPLICATION" <=> users[u].role = "APPLICATION"
    /\ users[u].role = "ADMIN" => row.role = "ADMIN"
    /\ \A f \in WaysIn : users[u][f] # None => row[f] # None

\* What the step of a call r may do to the table.
TableStep(r) ==
    /\ ids \subseteq ids'
    /\ ids' \subseteq ids \cup {r}
    /\ users' \in [Ids -> Rows]
    /\ released \subseteq released'
    /\ released' \subseteq Values
    /\ replaced \subseteq replaced'
    /\ replaced' \subseteq Ids \X Maybe(Values)
    /\ \A u \in ids :
         users'[u].password = users[u].password \/ <<u, users[u].password>> \in replaced'
    /\ \A u \in ids : Keeps(u, users'[u])
    /\ \A u \in ids' \ ids :
         users'[u].wallet # "none" /\ \E f \in WaysIn : users'[u][f] # None
    /\ \A f \in UniqueFields, v \in Values :
         Taken(f, v) => Taken(f, v)' \/ v \in released'

\* And to the calls.
CallStep(r) ==
    /\ pc' \in [Calls -> Labels]
    /\ current' \in [Calls -> Maybe(Ids)]
    /\ found' \in [Calls -> Maybe(Ids)]
    /\ mail' \in [Calls -> Maybe(Values)]
    /\ answer' \in [Calls -> Maybe(Ids) \cup {Refused}]
    /\ \A q \in Calls \ {r} :
         /\ pc'[q] = pc[q]
         /\ current'[q] = current[q]
         /\ found'[q] = found[q]
         /\ answer'[q] = answer[q]

-----------------------------------------------------------------------------
(* What the assumptions say of a call.                                     *)

LEMMA RequestSound ==
    ASSUME NEW r \in Calls
    PROVE  /\ Request[r] \in Requests
           /\ r \in Ids /\ r # None /\ r \notin Given
           /\ r \in SignUps \cup SignIns \cup Promotions =>
                r \in SeedRegistrations \/ Identity(r) \in Values
  BY UserTableAssumption DEF UserTableAssumption, Ids, Identity, Requests, Maybe, SignUps,
     SignIns, Creators

LEMMA OthersStaySuspended ==
    ASSUME Sound, NEW r \in Calls, TableStep(r), CallStep(r), NEW q \in Calls, q # r
    PROVE  Suspended(q)'
<1> USE DEF At
<1>1. Suspended(q)
  BY DEF Sound
<1>2. pc'[q] = pc[q] /\ current'[q] = current[q] /\ found'[q] = found[q] /\ answer'[q] = answer[q]
  BY DEF CallStep
<1>3. q \in ids' => q \in ids
  BY DEF TableStep
<1>4. ASSUME NEW u \in ids
      PROVE  /\ u \in ids'
             /\ users'[u].role = "APPLICATION" <=> users[u].role = "APPLICATION"
             /\ users[u].role = "ADMIN" => users'[u].role = "ADMIN"
             /\ HasOtherMethod(u) => HasOtherMethod(u)'
  BY <1>4 DEF TableStep, Keeps, WaysIn, HasOtherMethod
<1>5. pc[q] = "refind" => (Taken(Field(q), Identity(q)) \/ Identity(q) \in released)'
  <2>1. pc[q] = "refind" => q \in SignIns /\ q \notin SeedRegistrations
    BY <1>1 DEF Suspended, SignIns, MagicLogins, NostrLogins, SeedRegistrations, Of
  <2>2. pc[q] = "refind" => Identity(q) \in Values
    BY <2>1, RequestSound
  <2>3. Field(q) \in UniqueFields /\ Field(q)' = Field(q) /\ Identity(q)' = Identity(q)
    BY DEF Field, UniqueFields, Identity, NostrLogins, XLogins, Of
  <2> QED
    BY <1>1, <2>2, <2>3 DEF Suspended, TableStep
<1>6. Target(q)' = Target(q)
  BY DEF Target
<1>7. pc[q] = "confirm" => HadPassword(q, found[q])'
  BY <1>1, <1>2 DEF Suspended, HadPassword, PasswordMatches, TableStep
<1> QED
  BY <1>1, <1>2, <1>3, <1>4, <1>5, <1>6, <1>7 DEF Suspended

LEMMA StepSound ==
    ASSUME Sound, NEW r \in Calls, TableStep(r), CallStep(r), Suspended(r)'
    PROVE  Sound'
<1>1. \A q \in Calls : Suspended(q)'
  BY OthersStaySuspended
<1>2. TypeOK'
  BY DEF Sound, TypeOK, TableStep, CallStep, Ids
<1>3. ASSUME NEW u \in ids'
      PROVE  users'[u].wallet # "none" /\ (users[u].seed # None \/ HasOtherMethod(u))'
  <2>1. CASE u \in ids
    <3>1. users[u].seed # None \/ HasOtherMethod(u)
      BY <2>1 DEF Sound
    <3> QED
      BY <2>1, <3>1 DEF TableStep, Keeps, WaysIn, HasOtherMethod
  <2>2. CASE u \notin ids
    BY <1>3, <2>2 DEF TableStep, WaysIn, HasOtherMethod
  <2> QED
    BY <2>1, <2>2
<1> QED
  BY <1>1, <1>2, <1>3 DEF Sound

-----------------------------------------------------------------------------
(* The forms that a statement has.                                         *)

LEMMA UnchangedTable ==
    ASSUME Sound, NEW r \in Calls, UNCHANGED <<ids, users, replaced, released>>
    PROVE  TableStep(r)
<1>1. \A u \in ids : Keeps(u, users[u])
  BY DEF Sound, TypeOK, Keeps
<1>2. \A f, v : Taken(f, v) => Taken(f, v)'
  BY DEF Taken, Holds, Ids
<1> QED
  BY <1>1, <1>2 DEF TableStep, Sound, TypeOK

\* A statement that only reads goes on.
LEMMA ReadingSound ==
    ASSUME Sound, NEW r \in Calls, NEW label \in Labels, Reading(r, label),
           \/ UNCHANGED found
           \/ \E u \in Maybe(Ids) : found' = [found EXCEPT ![r] = u],
           \/ UNCHANGED mail
           \/ \E m \in Maybe(Values) : mail' = [mail EXCEPT ![r] = m],
           \/ UNCHANGED current
           \/ \E u \in Maybe(Ids) : current' = [current EXCEPT ![r] = u],
           Suspended(r)'
    PROVE  Sound'
<1>1. TableStep(r)
  BY UnchangedTable DEF Reading
<1>2. CallStep(r)
  BY DEF Reading, GoTo, CallStep, Sound, TypeOK
<1> QED
  BY <1>1, <1>2, StepSound

LEMMA AnswerStep ==
    ASSUME Sound, NEW r \in Calls, NEW a \in Ids \cup {Refused}, Answer(r, a),
           UNCHANGED <<current, found, mail>>
    PROVE  CallStep(r) /\ Suspended(r)'
<1>1. CallStep(r)
  BY DEF Answer, GoTo, CallStep, Sound, TypeOK, Labels, Maybe
<1>2. pc'[r] = "done" /\ answer'[r] = a
  BY DEF Answer, GoTo, Sound, TypeOK
<1>3. a # None
  BY UserTableAssumption DEF UserTableAssumption
<1> QED
  BY <1>1, <1>2, <1>3 DEF Suspended, At

\* One that only reads is the last.
LEMMA EndingSound ==
    ASSUME Sound, NEW r \in Calls, NEW a \in Ids \cup {Refused}, Ending(r, a)
    PROVE  Sound'
  BY UnchangedTable, AnswerStep, StepSound DEF Ending

\* A statement that writes a row remembers the password it takes off.
LEMMA PasswordsReplaced ==
    ASSUME Sound, NEW u \in Ids, NEW row \in Rows, Put(u, row)
    PROVE  /\ replaced \subseteq replaced'
           /\ replaced' \subseteq Ids \X Maybe(Values)
           /\ row.password = users[u].password \/ <<u, users[u].password>> \in replaced'
<1>1. replaced' = replaced \cup ({<<u, users[u].password>>} \ {<<u, row.password>>})
  BY DEF Put
<1>2. <<u, users[u].password>> \in Ids \X Maybe(Values) /\ replaced \subseteq Ids \X Maybe(Values)
  BY DEF Sound, TypeOK, Rows
<1> QED
  BY <1>1, <1>2

\* The last one writes the row of an account that there is.
LEMMA SavingSound ==
    ASSUME Sound, NEW r \in Calls, NEW u, NEW row,
           u \in ids => Keeps(u, row),
           Saving(r, u, row)
    PROVE  Sound'
<1>1. CASE u \in ids /\ Unique(u, row)
  <2>1. /\ u \in ids /\ Put(u, row) /\ released' = released \cup Lost(u, row)
        /\ Answer(r, u) /\ UNCHANGED <<current, found, mail>>
    BY <1>1 DEF Saving
  <2>2. u \in Ids /\ row \in Rows /\ users \in [Ids -> Rows]
    BY <2>1 DEF Sound, TypeOK, Keeps
  <2>3. ids' = ids /\ users'[u] = row /\ \A v \in Ids \ {u} : users'[v] = users[v]
    BY <2>1, <2>2 DEF Put
  <2>4. \A v \in ids : Keeps(v, users'[v])
    BY <2>1, <2>3 DEF Sound, TypeOK, Keeps
  <2>5. Lost(u, row) \subseteq Values
    BY <2>2 DEF Lost, UniqueFields, Rows, Maybe
  <2>6. ASSUME NEW f \in UniqueFields, NEW v \in Values, Taken(f, v)
        PROVE  Taken(f, v)' \/ v \in released'
    <3>1. PICK w \in Ids : Holds(w, f, v)
      BY <2>6 DEF Taken
    <3>2. CASE users'[w][f] = v
      BY <3>1, <3>2, <2>3 DEF Taken, Holds, Ids
    <3>3. CASE users'[w][f] # v
      <4>1. w = u /\ users[u][f] # row[f]
        BY <3>1, <3>3, <2>3 DEF Holds
      <4> QED
        BY <4>1, <3>1, <2>1 DEF Lost, Holds
    <3> QED
      BY <3>2, <3>3
  <2>7. TableStep(r)
    <3>1. users' \in [Ids -> Rows]
      BY <2>1, <2>2 DEF Put
    <3>2. replaced \subseteq replaced' /\ replaced' \subseteq Ids \X Maybe(Values)
      BY <2>1, <2>2, PasswordsReplaced
    <3>3. \A v \in ids :
            users'[v].password = users[v].password \/ <<v, users[v].password>> \in replaced'
      BY <2>1, <2>2, <2>3, PasswordsReplaced DEF Ids, Sound, TypeOK
    <3> QED
      BY <2>1, <2>3, <2>4, <2>5, <2>6, <3>1, <3>2, <3>3 DEF TableStep, Sound, TypeOK
  <2> QED
    BY <2>1, <2>2, <2>7, AnswerStep, StepSound
<1>2. CASE ~(u \in ids /\ Unique(u, row))
  BY <1>2, EndingSound DEF Saving
<1> QED
  BY <1>1, <1>2

-----------------------------------------------------------------------------
(* The statements.                                                         *)

\* A call that waits for a statement is not answered, and its row not created.
LEMMA Pending ==
    ASSUME Sound, NEW r \in Calls, pc[r] # "done"
    PROVE  answer[r] = None /\ r \notin ids
  BY DEF Sound, Suspended, At

LEMMA FirstLabelSound ==
    ASSUME NEW r \in Calls
    PROVE  /\ FirstLabel(r) \in {"check", "insert", "upsert", "find"}
           /\ FirstLabel(r) = "check" => r \in Creators
           /\ FirstLabel(r) = "insert" => r \in SeedRegistrations
           /\ FirstLabel(r) = "upsert" => r \in XLogins
  BY DEF FirstLabel, Creators

LEMMA InitSound == Init => Sound
<1> SUFFICES ASSUME Init PROVE Sound
  OBVIOUS
<1> USE DEF Init
<1>1. PICK S \in Scenarios :
        pc = [r \in Calls |->
                 IF r \notin S THEN "never"
                 ELSE IF r \in MustAuthenticate \cup MayAuthenticate THEN "application"
                 ELSE FirstLabel(r)]
  OBVIOUS
<1>2. TypeOK
  <2>1. pc \in [Calls -> Labels]
    BY <1>1, FirstLabelSound DEF Labels
  <2>2. Blank \in Rows
    BY DEF Blank, Rows, Maybe, Roles
  <2>3. users \in [Ids -> Rows] /\ ids \subseteq Ids
    BY <2>2, UserTableAssumption DEF UserTableAssumption, TableInit, Ids
  <2>4. replaced \subseteq Ids \X Maybe(Values)
    BY DEF TableInit
  <2> QED
    BY <2>1, <2>3, <2>4 DEF TypeOK, Maybe
<1>3. \A u \in ids : users[u].wallet # "none" /\ (users[u].seed # None \/ HasOtherMethod(u))
  <2> SUFFICES ASSUME NEW u \in Given
               PROVE  users[u].wallet # "none" /\ (users[u].seed # None \/ HasOtherMethod(u))
    BY DEF TableInit
  <2>1. users[u] = GivenRow[u]
    BY DEF TableInit, Ids
  <2> QED
    BY <2>1, UserTableAssumption DEF UserTableAssumption, HasOtherMethod
<1>4. ASSUME NEW r \in Calls PROVE Suspended(r)
  <2>1. r \notin ids /\ answer[r] = None /\ pc[r] # "done"
    BY <1>1, RequestSound, FirstLabelSound DEF TableInit
  <2>2. pc[r] \in {"never", "application", "check", "insert", "upsert", "find"}
    BY <1>1, FirstLabelSound
  <2>3. pc[r] = "check" => r \in Creators
    BY <1>1, FirstLabelSound
  <2>4. pc[r] = "insert" => r \in SeedRegistrations
    BY <1>1, FirstLabelSound
  <2>5. pc[r] = "upsert" => r \in XLogins
    BY <1>1, FirstLabelSound
  <2>6. ~(r \in Updates /\ pc[r] = "find")
    BY <1>1 DEF MustAuthenticate
  <2>7. r \in SeedRegistrations => r \in SignUps /\ r \notin NostrLogins
    BY DEF SignUps, SeedRegistrations, NostrLogins, Of
  <2>8. pc[r] = "application" => r \in MustAuthenticate \cup MayAuthenticate
    BY <1>1, FirstLabelSound
  <2> QED
    BY <2>1, <2>2, <2>3, <2>4, <2>5, <2>6, <2>7, <2>8 DEF Suspended, At
<1> QED
  BY <1>2, <1>3, <1>4 DEF Sound

\* auth() lets a call go on to its first statement as user u, or as nobody.
LEMMA GoOnSound ==
    ASSUME Sound, NEW r \in Calls, NEW u \in Maybe(Ids),
           r \in MustAuthenticate => u \in ids /\ Admits(r, u),
           r \in MustAuthenticate \cup MayAuthenticate,
           pc[r] # "done",
           current' = [current EXCEPT ![r] = u],
           Reading(r, FirstLabel(r)),
           UNCHANGED <<found, mail>>
    PROVE  Sound'
<1>1. answer[r] = None /\ r \notin ids
  BY Pending
<1>2. /\ pc'[r] = FirstLabel(r) /\ current'[r] = u /\ UNCHANGED <<ids, users, replaced, answer, released>>
  BY DEF Reading, GoTo, Sound, TypeOK
<1>3. FirstLabel(r) \in Labels
  BY FirstLabelSound DEF Labels
<1>4. r \notin SeedRegistrations
  BY DEF MustAuthenticate, MayAuthenticate, Of, SeedRegistrations, Creations, Reads, Updates,
     SeedAdditions, Deletions, NostrLogins, XLogins
<1>5. r \in Updates => Target(r) = u \/ (u \in ids /\ users[u].role = "ADMIN")
  <2> SUFFICES ASSUME r \in Updates PROVE Target(r) = u \/ (u \in ids /\ users[u].role = "ADMIN")
    OBVIOUS
  <2>1. u \in ids /\ Admits(r, u) /\ users[u].role \in Roles
    BY DEF MustAuthenticate, Sound, TypeOK, Rows
  <2>2. Needs(r) = {"users_write"}
    BY DEF Needs, Updates, Creations, Reads, Of, UpdateUserRoute
  <2>3. ASSUME NEW role \in Roles, {"users_write"} \subseteq Rights(role)
        PROVE  role = "ADMIN"
    <3>1. "users_write" \in Rights(role)
      BY <2>3
    <3>2. CASE role = "USER"
      BY <3>1, <3>2 DEF Rights
    <3>3. CASE role = "APPLICATION"
      BY <3>1, <3>3 DEF Rights
    <3> QED
      BY <3>2, <3>3 DEF Roles
  <2>4. {"users_write"} \subseteq Rights(users[u].role) \/ Request[r].target = u
    BY <2>1, <2>2 DEF Admits, Permits
  <2> QED
    BY <2>1, <2>3, <2>4 DEF Target
<1>6. Suspended(r)'
  BY <1>1, <1>2, <1>4, <1>5, FirstLabelSound DEF Suspended, At, Target
<1> QED
  BY <1>3, <1>6, ReadingSound

LEMMA AuthenticateSound == ASSUME Sound, NEW r \in Calls, Authenticate(r) PROVE Sound'
<1> USE DEF At
<1>1. r \in MustAuthenticate \cup MayAuthenticate /\ answer[r] = None /\ r \notin ids
  BY Pending DEF Sound, Suspended, Authenticate, AuthenticateApplication, NoApplication,
     AuthenticateUser, NotAuthenticated, Anonymous
<1>2. CASE AuthenticateApplication(r)
  <2>1. PICK u \in Ids : IsApplication(r, u) /\ Admits(r, u) /\ current' = [current EXCEPT ![r] = u]
    BY <1>2 DEF AuthenticateApplication
  <2>2. u \in ids
    BY <2>1 DEF IsApplication, Holds
  <2> QED
    BY <1>1, <1>2, <2>1, <2>2, GoOnSound DEF AuthenticateApplication, Maybe
<1>3. CASE NoApplication(r)
  <2>1. pc'[r] = "jwt" /\ UNCHANGED <<ids, users, replaced, answer, released, current, found, mail>>
    BY <1>3 DEF NoApplication, Reading, GoTo, Sound, TypeOK
  <2>2. Suspended(r)'
    BY <1>1, <2>1 DEF Suspended
  <2> QED
    BY <1>3, <2>1, <2>2, ReadingSound DEF NoApplication, Labels
<1>4. CASE AuthenticateUser(r)
  <2>1. Request[r].token \in ids /\ Request[r].token \in Maybe(Ids)
    BY <1>4 DEF AuthenticateUser, Sound, TypeOK, Maybe
  <2> QED
    BY <1>1, <1>4, <2>1, GoOnSound DEF AuthenticateUser
<1>5. CASE NotAuthenticated(r)
  BY <1>5, EndingSound DEF NotAuthenticated
<1>6. CASE Anonymous(r)
  <2>1. r \in MayAuthenticate /\ r \notin MustAuthenticate
    BY <1>6 DEF Anonymous, MayAuthenticate, MustAuthenticate, Of, Creations, Reads, Updates,
       SeedAdditions, Deletions, NostrLogins, XLogins
  <2>2. Request[r].session \in Maybe(Ids)
    BY RequestSound DEF Requests
  <2> QED
    BY <1>1, <1>6, <2>1, <2>2, GoOnSound DEF Anonymous
<1> QED
  BY <1>2, <1>3, <1>4, <1>5, <1>6 DEF Authenticate

-----------------------------------------------------------------------------
(* Creating users.                                                         *)

LEMMA NewRowSound ==
    ASSUME NEW r \in SignUps
    PROVE  /\ NewRow(r) \in Rows
           /\ NewRow(r).wallet # "none"
           /\ \E f \in WaysIn : NewRow(r)[f] # None
           /\ NewRow(r)[Field(r)] = Identity(r)
           /\ \A f \in UniqueFields :
                NewRow(r)[f] = None \/ (f = Field(r) /\ NewRow(r)[f] = Identity(r))
<1> DEFINE I == Identity(r)
           P == Request[r].password
           R == Request[r].role
<1>1. r \in Calls /\ r \in Ids /\ r # None
  BY RequestSound DEF SignUps, Creators, Registrations, Creations, MagicRegistrations,
     MagicLogins, SeedRegistrations, NostrLogins, XLogins, Provisions, Of
<1>2. P \in Maybe(Values) /\ R \in Roles
  BY <1>1, RequestSound DEF Requests
<1>3. /\ r \in SeedRegistrations \/ (I \in Values /\ I # None)
      /\ r \in SeedRegistrations => I = None
  BY <1>1, RequestSound, UserTableAssumption DEF UserTableAssumption, Identity
<1>4. NewWallet \in {"enabled", "disabled"} /\ None \in Maybe(Values) /\ r \in Maybe(Ids)
      /\ None \in Maybe(Ids) /\ {"USER", "ADMIN", "APPLICATION"} = Roles
  BY <1>1 DEF NewWallet, Maybe, Roles
<1>5. I \in Values => I \in Maybe(Values)
  BY DEF Maybe
<1> HIDE DEF I, P, R
<1>6. CASE r \in Registrations \cup Creations
  <2>1. NewRow(r) = [Blank EXCEPT !.email = I, !.password = P, !.role = R, !.wallet = NewWallet]
    BY <1>6 DEF NewRow, I, P, R, Of, Registrations, Creations, MagicRegistrations, MagicLogins,
       SeedRegistrations, NostrLogins, XLogins, Provisions
  <2>2. r \notin SeedRegistrations
    BY <1>6 DEF Of, Registrations, Creations, SeedRegistrations
  <2>3. Field(r) = "email"
    BY <1>6 DEF Field, Of, Registrations, Creations, NostrLogins, XLogins
  <2> QED
    BY <1>2, <1>3, <1>4, <1>5, <2>1, <2>2, <2>3 DEF Blank, Rows, WaysIn, UniqueFields, I
<1>7. CASE r \in MagicRegistrations \cup MagicLogins
  <2>1. NewRow(r) = [Blank EXCEPT !.email = I, !.wallet = NewWallet]
    BY <1>7 DEF NewRow, I, Of, Registrations, Creations, MagicRegistrations, MagicLogins,
       SeedRegistrations, NostrLogins, XLogins, Provisions
  <2>2. r \notin SeedRegistrations
    BY <1>7 DEF Of, MagicRegistrations, MagicLogins, SeedRegistrations
  <2>3. Field(r) = "email"
    BY <1>7 DEF Field, Of, MagicRegistrations, MagicLogins, NostrLogins, XLogins
  <2> QED
    BY <1>2, <1>3, <1>4, <1>5, <2>1, <2>2, <2>3 DEF Blank, Rows, WaysIn, UniqueFields, I
<1>8. CASE r \in SeedRegistrations
  <2>1. NewRow(r) = [Blank EXCEPT !.seed = r, !.wallet = NewWallet]
    BY <1>8 DEF NewRow, Of, Registrations, Creations, MagicRegistrations, MagicLogins,
       SeedRegistrations, NostrLogins, XLogins, Provisions
  <2>3. Field(r) = "email"
    BY <1>8 DEF Field, Of, SeedRegistrations, NostrLogins, XLogins
  <2> QED
    BY <1>1, <1>2, <1>3, <1>4, <1>8, <2>1, <2>3 DEF Blank, Rows, WaysIn, UniqueFields, I
<1>9. CASE r \in NostrLogins
  <2>1. NewRow(r) = [Blank EXCEPT !.nostrPubkey = I, !.wallet = NewWallet]
    BY <1>9 DEF NewRow, I, Of, Registrations, Creations, MagicRegistrations, MagicLogins,
       SeedRegistrations, NostrLogins, XLogins, Provisions
  <2>2. r \notin SeedRegistrations
    BY <1>9 DEF Of, NostrLogins, SeedRegistrations
  <2>3. Field(r) = "nostrPubkey"
    BY <1>9 DEF Field, Of, NostrLogins
  <2> QED
    BY <1>2, <1>3, <1>4, <1>5, <2>1, <2>2, <2>3 DEF Blank, Rows, WaysIn, UniqueFields, I
<1>10. CASE r \in XLogins
  <2>1. NewRow(r) = [Blank EXCEPT !.twitterId = I, !.wallet = NewWallet]
    BY <1>10 DEF NewRow, I, Of, Registrations, Creations, MagicRegistrations, MagicLogins,
       SeedRegistrations, NostrLogins, XLogins, Provisions
  <2>2. r \notin SeedRegistrations
    BY <1>10 DEF Of, XLogins, SeedRegistrations
  <2>3. Field(r) = "twitterId"
    BY <1>10 DEF Field, Of, NostrLogins, XLogins
  <2> QED
    BY <1>2, <1>3, <1>4, <1>5, <2>1, <2>2, <2>3 DEF Blank, Rows, WaysIn, UniqueFields, I
<1>11. CASE r \in Provisions
  <2>1. NewRow(r) = [Blank EXCEPT !.email = I, !.password = P, !.role = "APPLICATION",
                                  !.isEmailVerified = TRUE, !.wallet = "disabled"]
    BY <1>11 DEF NewRow, I, P, Of, Registrations, Creations, MagicRegistrations, MagicLogins,
       SeedRegistrations, NostrLogins, XLogins, Provisions
  <2>2. r \notin SeedRegistrations
    BY <1>11 DEF Of, Provisions, SeedRegistrations
  <2>3. Field(r) = "email"
    BY <1>11 DEF Field, Of, Provisions, NostrLogins, XLogins
  <2> QED
    BY <1>2, <1>3, <1>4, <1>5, <2>1, <2>2, <2>3 DEF Blank, Rows, WaysIn, UniqueFields, I
<1> QED
  BY <1>6, <1>7, <1>8, <1>9, <1>10, <1>11 DEF SignUps, Creators

\* Somebody was faster: the call looks again, or is refused.
LEMMA LoseRaceSound ==
    ASSUME Sound, NEW r \in Calls, pc[r] \in {"check", "insert"}, LoseRace(r),
           Taken(Field(r), Identity(r))
    PROVE  Sound'
<1>1. CASE r \in Retrying
  <2>1. pc'[r] = "refind" /\ UNCHANGED <<ids, users, replaced, answer, released, current, found, mail>>
    BY <1>1 DEF LoseRace, Reading, GoTo, Sound, TypeOK
  <2>2. r \in MagicLogins \/ (r \in NostrLogins /\ current[r] = None)
    BY <1>1 DEF Retrying, Sound, Suspended, At, Creators, Registrations, Creations,
       MagicRegistrations, MagicLogins, NostrLogins, Of
  <2>3. r \notin Updates
    BY <1>1 DEF Retrying, Updates, MagicLogins, NostrLogins, Of
  <2>4. Taken(Field(r), Identity(r))'
    BY <2>1 DEF Taken, Holds, Ids, Field, Identity
  <2>5. answer[r] = None /\ r \notin ids
    BY Pending
  <2>6. Suspended(r)'
    BY <2>1, <2>2, <2>3, <2>4, <2>5 DEF Suspended, At
  <2> QED
    BY <1>1, <2>1, <2>6, ReadingSound DEF LoseRace, Labels
<1>2. CASE r \notin Retrying
  BY <1>2, EndingSound DEF LoseRace
<1> QED
  BY <1>1, <1>2

LEMMA CreateUserSound == ASSUME Sound, NEW r \in Calls, CreateUser(r) PROVE Sound'
<1>1. pc[r] = "insert" /\ r \in SignUps /\ r \notin ids
  BY Pending DEF CreateUser, At, Sound, Suspended
<1>2. CASE Unique(r, NewRow(r))
  <2>1. /\ ids' = ids \cup {r} /\ users' = [users EXCEPT ![r] = NewRow(r)]
        /\ Put(r, NewRow(r)) /\ Answer(r, r) /\ UNCHANGED <<current, found, mail, released>>
    BY <1>2 DEF CreateUser, Put
  <2>2. NewRow(r) \in Rows /\ r \in Ids
    BY <1>1, NewRowSound, RequestSound
  <2>3. users' \in [Ids -> Rows] /\ users'[r] = NewRow(r)
    BY <2>1, <2>2 DEF Sound, TypeOK
  <2>4. \A u \in ids : users'[u] = users[u]
    BY <1>1, <2>1 DEF Sound, TypeOK
  <2>5. \A u \in ids : Keeps(u, users'[u])
    BY <2>4 DEF Keeps, Sound, TypeOK
  <2>6. \A f \in UniqueFields, v \in Values : Taken(f, v) => Taken(f, v)'
    BY <2>1, <2>4 DEF Taken, Holds, Ids
  <2>7. TableStep(r)
    <3>1. replaced \subseteq replaced' /\ replaced' \subseteq Ids \X Maybe(Values)
      BY <2>1, <2>2, PasswordsReplaced
    <3> QED
      BY <1>1, <2>1, <2>3, <2>4, <2>5, <2>6, <3>1, NewRowSound DEF TableStep, Sound, TypeOK
  <2> QED
    BY <2>1, <2>2, <2>7, AnswerStep, StepSound
<1>3. CASE ~Unique(r, NewRow(r))
  <2>1. Taken(Field(r), Identity(r))
    BY <1>1, <1>3, NewRowSound DEF Unique, Holds, Taken
  <2> QED
    BY <1>1, <1>3, <2>1, LoseRaceSound DEF CreateUser
<1> QED
  BY <1>2, <1>3

LEMMA CreateSound == ASSUME Sound, NEW r \in Calls, Create(r) PROVE Sound'
<1>1. CASE FindUser(r)
  BY <1>1, EndingSound DEF FindUser
<1>2. CASE FindNobody(r)
  <2>1. PICK label \in {"insert", "check"} :
          /\ label = IF r \in NostrLogins THEN "insert" ELSE "check"
          /\ Reading(r, label) /\ UNCHANGED <<current, found, mail>>
    BY <1>2 DEF FindNobody
  <2>2. pc'[r] = label /\ UNCHANGED <<ids, users, replaced, answer, released, current, found, mail>>
    BY <2>1 DEF Reading, GoTo, Sound, TypeOK
  <2>3. /\ r \in SignUps /\ r \in Creators \cup MagicLogins \cup NostrLogins
        /\ r \in NostrLogins => current[r] = None
    BY <1>2 DEF FindNobody, Finders, SignUps, Creators, MagicLogins, MagicRegistrations,
       NostrLogins, Of
  <2>4. answer[r] = None /\ r \notin ids
    BY <1>2, Pending DEF FindNobody, At
  <2>5. Suspended(r)'
    BY <2>1, <2>2, <2>3, <2>4 DEF Suspended, At
  <2> QED
    BY <2>1, <2>5, ReadingSound DEF Labels
<1>3. CASE FindNobodyAgain(r)
  BY <1>3, EndingSound DEF FindNobodyAgain
<1>4. CASE CheckEmail(r)
  <2>1. pc[r] = "check" /\ r \in Creators \cup MagicLogins /\ answer[r] = None /\ r \notin ids
    BY <1>4, Pending DEF CheckEmail, At, Sound, Suspended
  <2>2. Field(r) = "email" /\ r \in SignUps /\ r \notin NostrLogins
    BY <2>1 DEF Field, SignUps, Creators, Registrations, Creations, MagicRegistrations,
       MagicLogins, NostrLogins, XLogins, Of
  <2>3. CASE Taken("email", Identity(r))
    BY <1>4, <2>1, <2>2, <2>3, LoseRaceSound DEF CheckEmail
  <2>4. CASE ~Taken("email", Identity(r))
    <3>1. Reading(r, "insert") /\ UNCHANGED <<current, found, mail>>
      BY <1>4, <2>4 DEF CheckEmail
    <3>2. pc'[r] = "insert" /\ UNCHANGED <<ids, users, replaced, answer, released, current, found, mail>>
      BY <3>1 DEF Reading, GoTo, Sound, TypeOK
    <3>3. Suspended(r)'
      BY <2>1, <2>2, <3>2 DEF Suspended, At
    <3> QED
      BY <3>1, <3>3, ReadingSound DEF Labels
  <2> QED
    BY <2>3, <2>4
<1>5. CASE CreateUser(r)
  BY <1>5, CreateUserSound
<1> QED
  BY <1>1, <1>2, <1>3, <1>4, <1>5 DEF Create

-----------------------------------------------------------------------------
(* Writing to accounts that there are.                                     *)

\* The rows that the handlers write keep what must be kept.
LEMMA RowsKept ==
    ASSUME Sound, NEW r \in Calls, NEW u \in ids
    PROVE  /\ r \in NostrLogins \cup XLogins => Keeps(u, Linked(r, u))
           /\ Keeps(u, Amended(r, u))
           /\ Keeps(u, Seeded(r, u))
           /\ users[u].role = "APPLICATION" => Keeps(u, Renewed(r, u)) /\ Keeps(u, Confirmed(u))
           /\ users[u].role # "APPLICATION" => Keeps(u, Promoted(u))
<1>1. users[u] \in Rows /\ users[u].wallet # "none"
  BY DEF Sound, TypeOK
<1>2. /\ Request[r].email \in Maybe(Values) /\ Request[r].newPassword \in Maybe(Values)
      /\ Request[r].password \in Maybe(Values)
  BY RequestSound DEF Requests
<1>3. r \in Maybe(Ids) /\ r # None /\ {"USER", "ADMIN", "APPLICATION"} = Roles
  BY RequestSound DEF Maybe, Roles
<1>4. ASSUME r \in NostrLogins \cup XLogins PROVE Keeps(u, Linked(r, u))
  <2>1. Identity(r) \in Maybe(Values) /\ Identity(r) # None
    BY <1>4, RequestSound, UserTableAssumption DEF UserTableAssumption, SignIns, Maybe,
       SeedRegistrations, NostrLogins, XLogins, Of, Identity
  <2>2. CASE Field(r) = "nostrPubkey"
    BY <1>1, <2>1, <2>2 DEF Linked, Keeps, Rows, WaysIn
  <2>3. CASE Field(r) = "twitterId"
    BY <1>1, <2>1, <2>3 DEF Linked, Keeps, Rows, WaysIn
  <2> QED
    BY <1>4, <2>2, <2>3 DEF Field
<1>5. Keeps(u, Amended(r, u))
  BY <1>1, <1>2 DEF Amended, Keeps, Rows, WaysIn
<1>6. Keeps(u, Seeded(r, u))
  BY <1>1, <1>3 DEF Seeded, Keeps, Rows, WaysIn
<1>7. ASSUME users[u].role = "APPLICATION"
      PROVE  Keeps(u, Renewed(r, u)) /\ Keeps(u, Confirmed(u))
  BY <1>1, <1>2, <1>7 DEF Renewed, Confirmed, Keeps, Rows, WaysIn
<1>8. ASSUME users[u].role # "APPLICATION" PROVE Keeps(u, Promoted(u))
  BY <1>1, <1>3, <1>8 DEF Promoted, Keeps, Rows, WaysIn
<1> QED
  BY <1>4, <1>5, <1>6, <1>7, <1>8

\* A statement that only reads, and after which only the label matters.
LEMMA GoingOn ==
    ASSUME Sound, NEW r \in Calls, NEW label \in Labels, Reading(r, label),
           UNCHANGED <<current, mail>>,
           UNCHANGED found \/ \E u \in Maybe(Ids) : found' = [found EXCEPT ![r] = u],
           pc[r] # "done", r \notin Updates,
           \/ label = "insert" /\ r \in SignUps /\ (r \in NostrLogins => current[r] = None)
           \/ /\ label = "link" /\ r \in NostrLogins \cup XLogins
              /\ r \in NostrLogins => current[r] # None
           \/ label = "login" /\ r \in PasswordLogins
           \/ label = "delete" /\ r \in Deletions
    PROVE  Sound'
<1>1. answer[r] = None /\ r \notin ids
  BY Pending
<1>2. pc'[r] = label /\ UNCHANGED <<ids, users, replaced, answer, released, current>>
  BY DEF Reading, GoTo, Sound, TypeOK
<1>3. Suspended(r)'
  BY <1>1, <1>2 DEF Suspended, At
<1> QED
  BY <1>3, ReadingSound

LEMMA ConnectSound == ASSUME Sound, NEW r \in Calls, Connect(r) PROVE Sound'
<1> USE DEF At
<1>1. pc[r] # "done" /\ (r \in NostrLogins \cup XLogins => r \notin Updates /\ r \in SignUps)
  BY DEF Connect, FindLinkedUser, FindUpsert, Link, SignUps, NostrLogins, XLogins, Updates, Of
<1>2. CASE FindLinkedUser(r)
  <2>1. current[r] \in Ids
    BY <1>2 DEF FindLinkedUser, Sound, TypeOK, Maybe
  <2>2. CASE Taken("nostrPubkey", Identity(r))
    <3>1. PICK a \in Ids \cup {Refused} : Ending(r, a)
      BY <1>2, <2>1, <2>2 DEF FindLinkedUser
    <3> QED
      BY <3>1, EndingSound
  <2>3. CASE ~Taken("nostrPubkey", Identity(r))
    <3>1. /\ found' = [found EXCEPT ![r] = current[r]] /\ Reading(r, "link")
          /\ UNCHANGED <<current, mail>> /\ r \in NostrLogins /\ current[r] # None
      BY <1>2, <2>3 DEF FindLinkedUser
    <3> QED
      BY <1>1, <2>1, <3>1, GoingOn DEF Labels, Maybe
  <2> QED
    BY <2>2, <2>3
<1>3. CASE FindUpsert(r)
  <2>1. r \in XLogins /\ r \notin NostrLogins
    BY <1>3 DEF FindUpsert, Sound, Suspended, XLogins, NostrLogins, Of
  <2>2. CASE Reading(r, "insert") /\ UNCHANGED <<current, found, mail>>
    BY <1>1, <2>1, <2>2, GoingOn DEF Labels
  <2>3. CASE \E u \in Ids : /\ found' = [found EXCEPT ![r] = u] /\ Reading(r, "link")
                            /\ UNCHANGED <<current, mail>>
    BY <1>1, <2>1, <2>3, GoingOn DEF Labels, Maybe
  <2> QED
    BY <1>3, <2>2, <2>3 DEF FindUpsert
<1>4. CASE Link(r)
  <2>1. r \in NostrLogins \cup XLogins
    BY <1>4 DEF Link, Sound, Suspended
  <2> QED
    BY <1>4, <2>1, RowsKept, SavingSound DEF Link
<1> QED
  BY <1>2, <1>3, <1>4 DEF Connect

\* The statements of updateUserById: whoever may still may.
LEMMA UpdateGoesOn ==
    ASSUME Sound, NEW r \in Updates, NEW label \in {"email", "own", "verify", "amend"},
           pc[r] \in {"find", "email", "own", "verify"},
           Reading(r, label), UNCHANGED <<current, found>>,
           UNCHANGED mail \/ \E m \in Maybe(Values) : mail' = [mail EXCEPT ![r] = m]
    PROVE  Sound'
<1>1. r \in Calls
  BY DEF Updates, Of
<1>2. answer[r] = None /\ r \notin ids
  BY <1>1, Pending
<1>3. pc'[r] = label /\ UNCHANGED <<ids, users, replaced, answer, released, current>>
  BY <1>1 DEF Reading, GoTo, Sound, TypeOK
<1>4. Suspended(r)
  BY <1>1 DEF Sound
<1>5. Suspended(r)'
  BY <1>1, <1>2, <1>3, <1>4 DEF Suspended, At, Target
<1> QED
  BY <1>1, <1>5, ReadingSound DEF Labels

LEMMA UpdateSound == ASSUME Sound, NEW r \in Calls, Update(r) PROVE Sound'
<1> USE DEF At
<1>1. r \in Updates
  BY DEF Sound, Suspended, Update, FindTarget, CheckNewEmail, ReadOwnPassword, VerifyPassword,
     AmendUser
<1>2. CASE FindTarget(r)
  <2>1. CASE Target(r) \in ids
    <3>1. users[Target(r)].email \in Maybe(Values)
      BY <2>1 DEF Sound, TypeOK, Rows
    <3> QED
      BY <1>1, <1>2, <2>1, <3>1, UpdateGoesOn DEF FindTarget
  <2>2. CASE Target(r) \notin ids
    BY <1>2, <2>2, EndingSound DEF FindTarget
  <2> QED
    BY <2>1, <2>2
<1>3. CASE CheckNewEmail(r)
  <2>1. CASE Taken("email", Request[r].email)
    BY <1>3, <2>1, EndingSound DEF CheckNewEmail
  <2>2. CASE ~Taken("email", Request[r].email)
    <3>1. \E label \in {"own", "amend"} : Reading(r, label) /\ UNCHANGED <<current, found, mail>>
      BY <1>3, <2>2 DEF CheckNewEmail
    <3> QED
      BY <1>1, <1>3, <3>1, UpdateGoesOn DEF CheckNewEmail
  <2> QED
    BY <2>1, <2>2
<1>4. CASE ReadOwnPassword(r)
  <2>1. \/ Ending(r, Refused)
        \/ \E label \in {"amend", "verify"} :
             Reading(r, label) /\ UNCHANGED <<current, found, mail>>
    BY <1>4 DEF ReadOwnPassword
  <2> QED
    BY <1>1, <1>4, <2>1, UpdateGoesOn, EndingSound DEF ReadOwnPassword
<1>5. CASE VerifyPassword(r)
  <2>1. \/ Ending(r, Refused)
        \/ Reading(r, "amend") /\ UNCHANGED <<current, found, mail>>
    BY <1>5 DEF VerifyPassword
  <2> QED
    BY <1>1, <1>5, <2>1, UpdateGoesOn, EndingSound DEF VerifyPassword
<1>6. CASE AmendUser(r)
  BY <1>6, RowsKept, SavingSound DEF AmendUser
<1> QED
  BY <1>2, <1>3, <1>4, <1>5, <1>6 DEF Update

-----------------------------------------------------------------------------
(* The other operations.                                                   *)

LEMMA PasswordLoginSound ==
    ASSUME Sound, NEW r \in Calls, FindPasswordUser(r) \/ LogIn(r) \/ LogInWithSeed(r)
    PROVE  Sound'
<1> USE DEF At
<1>1. CASE FindPasswordUser(r)
  <2>1. r \in PasswordLogins /\ r \notin Updates /\ pc[r] # "done"
    BY <1>1 DEF FindPasswordUser, PasswordLogins, Updates, Of
  <2>2. Ending(r, Refused) \/ (Reading(r, "login") /\ UNCHANGED <<current, found, mail>>)
    BY <1>1 DEF FindPasswordUser
  <2> QED
    BY <2>1, <2>2, GoingOn, EndingSound DEF Labels
<1>2. CASE LogIn(r)
  <2>1. \E a \in Ids \cup {Refused} : Ending(r, a)
    BY <1>2 DEF LogIn
  <2> QED
    BY <2>1, EndingSound
<1>3. CASE LogInWithSeed(r)
  <2>1. \E a \in Ids \cup {Refused} : Ending(r, a)
    BY <1>3 DEF LogInWithSeed, Sound, TypeOK
  <2> QED
    BY <2>1, EndingSound
<1> QED
  BY <1>1, <1>2, <1>3

LEMMA ReadUserSound == ASSUME Sound, NEW r \in Calls, ReadUser(r) PROVE Sound'
<1>1. \E a \in Ids \cup {Refused} : Ending(r, a)
  BY DEF ReadUser, Sound, TypeOK
<1> QED
  BY <1>1, EndingSound

\* An account with one way to sign in that is not its seed phrase keeps it, so
\* what was checked still holds at the write.
LEMMA AddSeedSound ==
    ASSUME Sound, NEW r \in Calls, FindSeedUser(r) \/ AddSeed(r) PROVE Sound'
<1> USE DEF At
<1>1. CASE FindSeedUser(r)
  <2>1. CASE current[r] \in ids /\ SeedMayChange(current[r])
    <3>1. /\ pc'[r] = "seed" /\ UNCHANGED <<ids, users, replaced, answer, released, current, found, mail>>
          /\ r \in SeedAdditions /\ r \notin Updates /\ pc[r] # "done"
      BY <1>1, <2>1 DEF FindSeedUser, Reading, GoTo, Sound, TypeOK, SeedAdditions, Updates, Of
    <3>2. HasOtherMethod(current[r])
      BY <2>1 DEF SeedMayChange, Sound
    <3>3. answer[r] = None /\ r \notin ids
      BY <3>1, Pending
    <3>4. Suspended(r)'
      BY <2>1, <3>1, <3>2, <3>3 DEF Suspended, HasOtherMethod
    <3> QED
      BY <1>1, <2>1, <3>1, <3>4, ReadingSound DEF FindSeedUser, Labels
  <2>2. CASE ~(current[r] \in ids /\ SeedMayChange(current[r]))
    BY <1>1, <2>2, EndingSound DEF FindSeedUser
  <2> QED
    BY <2>1, <2>2
<1>2. CASE AddSeed(r)
  BY <1>2, RowsKept, SavingSound DEF AddSeed
<1> QED
  BY <1>1, <1>2

\* No account is deleted: each has a wallet.
LEMMA DeleteSound ==
    ASSUME Sound, NEW r \in Calls, FindDeleted(r) \/ DeleteUser(r) PROVE Sound'
<1> USE DEF At
<1>1. CASE FindDeleted(r)
  <2>1. r \in Deletions /\ r \notin Updates /\ pc[r] # "done"
    BY <1>1 DEF FindDeleted, Deletions, Updates, Of
  <2>2. Ending(r, Refused) \/ (Reading(r, "delete") /\ UNCHANGED <<current, found, mail>>)
    BY <1>1 DEF FindDeleted
  <2> QED
    BY <2>1, <2>2, GoingOn, EndingSound DEF Labels
<1>2. CASE DeleteUser(r)
  <2>1. Ending(r, Refused)
    BY <1>2 DEF DeleteUser, Deletable, Sound
  <2> QED
    BY <2>1, EndingSound
<1> QED
  BY <1>1, <1>2

LEMMA ProvisionSound ==
    ASSUME Sound, NEW r \in Calls,
           FindApplication(r) \/ RenewApplication(r) \/ ConfirmApplication(r)
    PROVE  Sound'
<1> USE DEF At
<1>1. CASE FindApplication(r)
  <2>1. /\ r \in Provisions /\ r \notin Updates /\ r \in SignUps /\ r \notin NostrLogins
        /\ answer[r] = None /\ r \notin ids /\ pc[r] # "done"
    BY <1>1, Pending DEF FindApplication, Provisions, Updates, SignUps, NostrLogins, Of
  <2>2. CASE Reading(r, "insert") /\ UNCHANGED <<current, found, mail>>
    BY <2>1, <2>2, GoingOn DEF Labels
  <2>3. CASE \E u \in Ids : Holds(u, "email", Identity(r)) /\ Ending(r, Refused)
    BY <2>3, EndingSound
  <2>4. ASSUME NEW u \in Ids, Holds(u, "email", Identity(r)), users[u].role = "APPLICATION",
               found' = [found EXCEPT ![r] = u], UNCHANGED <<current, mail>>,
               NEW label \in {"renew", "confirm"}, Reading(r, label),
               label = "confirm" => PasswordMatches(r, u)
        PROVE  Sound'
    <3>1. /\ pc'[r] = label /\ found'[r] = u /\ u \in ids
          /\ UNCHANGED <<ids, users, replaced, answer, released, current>>
      BY <2>4 DEF Reading, GoTo, Sound, TypeOK, Holds
    <3>2. Suspended(r)'
      BY <2>1, <2>4, <3>1 DEF Suspended, HadPassword, PasswordMatches
    <3> QED
      BY <2>4, <3>2, ReadingSound DEF Labels, Maybe
  <2> QED
    BY <1>1, <2>2, <2>3, <2>4 DEF FindApplication
<1>2. CASE RenewApplication(r)
  <2>1. found[r] \in ids /\ users[found[r]].role = "APPLICATION"
    BY <1>2 DEF RenewApplication, Sound, Suspended
  <2> QED
    BY <1>2, <2>1, RowsKept, SavingSound DEF RenewApplication
<1>3. CASE ConfirmApplication(r)
  <2>1. found[r] \in ids /\ users[found[r]].role = "APPLICATION"
    BY <1>3 DEF ConfirmApplication, Sound, Suspended
  <2> QED
    BY <1>3, <2>1, RowsKept, SavingSound DEF ConfirmApplication
<1> QED
  BY <1>1, <1>2, <1>3

LEMMA PromoteSound ==
    ASSUME Sound, NEW r \in Calls, FindPromoted(r) \/ PromoteUser(r) PROVE Sound'
<1> USE DEF At
<1>1. CASE FindPromoted(r)
  <2>1. /\ r \in Promotions /\ r \notin Updates
        /\ answer[r] = None /\ r \notin ids /\ pc[r] # "done"
    BY <1>1, Pending DEF FindPromoted, Promotions, Updates, Of
  <2>2. CASE \E a \in Ids \cup {Refused} : Ending(r, a)
    BY <2>2, EndingSound
  <2>3. ASSUME NEW u \in Ids, Holds(u, "email", Identity(r)), Promotable(u),
               found' = [found EXCEPT ![r] = u], Reading(r, "promote"),
               UNCHANGED <<current, mail>>
        PROVE  Sound'
    <3>1. /\ pc'[r] = "promote" /\ found'[r] = u /\ u \in ids
          /\ UNCHANGED <<ids, users, replaced, answer, released, current>>
      BY <2>3 DEF Reading, GoTo, Sound, TypeOK, Holds
    <3>2. Suspended(r)'
      BY <2>1, <2>3, <3>1 DEF Suspended, Promotable
    <3> QED
      BY <2>3, <3>2, ReadingSound DEF Labels, Maybe
  <2> QED
    BY <1>1, <2>2, <2>3 DEF FindPromoted
<1>2. CASE PromoteUser(r)
  <2>1. found[r] \in ids /\ users[found[r]].role # "APPLICATION"
    BY <1>2 DEF PromoteUser, Sound, Suspended
  <2> QED
    BY <1>2, <2>1, RowsKept, SavingSound DEF PromoteUser
<1> QED
  BY <1>1, <1>2

LEMMA NextSound == Sound /\ [Next]_vars => Sound'
<1> SUFFICES ASSUME Sound, [Next]_vars PROVE Sound'
  OBVIOUS
<1>1. ASSUME NEW r \in Calls, Other(r) PROVE Sound'
  BY <1>1, PasswordLoginSound, ReadUserSound, AddSeedSound, DeleteSound, ProvisionSound,
     PromoteSound DEF Other
<1>2. CASE UNCHANGED vars
  <2>1. TypeOK' /\ \A r \in Calls : Suspended(r)'
    BY <1>2 DEF vars, callVars, Sound, TypeOK, Suspended, At, Taken, Holds, HasOtherMethod,
       Target, Identity, Field, HadPassword, PasswordMatches
  <2> QED
    BY <1>2, <2>1 DEF vars, callVars, Sound, HasOtherMethod
<1> QED
  BY <1>1, <1>2, AuthenticateSound, CreateSound, ConnectSound, UpdateSound DEF Next

\* Between the statements of a call its handler may rely on what it has found,
\* every user has a wallet and a way to sign in, and no account is deleted.
THEOREM AccountsAreSound == Spec => []Sound
  BY InitSound, NextSound, PTL DEF Spec

-----------------------------------------------------------------------------
(* The forms that the steps of a call have, and what is known when they are *)
(* taken.                                                                  *)

Asking == MagicLogins \cup {n \in NostrLogins : current[n] = None}

Goes(r) == \E label : Reading(r, label) /\ \A q \in Calls \ {r} : current'[q] = current[q]
Refuses(r) == Ending(r, Refused) /\ (r \in Asking => Identity(r) \in released)
Told(r, u) ==
    /\ Ending(r, u)
    /\ \/ r \in Reads /\ u \in ids
       \/ r \in SeedLogins /\ u \in ids /\ users[u].seed = Request[r].target
       \/ /\ r \in SignIns \cup MagicRegistrations \cup Promotions
          /\ Holds(u, Field(r), Identity(r))
Links(r, u) ==
    /\ Saving(r, u, Linked(r, u))
    /\ r \in NostrLogins \cup XLogins
    /\ r \notin Asking
Amends(r) ==
    /\ Saving(r, Target(r), Amended(r, Target(r)))
    /\ r \in Updates
    /\ Target(r) = current[r] \/ users[current[r]].role = "ADMIN"
Reseeds(r) ==
    /\ Saving(r, current[r], Seeded(r, current[r]))
    /\ r \in SeedAdditions
    /\ HasOtherMethod(current[r])
Renews(r, u) ==
    /\ Saving(r, u, Renewed(r, u))
    /\ r \in Provisions
    /\ users[u].role = "APPLICATION"
Confirms(r, u) ==
    /\ Saving(r, u, Confirmed(u))
    /\ r \in Provisions
    /\ users[u].role = "APPLICATION"
    /\ HadPassword(r, u)
Promotes(r, u) ==
    /\ Saving(r, u, Promoted(u))
    /\ r \in Promotions
    /\ users[u].role # "APPLICATION"

Step(r) ==
    \/ Goes(r) \/ Refuses(r) \/ Amends(r) \/ Reseeds(r) \/ CreateUser(r)
    \/ \E u \in Ids :
         Told(r, u) \/ Links(r, u) \/ Renews(r, u) \/ Confirms(r, u) \/ Promotes(r, u)

LEMMA AuthenticateForm ==
    ASSUME Sound, NEW r \in Calls, Authenticate(r)
    PROVE  Step(r) /\ pc[r] # "done"
<1> USE DEF At
<1>1. CASE NotAuthenticated(r)
  <2>1. r \notin Asking
    BY <1>1 DEF NotAuthenticated, MustAuthenticate, Asking, MagicLogins, NostrLogins, Creations,
       Reads, Updates, SeedAdditions, Deletions, Of
  <2> QED
    BY <1>1, <2>1 DEF NotAuthenticated, Step, Refuses
<1>2. CASE ~NotAuthenticated(r)
  <2>1. Goes(r) /\ pc[r] # "done"
    BY <1>2 DEF Authenticate, AuthenticateApplication, NoApplication, AuthenticateUser, Anonymous,
       Goes, Sound, TypeOK
  <2> QED
    BY <2>1 DEF Step
<1> QED
  BY <1>1, <1>2

LEMMA CreateForm ==
    ASSUME Sound, NEW r \in Calls, Create(r)
    PROVE  Step(r) /\ pc[r] # "done"
<1> USE DEF At
<1>1. CASE FindUser(r)
  <2>1. r \in SignIns \cup MagicRegistrations
    BY <1>1 DEF FindUser, Finders, SignIns
  <2> QED
    BY <1>1, <2>1 DEF FindUser, Step, Told
<1>2. CASE FindNobody(r)
  BY <1>2 DEF FindNobody, Step, Goes
<1>3. CASE FindNobodyAgain(r)
  <2>1. Identity(r) \in released
    BY <1>3 DEF FindNobodyAgain, Sound, Suspended
  <2> QED
    BY <1>3, <2>1 DEF FindNobodyAgain, Step, Refuses
<1>4. CASE CheckEmail(r)
  <2>1. CASE LoseRace(r) /\ r \notin Retrying
    <3>1. r \notin Asking
      BY <2>1 DEF Asking, Retrying
    <3> QED
      BY <1>4, <2>1, <3>1 DEF CheckEmail, LoseRace, Step, Refuses
  <2>2. CASE ~(LoseRace(r) /\ r \notin Retrying)
    BY <1>4, <2>2 DEF CheckEmail, LoseRace, Step, Goes
  <2> QED
    BY <2>1, <2>2
<1>5. CASE CreateUser(r)
  BY <1>5 DEF CreateUser, Step
<1> QED
  BY <1>1, <1>2, <1>3, <1>4, <1>5 DEF Create

LEMMA ConnectForm ==
    ASSUME Sound, NEW r \in Calls, Connect(r)
    PROVE  Step(r) /\ pc[r] # "done"
<1> USE DEF At
<1>1. CASE FindLinkedUser(r)
  <2>1. r \in NostrLogins /\ r \in SignIns /\ r \notin Asking /\ Field(r) = "nostrPubkey"
    BY <1>1 DEF FindLinkedUser, Asking, SignIns, NostrLogins, MagicLogins, Field, Of
  <2>2. current[r] \in Ids
    BY <1>1 DEF FindLinkedUser, Sound, TypeOK, Maybe
  <2> QED
    BY <1>1, <2>1, <2>2 DEF FindLinkedUser, Step, Goes, Told, Refuses
<1>2. CASE FindUpsert(r)
  BY <1>2 DEF FindUpsert, Step, Goes
<1>3. CASE Link(r)
  <2>1. /\ r \in NostrLogins \cup XLogins /\ r \notin Asking
        /\ Saving(r, found[r], Linked(r, found[r]))
    BY <1>3 DEF Link, Sound, Suspended, Asking, NostrLogins, XLogins, MagicLogins, Of
  <2>2. CASE found[r] \in Ids
    BY <1>3, <2>1, <2>2 DEF Link, Step, Links
  <2>3. CASE found[r] \notin Ids
    <3>1. Ending(r, Refused)
      BY <2>1, <2>3 DEF Saving, Sound, TypeOK
    <3> QED
      BY <1>3, <2>1, <3>1 DEF Link, Step, Refuses
  <2> QED
    BY <2>2, <2>3
<1> QED
  BY <1>1, <1>2, <1>3 DEF Connect

LEMMA UpdateForm ==
    ASSUME Sound, NEW r \in Calls, Update(r)
    PROVE  Step(r) /\ pc[r] # "done"
<1> USE DEF At
<1>1. r \in Updates /\ r \notin Asking
  BY DEF Sound, Suspended, Update, FindTarget, CheckNewEmail, ReadOwnPassword, VerifyPassword,
     AmendUser, Asking, Updates, NostrLogins, MagicLogins, Of
<1>2. CASE AmendUser(r)
  <2>1. Target(r) = current[r] \/ users[current[r]].role = "ADMIN"
    BY <1>1, <1>2 DEF AmendUser, Sound, Suspended
  <2> QED
    BY <1>1, <1>2, <2>1 DEF AmendUser, Step, Amends
<1>3. CASE ~AmendUser(r)
  BY <1>1, <1>3 DEF Update, FindTarget, CheckNewEmail, ReadOwnPassword, VerifyPassword, Step,
     Goes, Refuses
<1> QED
  BY <1>2, <1>3

LEMMA OtherForm ==
    ASSUME Sound, NEW r \in Calls, Other(r)
    PROVE  Step(r) /\ pc[r] # "done"
<1> USE DEF At
<1>1. /\ \/ r \in PasswordLogins \cup SeedLogins \cup Reads \cup SeedAdditions
         \/ r \in Deletions \cup Provisions \cup Promotions
      /\ pc[r] # "done"
  BY DEF Sound, Suspended, Other, FindPasswordUser, LogIn, LogInWithSeed, ReadUser, FindSeedUser, AddSeed,
     FindDeleted, DeleteUser, FindApplication, RenewApplication, ConfirmApplication, FindPromoted,
     PromoteUser
<1>2. /\ r \notin Asking
      /\ r \in PasswordLogins \cup Promotions => Field(r) = "email"
      /\ r \in PasswordLogins => r \in SignIns
  BY <1>1 DEF Asking, Field, NostrLogins, XLogins, MagicLogins, PasswordLogins, SeedLogins, Reads,
     SeedAdditions, Deletions, Provisions, Promotions, SignIns, Of
<1>3. CASE Ending(r, Refused)
  BY <1>1, <1>2, <1>3 DEF Step, Refuses
<1>4. CASE \E label : Reading(r, label) /\ UNCHANGED current
  BY <1>1, <1>4 DEF Step, Goes
<1>5. CASE LogIn(r)
  <2>1. r \in PasswordLogins
    BY <1>5 DEF LogIn, Sound, Suspended
  <2> QED
    BY <1>1, <1>2, <1>3, <1>5, <2>1 DEF LogIn, LogsIn, Step, Told
<1>6. CASE ReadUser(r)
  BY <1>1, <1>3, <1>6 DEF ReadUser, Step, Told, Sound, TypeOK
<1>7. CASE AddSeed(r)
  BY <1>1, <1>7 DEF AddSeed, Sound, Suspended, Step, Reseeds
<1>8. CASE DeleteUser(r)
  BY <1>3, <1>8 DEF DeleteUser, Deletable, Sound
<1>9. CASE RenewApplication(r)
  BY <1>1, <1>9 DEF RenewApplication, Sound, TypeOK, Suspended, Step, Renews
<1>10. CASE FindPromoted(r)
  BY <1>1, <1>2, <1>3, <1>4, <1>10 DEF FindPromoted, Step, Told
<1>11. CASE PromoteUser(r)
  BY <1>1, <1>11 DEF PromoteUser, Sound, TypeOK, Suspended, Step, Promotes
<1>12. CASE LogInWithSeed(r)
  BY <1>1, <1>3, <1>12 DEF LogInWithSeed, Step, Told, Sound, TypeOK
<1>13. CASE FindPasswordUser(r) \/ FindSeedUser(r) \/ FindDeleted(r) \/ FindApplication(r)
  BY <1>3, <1>4, <1>13 DEF FindPasswordUser, FindSeedUser, FindDeleted, FindApplication
<1>14. CASE ConfirmApplication(r)
  BY <1>1, <1>14 DEF ConfirmApplication, Sound, TypeOK, Suspended, Step, Confirms
<1> QED
  BY <1>5, <1>6, <1>7, <1>8, <1>9, <1>10, <1>11, <1>12, <1>13, <1>14 DEF Other

LEMMA StepForms ==
    ASSUME Sound, Next
    PROVE  \E r \in Calls : Step(r) /\ pc[r] # "done"
  BY AuthenticateForm, CreateForm, ConnectForm, UpdateForm, OtherForm DEF Next

-----------------------------------------------------------------------------
(* The properties.                                                         *)

\* A step answers only its own call.
LEMMA OwnAnswer ==
    ASSUME Sound, NEW r \in Calls, Step(r)
    PROVE  /\ released \subseteq released'
           /\ \A q \in Calls \ {r} : answer'[q] = answer[q] /\ current'[q] = current[q]
<1>1. CASE Goes(r)
  BY <1>1 DEF Goes, Reading
<1>2. ASSUME NEW a, Ending(r, a)
      PROVE  /\ released \subseteq released'
             /\ \A q \in Calls \ {r} : answer'[q] = answer[q] /\ current'[q] = current[q]
  BY <1>2 DEF Ending, Answer, Sound, TypeOK
<1>3. ASSUME NEW u, NEW row, Saving(r, u, row)
      PROVE  /\ released \subseteq released'
             /\ \A q \in Calls \ {r} : answer'[q] = answer[q] /\ current'[q] = current[q]
  BY <1>2, <1>3 DEF Saving, Answer, Sound, TypeOK
<1>4. CASE CreateUser(r)
  BY <1>2, <1>4 DEF CreateUser, LoseRace, Reading, Answer, Sound, TypeOK
<1> QED
  BY <1>1, <1>2, <1>3, <1>4
  DEF Step, Refuses, Told, Links, Amends, Reseeds, Renews, Confirms, Promotes

LEMMA SignInStep ==
    ASSUME Sound, SignInSucceeds, [Next]_vars
    PROVE  SignInSucceeds'
<1>1. CASE UNCHANGED vars
  BY <1>1 DEF vars, callVars, SignInSucceeds, Identity
<1>2. CASE Next
  <2>1. PICK r \in Calls : Step(r) /\ pc[r] # "done"
    BY <1>2, StepForms
  <2> SUFFICES ASSUME NEW q \in MagicLogins \cup NostrLogins,
                      q \in MagicLogins \/ current'[q] = None, answer'[q] = Refused
               PROVE  Identity(q) \in released'
    BY DEF SignInSucceeds, Identity
  <2>2. q \in Calls
    BY DEF MagicLogins, NostrLogins, Of
  <2>3. CASE q # r
    <3>1. q \in Asking /\ answer[q] = Refused /\ released \subseteq released'
      BY <2>1, <2>2, <2>3, OwnAnswer DEF Asking
    <3> QED
      BY <3>1 DEF SignInSucceeds, Asking
  <2>4. CASE q = r
    <3>1. answer[r] = None /\ Refused # None /\ answer \in [Calls -> Maybe(Ids) \cup {Refused}]
          /\ Refused \notin Ids
      BY <2>1, Pending, UserTableAssumption DEF UserTableAssumption, Sound, TypeOK
    <3>2. ~Goes(r)
      BY <2>4, <3>1 DEF Goes, Reading
    <3>3. ~(\E u \in Ids : Told(r, u))
      BY <2>4, <3>1 DEF Told, Ending, Answer
    <3>4. CASE Refuses(r)
      <4>1. r \in Asking
        BY <2>4, <3>4 DEF Refuses, Ending, Asking
      <4> QED
        BY <2>4, <3>4, <4>1 DEF Refuses, Ending
    <3>5. CASE \E u \in Ids : Links(r, u)
      <4>1. PICK u \in Ids : Links(r, u)
        BY <3>5
      <4>2. current' = current
        BY <4>1 DEF Links, Saving, Ending
      <4> QED
        BY <2>4, <4>1, <4>2 DEF Links, Asking
    <3>6. CASE CreateUser(r)
      <4>1. r \in Retrying
        BY <2>4 DEF Retrying
      <4>2. answer'[r] \in {r, None}
        BY <3>1, <3>6, <4>1 DEF CreateUser, LoseRace, Reading, Answer
      <4> QED
        BY <2>4, <3>1, <4>2, RequestSound
    <3>7. ~(Amends(r) \/ Reseeds(r)
            \/ \E u \in Ids : Renews(r, u) \/ Confirms(r, u) \/ Promotes(r, u))
      BY <2>4 DEF Amends, Reseeds, Renews, Confirms, Promotes, MagicLogins, NostrLogins, Updates,
         SeedAdditions, Provisions, Promotions, Of
    <3> QED
      BY <2>1, <3>2, <3>3, <3>4, <3>5, <3>6, <3>7 DEF Step
  <2> QED
    BY <2>3, <2>4
<1> QED
  BY <1>1, <1>2

\* Who asks for the account of an e-mail or a public key gets it, unless it was
\* given up again meanwhile, however many ask at once.
THEOREM SignInsSucceed == Spec => []SignInSucceeds
<1>1. Init => SignInSucceeds
  BY UserTableAssumption DEF UserTableAssumption, Init, SignInSucceeds, MagicLogins, NostrLogins, Of
<1> QED
  BY <1>1, SignInStep, AccountsAreSound, PTL DEF Spec

\* A row changed in the name of a signed-in user is the user's own, or the user is
\* an administrator when it is written.
THEOREM WritesPermitted == Spec => WritesArePermitted
<1>1. ASSUME Sound, [Next]_vars, NEW q \in Updates \cup SeedAdditions, NEW u \in ids,
             users'[u] # users[u], answer'[q] # answer[q]
      PROVE  u = current[q] \/ users[current[q]].role = "ADMIN"
  <2>1. Next
    BY <1>1 DEF vars, callVars
  <2>2. PICK r \in Calls : Step(r) /\ pc[r] # "done"
    BY <1>1, <2>1, StepForms
  <2>3. q = r
    BY <1>1, <2>2, OwnAnswer DEF Updates, SeedAdditions, Of
  <2>4. ASSUME NEW v, NEW row, Saving(r, v, row) PROVE u = v
    BY <1>1, <2>4 DEF Saving, Put, Ending, Sound, TypeOK
  <2>5. ~(Goes(r) \/ Refuses(r) \/ \E v \in Ids : Told(r, v))
    BY <1>1 DEF Goes, Refuses, Told, Reading, Ending
  <2>6. ~(CreateUser(r)
          \/ \E v \in Ids : Links(r, v) \/ Renews(r, v) \/ Confirms(r, v) \/ Promotes(r, v))
    BY <1>1, <2>3 DEF Links, Renews, Confirms, Promotes, CreateUser, At, Sound, Suspended, SignUps, Creators,
       Registrations, Creations, MagicRegistrations, MagicLogins, SeedRegistrations, NostrLogins,
       XLogins, Provisions, Promotions, Updates, SeedAdditions, Of
  <2> QED
    BY <2>2, <2>3, <2>4, <2>5, <2>6 DEF Step, Amends, Reseeds
<1>2. Sound /\ [Next]_vars =>
        [\A r \in Updates \cup SeedAdditions, u \in ids :
           users'[u] # users[u] /\ answer'[r] # answer[r] =>
               u = current[r] \/ users[current[r]].role = "ADMIN"]_vars
  BY <1>1
<1> QED
  BY <1>2, AccountsAreSound, PTL DEF Spec, WritesArePermitted

\* The instance of Directory reads the same table.
LEMMA CreatorsAgree ==
    ASSUME NEW r
    PROVE  /\ Dir!NewRow(r) = NewRow(r)
           /\ r \in Dir!SignUps <=> r \in SignUps
  BY DEF NewRow, Dir!NewRow, SignUps, Dir!SignUps, Creators, Dir!Creators, Registrations,
     Dir!Registrations, Creations, Dir!Creations, MagicRegistrations, Dir!MagicRegistrations,
     MagicLogins, Dir!MagicLogins, SeedRegistrations, Dir!SeedRegistrations, NostrLogins,
     Dir!NostrLogins, XLogins, Dir!XLogins, Provisions, Dir!Provisions, Of, Dir!Of, Identity,
     Dir!Identity, Blank, Dir!Blank, NewWallet, Dir!NewWallet

\* Accounts implements Directory: every step is an operation of Directory, or
\* changes neither the table nor an answer.
THEOREM AccountsImplementDirectory == Spec => DirectorySpec
<1> USE DEF Dir!Ids, Dir!Maybe
<1>1. Init => Dir!DirectoryInit
  BY DEF Init, Dir!DirectoryInit, TableInit, Dir!TableInit, Blank, Dir!Blank, Ids
<1>2. ASSUME Sound, Next
      PROVE  Dir!DirectoryNext \/ UNCHANGED Dir!directoryVars
  <2>1. PICK r \in Calls : Step(r) /\ pc[r] # "done"
    BY <1>2, StepForms
  <2>2. answer[r] = None
    BY <1>2, <2>1, Pending
  <2>3. CASE Goes(r)
    BY <2>3 DEF Goes, Reading, Dir!directoryVars
  <2>4. ASSUME NEW a, Ending(r, a)
        PROVE  Dir!Answered(r, a) /\ Dir!Same
    BY <2>2, <2>4 DEF Ending, Answer, Dir!Answered, Dir!Same
  <2>5. CASE Ending(r, Refused)
    BY <2>4, <2>5 DEF Dir!Refuse, Dir!DirectoryNext
  <2>6. ASSUME NEW u \in Ids, Told(r, u) PROVE Dir!DirectoryNext
    <3>1. Dir!Answered(r, u) /\ Dir!Same
      BY <2>4, <2>6 DEF Told
    <3>2. CASE r \in Reads /\ u \in ids
      BY <3>1, <3>2 DEF Dir!Read, Dir!DirectoryNext, Reads, Dir!Reads, Of, Dir!Of
    <3>3. CASE r \in SignIns \cup MagicRegistrations \cup Promotions /\ Holds(u, Field(r), Identity(r))
      <4>1. u \in ids /\ Dir!Holds(u, Dir!Field(r), Dir!Identity(r))
        BY <3>3 DEF Holds, Dir!Holds, Field, Dir!Field, Identity, Dir!Identity, NostrLogins,
           Dir!NostrLogins, XLogins, Dir!XLogins, Of, Dir!Of
      <4>2. r \in Dir!SignIns \cup Dir!MagicRegistrations \cup Dir!Promotions
        BY <3>3 DEF SignIns, Dir!SignIns, MagicRegistrations, Dir!MagicRegistrations, Promotions,
           Dir!Promotions, MagicLogins, Dir!MagicLogins, NostrLogins, Dir!NostrLogins, XLogins,
           Dir!XLogins, PasswordLogins, Dir!PasswordLogins, Of, Dir!Of
      <4> QED
        BY <3>1, <4>1, <4>2 DEF Dir!SignIn, Dir!DirectoryNext
    <3>4. CASE r \in SeedLogins /\ u \in ids /\ users[u].seed = Request[r].target
      BY <3>1, <3>4 DEF Dir!SignInWithSeed, Dir!DirectoryNext, SeedLogins, Dir!SeedLogins, Of, Dir!Of
    <3> QED
      BY <2>6, <3>2, <3>3, <3>4 DEF Told
  <2>7. ASSUME NEW u \in Ids, NEW row, Saving(r, u, row), ~Ending(r, Refused)
        PROVE  /\ u \in ids /\ Dir!Answered(r, u) /\ Dir!Put(u, row)
               /\ \A f \in UniqueFields, v \in Ids \ {u} : ~Dir!Holds(v, f, row[f])
    <3>1. u \in ids /\ Unique(u, row) /\ Put(u, row) /\ Answer(r, u)
      BY <2>7 DEF Saving
    <3>2. Dir!Put(u, row) /\ Dir!Answered(r, u)
      BY <2>2, <3>1 DEF Put, Dir!Put, Answer, Dir!Answered
    <3> QED
      BY <3>1, <3>2 DEF Unique, Holds, Dir!Holds
  <2>8. ASSUME NEW u \in Ids, Links(r, u), ~Ending(r, Refused) PROVE Dir!DirectoryNext
    <3>1. Dir!Field(r) = Field(r) /\ Dir!Identity(r) = Identity(r) /\ Dir!Linked(r, u) = Linked(r, u)
          /\ Field(r) \in UniqueFields
      BY DEF Field, Dir!Field, Identity, Dir!Identity, Linked, Dir!Linked, NostrLogins,
         Dir!NostrLogins, XLogins, Dir!XLogins, Of, Dir!Of, UniqueFields
    <3>2. u \in ids /\ Linked(r, u)[Field(r)] = Identity(r)
      BY <1>2, <2>7, <2>8, <3>1 DEF Links, Linked, Field, Sound, TypeOK, Rows
    <3>3. Dir!Connect(r, u)
      BY <2>7, <2>8, <3>1, <3>2 DEF Links, Dir!Connect, NostrLogins, Dir!NostrLogins, XLogins,
         Dir!XLogins, Of, Dir!Of, Ids
    <3> QED
      BY <3>2, <3>3 DEF Dir!DirectoryNext
  <2>9. ASSUME Amends(r), ~Ending(r, Refused) PROVE Dir!DirectoryNext
    <3> DEFINE u == Target(r)
    <3>1. u \in Ids
      BY <1>2, <2>9 DEF Amends, Saving, Sound, TypeOK
    <3>2. /\ u \in ids /\ Dir!Answered(r, u) /\ Dir!Put(u, Amended(r, u))
          /\ \A v \in Ids \ {u} : ~Dir!Holds(v, "email", Amended(r, u).email)
      BY <2>7, <2>9, <3>1 DEF Amends, UniqueFields
    <3>3. Request[r].email # None => Amended(r, u).email = Request[r].email
      BY <1>2, <3>2 DEF Amended, Sound, TypeOK, Rows
    <3>4. \A v \in Ids \ {u} : ~Dir!Holds(v, "email", Request[r].email)
      BY <3>2, <3>3 DEF Dir!Holds
    <3>5. Dir!Amended(r, u) = Amended(r, u)
      BY DEF Amended, Dir!Amended
    <3>6. Dir!Amend(r, u)
      BY <2>9, <3>2, <3>4, <3>5 DEF Amends, Dir!Amend, Updates, Dir!Updates, Of, Dir!Of, Ids
    <3> QED
      BY <3>2, <3>6 DEF Dir!DirectoryNext
  <2>10. ASSUME Reseeds(r), ~Ending(r, Refused) PROVE Dir!DirectoryNext
    <3> DEFINE u == current[r]
    <3>1. u \in Ids
      BY <1>2, <2>10 DEF Reseeds, Saving, Sound, TypeOK
    <3>2. u \in ids /\ Dir!Answered(r, u) /\ Dir!Put(u, Seeded(r, u))
      BY <2>7, <2>10, <3>1 DEF Reseeds
    <3>3. Dir!Reseed(r, u)
      BY <2>10, <3>2 DEF Reseeds, HasOtherMethod, Dir!Reseed, Dir!OtherMethod, Seeded, Dir!Seeded,
         SeedAdditions, Dir!SeedAdditions, Of, Dir!Of
    <3> QED
      BY <3>2, <3>3 DEF Dir!DirectoryNext
  <2>11. ASSUME NEW u \in Ids, Renews(r, u), ~Ending(r, Refused) PROVE Dir!DirectoryNext
    <3>1. u \in ids /\ Dir!Answered(r, u) /\ Dir!Put(u, Renewed(r, u))
      BY <2>7, <2>11 DEF Renews
    <3>2. Dir!Renew(r, u)
      BY <2>11, <3>1 DEF Renews, Dir!Renew, Renewed, Dir!Renewed, Confirmed, Dir!Confirmed,
         Provisions, Dir!Provisions, Of, Dir!Of
    <3> QED
      BY <3>1, <3>2 DEF Dir!DirectoryNext
  <2>12. ASSUME NEW u \in Ids, Promotes(r, u), ~Ending(r, Refused) PROVE Dir!DirectoryNext
    <3>1. u \in ids /\ Dir!Answered(r, u) /\ Dir!Put(u, Promoted(u))
      BY <2>7, <2>12 DEF Promotes
    <3>2. Dir!Promote(r, u)
      BY <2>12, <3>1 DEF Promotes, Dir!Promote, Promoted, Dir!Promoted, Promotions, Dir!Promotions,
         Of, Dir!Of
    <3> QED
      BY <3>1, <3>2 DEF Dir!DirectoryNext
  <2>13. ASSUME CreateUser(r), ~Ending(r, Refused)
         PROVE  Dir!DirectoryNext \/ UNCHANGED Dir!directoryVars
    <3>1. CASE Unique(r, NewRow(r))
      <4>1. r \in SignUps
        BY <1>2, <2>13 DEF CreateUser, Sound, Suspended
      <4>2. Dir!Answered(r, r) /\ Dir!Put(r, NewRow(r))
        BY <2>2, <2>13, <3>1 DEF CreateUser, Answer, Dir!Answered, Put, Dir!Put
      <4>3. ~Dir!Taken(Dir!Field(r), Dir!Identity(r))
        <5>1. Field(r) \in UniqueFields /\ Dir!Field(r) = Field(r) /\ Dir!Identity(r) = Identity(r)
          BY DEF Field, Dir!Field, Identity, Dir!Identity, NostrLogins, Dir!NostrLogins, XLogins,
             Dir!XLogins, Of, Dir!Of, UniqueFields
        <5>2. r \notin ids /\ \A v \in Ids \ {r} : ~Holds(v, Field(r), Identity(r))
          BY <1>2, <2>1, <3>1, <4>1, <5>1, Pending, NewRowSound DEF Unique
        <5> QED
          BY <5>1, <5>2 DEF Dir!Taken, Dir!Holds, Holds, Ids
      <4>4. Dir!SignUp(r)
        BY <4>1, <4>2, <4>3, CreatorsAgree DEF Dir!SignUp
      <4> QED
        BY <4>4 DEF Dir!DirectoryNext
    <3>2. CASE ~Unique(r, NewRow(r))
      BY <2>13, <3>2 DEF CreateUser, LoseRace, Reading, Dir!directoryVars
    <3> QED
      BY <3>1, <3>2
  <2>14. ASSUME NEW u \in Ids, Confirms(r, u), ~Ending(r, Refused) PROVE Dir!DirectoryNext
    <3>1. u \in ids /\ Dir!Answered(r, u) /\ Dir!Put(u, Confirmed(u))
      BY <2>7, <2>14 DEF Confirms
    <3>2. Dir!Confirm(r, u)
      BY <2>14, <3>1 DEF Confirms, Dir!Confirm, Confirmed, Dir!Confirmed, HadPassword,
         Dir!HadPassword, PasswordMatches, Dir!PasswordMatches, Provisions, Dir!Provisions, Of,
         Dir!Of
    <3> QED
      BY <3>1, <3>2 DEF Dir!DirectoryNext
  <2> QED
    BY <2>1, <2>3, <2>5, <2>6, <2>8, <2>9, <2>10, <2>11, <2>12, <2>13, <2>14 DEF Step, Refuses
<1>3. Sound /\ [Next]_vars => [Dir!DirectoryNext]_Dir!directoryVars
  BY <1>2 DEF vars, callVars, Dir!directoryVars
<1> QED
  BY <1>1, <1>3, AccountsAreSound, PTL DEF Spec, DirectorySpec, Dir!DirectorySpec
==============================================================================
