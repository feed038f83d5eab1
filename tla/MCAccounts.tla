------------------------------ MODULE MCAccounts -------------------------------
(***************************************************************************)
(* These calls at once, on four accounts: a person with a password, an     *)
(* administrator, an application, and somebody who has only a seed phrase. *)
(* Most calls compete for the e-mail `newMail`, the key `key` or the X     *)
(* account `x`: any MaxTogether of those, and any two of all of them.      *)
(***************************************************************************)
EXTENDS Accounts, FiniteSetsExt, TLC

CONSTANTS
    ann, root, shop, sid,
    annMail, rootMail, shopMail, newMail, key, key2, x, secret, other, home,
    magic1, magic2, signUp, create, invite, phrase, reseed, seed, nostr1, nostr2, link, relink,
    x1, x2, logIn, recall, read, move, assist, meddle, delete, provision, renew, renew2, promote,
    MaxTogether

MCValues == {annMail, rootMail, shopMail, newMail, key, key2, x, secret, other, home}

MCGivenRow ==
    LET row(email, role, wallet) ==
            [Blank EXCEPT !.email = email, !.password = secret, !.role = role,
                          !.wallet = wallet]
    IN ann :> row(annMail, "USER", "enabled") @@ root :> row(rootMail, "ADMIN", "enabled")
         @@ shop :> row(shopMail, "APPLICATION", "disabled")
         @@ sid :> [Blank EXCEPT !.seed = sid, !.wallet = "enabled"]

Call(op) ==
    [op |-> op, identity |-> None, password |-> None, email |-> None,
     newPassword |-> None, role |-> "USER", target |-> None, token |-> None,
     session |-> None, application |-> None, secret |-> None, source |-> None]
About(op, identity) == [Call(op) EXCEPT !.identity = identity]
To(op, user, target) == [Call(op) EXCEPT !.token = user, !.target = target]

MCRequest ==
    magic1 :> About("getOrCreateMagicLinkUser", newMail)
    @@ magic2 :> About("getOrCreateMagicLinkUser", newMail)
    @@ invite :> About("registerUserWithMagicLink", newMail)
    @@ signUp :> [About("register", newMail) EXCEPT !.password = secret]
    @@ create :> [About("createUser", newMail) EXCEPT !.password = secret,
                     !.role = "ADMIN", !.token = root]
    @@ phrase :> Call("createUserWithSeed")
    @@ reseed :> To("addSeedToUser", sid, None)
    @@ seed :> To("addSeedToUser", ann, None)
    @@ nostr1 :> About("resolveNostrUser", key)
    @@ nostr2 :> About("resolveNostrUser", key)
    @@ link :> [About("resolveNostrUser", key) EXCEPT !.token = sid]
    @@ relink :> [About("resolveNostrUser", key2) EXCEPT !.token = sid]
    @@ x1 :> About("upsertTwitterUser", x)
    @@ x2 :> [About("upsertTwitterUser", x) EXCEPT !.session = ann]
    @@ logIn :> [About("login", annMail) EXCEPT !.password = secret]
    @@ recall :> To("seedStrategy", None, sid)
    @@ read :> [To("getUserById", None, ann) EXCEPT !.application = shopMail,
                   !.secret = secret, !.source = home]
    @@ move :> [To("updateUserById", ann, ann) EXCEPT !.email = newMail,
                   !.password = secret]
    @@ assist :> [To("updateUserById", root, ann) EXCEPT !.email = other,
                     !.newPassword = other, !.password = secret]
    @@ meddle :> [To("updateUserById", sid, root) EXCEPT !.email = newMail,
                     !.password = secret]
    @@ delete :> To("deleteUserById", root, ann)
    @@ provision :> [About("provisionApplicationServiceAccount", newMail)
                        EXCEPT !.password = secret]
    @@ renew :> [About("provisionApplicationServiceAccount", shopMail)
                    EXCEPT !.password = other]
    @@ renew2 :> [About("provisionApplicationServiceAccount", shopMail)
                     EXCEPT !.password = secret]
    @@ promote :> About("makeAdmin", newMail)

MCAddresses == shopMail :> {home} @@ newMail :> {}

\* The calls that touch none of the three things most of the calls compete for.
Apart == {logIn, recall, read, phrase, delete, renew, renew2}

\* Bound: MaxTogether of the calls that compete, and any two of all the calls.
MCScenarios == kSubset(MaxTogether, Calls \ Apart) \cup kSubset(2, Calls)
==============================================================================
