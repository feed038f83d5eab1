------------------------------- MODULE MCTokens -------------------------------
(***************************************************************************)
(* One user with a session and some links in the mailbox: all races of     *)
(* MaxCalls calls out of two refreshes, a logout, two magic logins, two    *)
(* resets, a verification and a request for a magic link.                  *)
(***************************************************************************)
EXTENDS Tokens, TLC

CONSTANTS
    session, magic1, reset1, reset2, verify1, mail

MCIssuedKind == mail :> "MAGIC_LINK"

MCGivenKind ==
    session :> "REFRESH" @@
    magic1 :> "MAGIC_LINK" @@
    reset1 :> "RESET_PASSWORD" @@ reset2 :> "RESET_PASSWORD" @@
    verify1 :> "VERIFY_EMAIL"

Symmetry ==
    Permutations(Refreshes) \cup Permutations(MagicLinks) \cup Permutations(Resets)
=============================================================================
