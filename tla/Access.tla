-------------------------------- MODULE Access --------------------------------
(***************************************************************************)
(* Who may do what: the rights of the roles (roles.ts), the applications   *)
(* and the addresses they may call from (applications.ts), and the test    *)
(* that the auth middleware makes of them (middlewares/auth.ts).           *)
(***************************************************************************)
CONSTANTS
    Applications,   \* e-mails in APPLICATION_EMAILS or applications.json
    Addresses       \* Addresses[e]: where application e calls from; {}: anywhere

Roles == {"USER", "ADMIN", "APPLICATION"}

Rights(role) ==
    CASE role = "USER" -> {"wallet_invoice", "wallet_pay", "wallet_pay_user"}
      [] role = "ADMIN" -> {"wallet_invoice", "wallet_pay", "wallet_pay_user",
                            "users_read", "users_write"}
      [] role = "APPLICATION" -> {"wallet_invoice", "wallet_pay_user",
                                  "users_read", "feedback_send"}

\* What the routes pass to auth().
CreateUserRoute == {"users_write"}
ReadUserRoute == {"users_read"}
UpdateUserRoute == {"users_write"}
DeleteUserRoute == {"users_write"}
AddSeedRoute == {}

\* verifyCallback lets a user on to a route that needs these rights, and whose
\* path names the user `target`.  (The slip: the path is not compared.)
PermitsByRole(needed, role, user, target) == TRUE
Permits(needed, role, user, target) == needed \subseteq Rights(role) \/ target = user

\* resolveApplicationAuthorization and isApplicationSourceAllowed.
SourceAllowed(email, source) ==
    /\ email \in Applications
    /\ Addresses[email] = {} \/ source \in Addresses[email]
==============================================================================
