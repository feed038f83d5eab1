------------------------------- MODULE Sessions -------------------------------
(***************************************************************************)
(* What the tokens of a user promise.  A token is valid from the moment it *)
(* is issued until it is used or withdrawn, and never again.  A login is a *)
(* line of refresh tokens that are passed on one to the next: while one is *)
(* being passed on none is valid, and the next is valid only if that       *)
(* succeeds.  A link is redeemed by the call that makes it invalid.        *)
(***************************************************************************)
CONSTANTS
    Tokens, Calls,
    Given           \* tokens that are valid at the start

VARIABLES
    valid,          \* the tokens that are good for something
    used,           \* those that no longer are
    line,           \* line[i]: the login that i descends from
    passing,        \* used refresh tokens whose successor is on its way
    redeemed        \* pairs <<c, i>>: call c was accepted with link i

sessionVars == <<valid, used, line, passing, redeemed>>

SessionsInit ==
    /\ valid = Given
    /\ used = {}
    /\ line = [i \in Tokens |-> i]
    /\ passing = {}
    /\ redeemed = {}

Fresh(i) == i \notin valid \cup used

\* Tokens become invalid, for ever.
Withdrawn ==
    /\ valid' \subseteq valid
    /\ used' = used \cup (valid \ valid')

\* A login, or a link that is sent: a line of its own.
Issue(i) ==
    /\ Fresh(i)
    /\ valid' = valid \cup {i}
    /\ line' = [line EXCEPT ![i] = i]
    /\ UNCHANGED <<used, passing, redeemed>>

\* Rotation: first the valid token is used, then its successor is issued, or not.
Use(i) ==
    /\ i \in valid
    /\ valid' = valid \ {i}
    /\ used' = used \cup {i}
    /\ passing' = passing \cup {i}
    /\ UNCHANGED <<line, redeemed>>

PassOn(i, j) ==
    /\ i \in passing
    /\ Fresh(j)
    /\ passing' = passing \ {i}
    /\ valid' = valid \cup {j}
    /\ line' = [line EXCEPT ![j] = line[i]]
    /\ UNCHANGED <<used, redeemed>>

Break(i) ==
    /\ i \in passing
    /\ passing' = passing \ {i}
    /\ UNCHANGED <<valid, used, line, redeemed>>

\* Logout, expiry, a verified address.
Withdraw ==
    /\ Withdrawn
    /\ UNCHANGED <<line, passing, redeemed>>

\* A magic login or a new password: the link goes, and others with it.
Redeem(c, i) ==
    /\ i \in valid \ valid'
    /\ Withdrawn
    /\ redeemed' = redeemed \cup {<<c, i>>}
    /\ UNCHANGED <<line, passing>>

SessionsNext ==
    \/ \E i \in Tokens : Issue(i) \/ Use(i) \/ Break(i)
    \/ \E i, j \in Tokens : PassOn(i, j)
    \/ Withdraw
    \/ \E c \in Calls, i \in Tokens : Redeem(c, i)

SessionsSpec == SessionsInit /\ [][SessionsNext]_sessionVars
===============================================================================
