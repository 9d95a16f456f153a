-------------------------- MODULE SessionLifecycle --------------------------
(***************************************************************************)
(* What the device sessions promise to HR and to the desktop app: a        *)
(* session is opened once, with no token; while it is open a token signed  *)
(* later replaces the one accepted before, never the other way; once HR    *)
(* revoked it, it stays revoked and its token no longer changes.           *)
(***************************************************************************)
EXTENDS Integers

CONSTANTS
    Ids,        \* ids of sessions
    Times,      \* when tokens are signed
    NoToken     \* a session whose first token is not signed yet

VARIABLES
    status,     \* of each session: none, open or revoked
    token       \* the time its accepted token was signed

Init ==
    /\ status = [s \in Ids |-> "none"]
    /\ token = [s \in Ids |-> NoToken]

OpenSession(s) ==
    /\ status[s] = "none"
    /\ status' = [status EXCEPT ![s] = "open"]
    /\ UNCHANGED token

Rotate(s) ==
    /\ status[s] = "open"
    /\ \E t \in Times : /\ token[s] # NoToken => t >= token[s]
                        /\ token' = [token EXCEPT ![s] = t]
    /\ UNCHANGED status

Revoke(s) ==
    /\ status[s] = "open"
    /\ status' = [status EXCEPT ![s] = "revoked"]
    /\ UNCHANGED token

Next == \E s \in Ids : OpenSession(s) \/ Rotate(s) \/ Revoke(s)

Spec == Init /\ [][Next]_<<status, token>>
=============================================================================
