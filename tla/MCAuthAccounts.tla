--------------------------- MODULE MCAuthAccounts ---------------------------
(* Instances of AuthAccounts for TLC. *)
EXTENDS AuthAccounts, TLC

Symmetry == Permutations(Users) \cup Permutations(Handlers)

\* Users and their methods.
UserOps == {"bootstrap", "create", "update", "disable", "enroll", "login",
            "password", "noPassword", "passkey", "noPasskey"}

\* Sessions and the second factor of one user.
SecondFactorOps == {"bootstrap", "profile", "enable", "issue", "login", "totp", "setup",
                    "confirm", "noTOTP", "logout", "logoutAll", "revoke", "revokeOthers"}
=============================================================================
