----------------------------- MODULE MCPassword -----------------------------
(* Small instances of PasswordStore: a one-time password that two logins    *)
(* present, an expiring one that a command invalidates, and one that        *)
(* another command generates.                                               *)
EXTENDS PasswordStore, TLC

CONSTANTS once, timed, added, l1, l2, l3, gen, inv

MCSecret == (l1 :> once) @@ (l2 :> once) @@ (l3 :> timed)
MCOf     == (gen :> added) @@ (inv :> timed)
=============================================================================
