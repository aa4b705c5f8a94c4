----------------------------- MODULE MCFtpAccess -----------------------------
(* Small instances of FtpAccess: users are interchangeable.                 *)
EXTENDS FtpAccess, TLC

UserSymmetry == Permutations(UserNames)
=============================================================================
