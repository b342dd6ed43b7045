----------------------------- MODULE MCAccounts -----------------------------
(* A superuser with a password, a superuser who signs in with two           *)
(* providers and has no address yet, and an id for a new account.           *)
EXTENDS Accounts

CONSTANTS e1, e2, e3, s1, s2, s3, github, google, k1

MCProviderOf == [s \in Subjects |-> IF s = s2 THEN google ELSE github]
MCEmailOf == [s \in Subjects |-> IF s = s3 THEN e2 ELSE None]
MCExisting == [u \in Users |->
    CASE u = 1 -> [email |-> e1, password |-> TRUE, verified |-> TRUE,
                   pending |-> FALSE, active |-> TRUE]
      [] u = 2 -> [email |-> s1, password |-> FALSE, verified |-> FALSE,
                   pending |-> TRUE, active |-> TRUE]
      [] OTHER -> None]
MCRegistered == [k \in Keys |-> IF k = k1 THEN 2 ELSE None]
MCNoPasskeys == [k \in Keys |-> None]
MCLinked == [s \in Subjects |-> IF s \in {s1, s2} THEN 2 ELSE None]
=============================================================================
