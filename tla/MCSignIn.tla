------------------------------ MODULE MCSignIn ------------------------------
(***************************************************************************)
(* Instances of SignIn.                                                    *)
(***************************************************************************)
EXTENDS SignIn
=============================================================================
