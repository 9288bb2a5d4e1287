----------------------------- MODULE MCImapSent -----------------------------
(* One goroutine that calls StartIDLE, time and again, and a few dials. *)
EXTENDS ImapSent

CONSTANTS s1
=============================================================================
