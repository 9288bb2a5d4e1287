--------------------------- MODULE MCImapRecovery ---------------------------
(* Instances of ImapRecovery: with a watchdog, and with the idle loop alone. *)
EXTENDS ImapRecovery, TLC
=============================================================================
