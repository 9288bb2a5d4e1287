--------------------------- MODULE MCImapAccounts ---------------------------
(***************************************************************************)
(* Instances of ImapAccounts: a second sign-in beside the first, or a      *)
(* restart.                                                                *)
(***************************************************************************)
EXTENDS ImapAccounts
=============================================================================
