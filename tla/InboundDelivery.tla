-------------------------- MODULE InboundDelivery --------------------------
(***************************************************************************)
(* What an inbound path promises of the mails of one account, whether it   *)
(* polls the Gmail history or searches an INBOX: a mail is taken up, then  *)
(* settled once and for all, and the mark that says where to go on from    *)
(* (oauth_history_id, lastInboxUID) covers only mails that are settled or  *)
(* in hand.  A mail in hand may be given back, as after a crash, only      *)
(* while the mark does not cover it: it will be found again.               *)
(***************************************************************************)
VARIABLES
  mails,    \* the mails that have arrived
  hand,     \* taken up and not settled
  settled,  \* handed to the processor or knowingly given up
  covered   \* the mails the mark says need no more looking at

vars == <<mails, hand, settled, covered>>

Init == hand = {} /\ settled = {} /\ covered = {}

Arrive ==
  /\ mails \subseteq mails'
  /\ UNCHANGED <<hand, settled, covered>>

\* Mails are found; some of them may be stepped over at once.
TakeUp ==
  /\ hand \subseteq hand' /\ hand' \subseteq mails
  /\ settled \subseteq settled' /\ settled' \subseteq mails
  /\ hand' \cap settled' = {}
  /\ UNCHANGED <<mails, covered>>

\* What is settled stays so.
Settle ==
  /\ settled \subseteq settled' /\ settled' \subseteq mails
  /\ hand' = hand \ settled'
  /\ UNCHANGED <<mails, covered>>

\* The mark moves, forth or back, perhaps stepping over mails.
Cover ==
  /\ settled \subseteq settled' /\ settled' \subseteq mails
  /\ hand' = hand \ settled'
  /\ covered' \subseteq settled' \cup hand'
  /\ UNCHANGED mails

GiveBack ==
  /\ hand' \subseteq hand
  /\ (hand \ hand') \cap covered = {}
  /\ UNCHANGED <<mails, settled, covered>>

Next == Arrive \/ TakeUp \/ Settle \/ Cover \/ GiveBack

Spec == Init /\ [][Next]_vars
=============================================================================
