------------------------------- MODULE Mailbox -------------------------------
(***************************************************************************)
(* ModelUpdateMailbox (src/gpu/model_update_mailbox.cpp) and the validation *)
(* it shares with the RTL worker (src/gpu/gpu_protocol.cpp): a newest-value *)
(* mailbox from the GPU worker to the RTL worker.  Each operation holds the *)
(* one mutex for all it does, so each is one step.                          *)
(*                                                                          *)
(* A model update is its version and its pair of thresholds; the weights    *)
(* are data nothing here depends on.                                        *)
(***************************************************************************)
EXTENDS Integers

VARIABLES
  latest_update,   \* {} or {u}: the std::optional update nobody has taken
  mailbox_closed

mailboxVars == <<latest_update, mailbox_closed>>

MailboxInit ==
  /\ latest_update = {}
  /\ mailbox_closed = FALSE

(* validate_model_update: newer than the active model, BUY above SELL. *)
valid_model_update(update, active_version) ==
  /\ update.version > active_version
  /\ update.buy_threshold > update.sell_threshold

(* publish() throws, and changes nothing, exactly when this is false. *)
can_publish(update) ==
  /\ valid_model_update(update, 0)
  /\ ~mailbox_closed
  /\ \A unread \in latest_update : update.version > unread.version

(* A mistake: an unread update is kept and the newer one dropped. *)
publish_keeps_unread(update) ==
  /\ can_publish(update)
  /\ latest_update' = IF latest_update = {} THEN {update} ELSE latest_update
  /\ UNCHANGED mailbox_closed

publish(update) ==
  /\ can_publish(update)
  /\ latest_update' = {update}
  /\ UNCHANGED mailbox_closed

(* take() empties the mailbox; the caller uses what latest_update held. *)
take ==
  /\ latest_update' = {}
  /\ UNCHANGED mailbox_closed

close ==
  /\ mailbox_closed' = TRUE
  /\ UNCHANGED latest_update
=============================================================================
