-------------------------- MODULE MCInboxSettlement --------------------------
(***************************************************************************)
(* Small instances of InboxSettlement.                                     *)
(***************************************************************************)
EXTENDS InboxSettlement
=============================================================================
