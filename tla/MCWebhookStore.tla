---------------------------- MODULE MCWebhookStore ----------------------------
(***************************************************************************)
(* Instances of the alert file: three records of one to three bytes and    *)
(* chunks of two, so that newlines fall on either side of every boundary,  *)
(* and a record spans two boundaries.                                      *)
(***************************************************************************)
EXTENDS WebhookStore

Lengths == <<2, 3, 1>>
================================================================================
