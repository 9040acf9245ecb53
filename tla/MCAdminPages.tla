---------------------------- MODULE MCAdminPages ----------------------------
(***************************************************************************)
(* A disbursement and a payment to undo, with up to two lists and two      *)
(* rollbacks under way; a loan of up to two payments, with two requests    *)
(* under way; lists of up to four rows in pages of one or two.             *)
(***************************************************************************)
EXTENDS AdminPages

CONSTANTS d1, p1, l1
=============================================================================
