----------------------------- MODULE AdminPages -----------------------------
(***************************************************************************)
(* One tab of the admin application.  It shows a list, or the dashboard,   *)
(* whose dialogs are looked at one group at a time: what the others do to  *)
(* the database is done by other clients too.  Going to another page and   *)
(* back starts from its initial state.                                     *)
(***************************************************************************)
EXTENDS RollbackDialog, LoanDialogs, ListPages

VARIABLE page

tab == <<vars, dashboard, pages, page>>

TabInit ==
  /\ page \in {"list", "loan dialogs", "rollback dialog"}
  /\ DialogInit /\ LoanDialogsInit /\ PagesInit
  /\ page # "list" => endpoint = "whole"   \* one stands for all

TabNext ==
  /\ UNCHANGED page
  /\ \/ page = "list" /\ PagesNext /\ UNCHANGED <<vars, dashboard>>
     \/ page = "loan dialogs" /\ LoanDialogsNext /\ UNCHANGED <<vars, pages>>
     \/ page = "rollback dialog" /\ DialogNext /\ UNCHANGED <<dashboard, pages>>

TabSpec == TabInit /\ [][TabNext]_tab
=============================================================================
