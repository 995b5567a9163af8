--------------------------- MODULE MCDeclarations ---------------------------
(***************************************************************************)
(* An instance of Declarations for TLC: an application that declares a     *)
(* workflow of its own under the id of the portfolio pack's; the source    *)
(* keeps the workflow and, of what the pack's refers to, a class and the   *)
(* template.                                                               *)
(***************************************************************************)
EXTENDS Declarations

MCOwn == [k \in {"wf_portfolio_buildup"} |->
            Declaration("workflow", {"val_own", "pt_portfolio_execution"})]
MCKept == {"wf_portfolio_buildup", "cls_portfolio_item", "pt_portfolio_execution"}
=============================================================================
