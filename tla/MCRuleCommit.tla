----------------------------- MODULE MCRuleCommit -----------------------------
(* The three tasks of the firmware: CAN alone on its core, the application    *)
(* above the UI on the other (main.cpp:2442-2457).                            *)
EXTENDS RuleCommit

CONSTANTS Can, App, Ui

AppAboveUi == {<<App, Ui>>}
=============================================================================
