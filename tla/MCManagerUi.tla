----------------------------- MODULE MCManagerUi -----------------------------
(* TLC instances of the manager.                                            *)
EXTENDS ManagerUi, TLC
=============================================================================
