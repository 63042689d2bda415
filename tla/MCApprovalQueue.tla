--------------------------- MODULE MCApprovalQueue ---------------------------
(* A small instance of ApprovalQueue.                                        *)
EXTENDS ApprovalQueue
=============================================================================
