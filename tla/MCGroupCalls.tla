---------------------------- MODULE MCGroupCalls ----------------------------
(* Instances of GroupCalls for TLC.                                        *)
EXTENDS GroupCalls, TLC
=============================================================================
