------------------------------- MODULE MCLSSS -------------------------------
(* LSSS on all small policies, with the smallest group order that keeps    *)
(* the points of a gate apart.                                             *)
EXTENDS LSSS, PolicyTrees
=============================================================================
