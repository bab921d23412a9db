------------------------------ MODULE MCSeeders ------------------------------
(***************************************************************************)
(* The bundles of MCGossipState with queries for seeders: a query meets an *)
(* insertion, an addition and a withdrawal of a repository.                *)
(***************************************************************************)
EXTENDS MCGossipState, Seeders
=============================================================================
