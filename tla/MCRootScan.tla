----------------------------- MODULE MCRootScan -----------------------------
(***************************************************************************)
(* RootScan with two nested folders: "deep" lies under both, "top" under the *)
(* outer one only. Adding the outer folder moves "deep" from one root to the *)
(* other at the next refresh, removing it moves "deep" back.                *)
(***************************************************************************)
EXTENDS RootScan

Nested ==
    [s \in Sounds |-> IF s = "deep" THEN <<"outer", "inner">> ELSE <<"outer">>]
=============================================================================
