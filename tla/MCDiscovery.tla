---------------------------- MODULE MCDiscovery ----------------------------
(* A small instance: two matches of discovery's season, batches of one,    *)
(* one bulk run at a time that asks for both.                              *)
EXTENDS Discovery

CONSTANTS m1, m2

MCListing == <<m1, m2>>

OneSeason == {{m1, m2}}
=============================================================================
