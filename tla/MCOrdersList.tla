------------------------------ MODULE MCOrdersList ------------------------------
(* One open order that comes and goes, two pages, two limits, and a filter *)
(* that no swap matches.                                                   *)
EXTENDS OrdersList

CONSTANTS o1, all, none, s1, s2, s3

MCFilters == {all, none}
MCLimits == {10, 50}
=============================================================================
