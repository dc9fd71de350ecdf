----------------------- MODULE MCPartitionSizeSearch -----------------------
(* Every message of up to 30 members of 1, 2 or 4 bytes, and every request *)
(* of up to 64 bytes: the search is entered below and above the five       *)
(* members at which it divides by zero, with primes and with composites.   *)
EXTENDS PartitionSizeSearch

MCCounts   == 1 .. 30
MCExtents  == {1, 2, 4}
MCRequests == 0 .. 64
=============================================================================
