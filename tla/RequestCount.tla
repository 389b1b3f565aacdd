---------------------------- MODULE RequestCount ----------------------------
(***************************************************************************)
(* What site_daily_stats promises: requests are counted, none twice.       *)
(***************************************************************************)
EXTENDS Naturals

VARIABLES accepted, counted

CountInit == accepted = 0 /\ counted = 0

Accept == accepted' = accepted + 1 /\ UNCHANGED counted

Count ==
    /\ \E n \in 1..(accepted - counted) : counted' = counted + n
    /\ UNCHANGED accepted

CountNext == Accept \/ Count

CountSpec == CountInit /\ [][CountNext]_<<accepted, counted>>
=============================================================================
