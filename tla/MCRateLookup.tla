---------------------------- MODULE MCRateLookup ----------------------------
(***************************************************************************)
(* Value lookups on a small instance: months of four days, values looked   *)
(* for two days back, and providers that publish different dates.  Day 3   *)
(* and 4 are a weekend, after which the year turns; the third provider has *)
(* a day that the first lacks, the first one that the third lacks, and the *)
(* first has no UTM series configured.                                     *)
(***************************************************************************)
EXTENDS RateLookup

CONSTANTS uf, utm, YearEnd

\* The Banco Central is asked for a date, the others for a year.
SmallPages ==
    [p \in Provider |->
        [d \in Date |->
            <<p, IF p = "bcch" THEN d ELSE IF d <= YearEnd THEN 1 ELSE 2>>]]

Firsts == {d \in Date : First(d) = d}

SmallHolds ==
    [p \in Provider |->
        [c \in Code |->
            CASE c \in Monthly    -> IF p = "bcch" THEN {}
                                    ELSE Firsts \ {1 - MonthDays}
              [] p = "bcch"       -> {0, 1}
              [] p = "mindicador" -> {1, 2, 5}
              [] OTHER            -> {}]]
=============================================================================
