----------------------------- MODULE MCRateStore -----------------------------
(***************************************************************************)
(* The rate table on small instances: one code, whose transaction covers   *)
(* the fetch, or two, of which the second is fetched after a commit.       *)
(***************************************************************************)
EXTENDS RateStore

CONSTANTS usd, uf

OneCode  == <<uf>>
TwoCodes == <<usd, uf>>
=============================================================================
