------------------------------ MODULE MCRateLimit ------------------------------
(* An instance of RateLimit for TLC: four requests of two types, soc_80 with *)
(* the longer window and the smaller limit                                   *)
EXTENDS RateLimit, TLC

CONSTANTS soc_80, promo

MCTypeOf == 1 :> soc_80 @@ 2 :> soc_80 @@ 3 :> promo @@ 4 :> promo
MCMax == Global :> 2 @@ soc_80 :> 1 @@ promo :> 2
MCWindow == Global :> 2 @@ soc_80 :> 3 @@ promo :> 3

=============================================================================
