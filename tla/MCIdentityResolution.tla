------------------------- MODULE MCIdentityResolution -------------------------
(* An instance of IdentityResolution: the owner of an address in one domain,  *)
(* and a visitor of another with the same device who is seen with the same    *)
(* address once.                                                              *)
EXTENDS IdentityResolution, TLC

CONSTANTS p1, p2

MCEmail == (p1 :> <<"mail">>) @@ (p2 :> <<None, "mail", "mail">>)
MCDevice == (p1 :> <<"device">>) @@ (p2 :> <<"device", "device", "tablet">>)
MCDomain == (p1 :> "retail") @@ (p2 :> "travel")
=============================================================================
