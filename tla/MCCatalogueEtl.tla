--------------------------- MODULE MCCatalogueEtl ---------------------------
(***************************************************************************)
(* A small instance of CatalogueEtl: two indices, the first with more rows *)
(* than a batch may hold.                                                  *)
(***************************************************************************)
EXTENDS CatalogueEtl, TLC

CONSTANTS p1, p2, m1

MCDocs == {p1, p2, m1}
MCIndexOf == p1 :> 1 @@ p2 :> 1 @@ m1 :> 2
=============================================================================
