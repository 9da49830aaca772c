-------------------------- MODULE MCCatalogListing --------------------------
(* A small catalog for CatalogListing: namespaces on three levels.        *)
EXTENDS CatalogListing

\* a and b lie below the root, c below a.  "hidden" is not exposed.
MCSpaces == {"root", "a", "b", "c"}
MCChildrenIn == [ns \in MCSpaces |-> CASE ns = "root" -> <<"a", "b">>
                                       [] ns = "a" -> <<"c">>
                                       [] OTHER -> <<>>]
MCTablesIn == [ns \in MCSpaces |-> CASE ns = "root" -> <<"hidden", "r">>
                                     [] ns = "b" -> <<"t">>
                                     [] ns = "c" -> <<"u">>
                                     [] OTHER -> <<>>]
MCStored == [t \in {"hidden", "r", "t", "u"} |->
               CASE t = "hidden" -> {"broken"}
                 [] t = "r" -> {"absent", "iceberg", "parquet", "view", "broken"}
                 [] t = "t" -> {"iceberg"}
                 [] t = "u" -> {"absent", "iceberg"}]
MCExposed == {"r", "t", "u"}
=============================================================================
