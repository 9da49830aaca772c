-------------------------- MODULE MCVirtualSchema --------------------------
EXTENDS VirtualSchema

\* Two identifiers fold to ORDERS; the entries have different lengths.
MCOrder == <<"Orders", "orders", "items">>
MCNames == {"ORDERS", "ITEMS"}
MCFlatten == [i \in ToSet(MCOrder) |-> IF i = "items" THEN "ITEMS" ELSE "ORDERS"]
MCFilters == {"items_only"}
MCExposed == [f \in MCFilters |-> {"ITEMS"}]
MCFactors == {"four"}
MCEntryLen == [i \in ToSet(MCOrder) |-> IF i = "orders" THEN 3 ELSE 2]
=============================================================================
