------------------------------ MODULE MCEventTypes ------------------------------
(* Instances of EventTypes for TLC. *)
EXTENDS EventTypes

CONSTANTS a, b, c, d, e, k1, k2, k3

Catalog == <<a, b>>

\* The catalog in both directions, and a list that gives a row twice.
CatalogOrders == {<<a, b>>, <<b, a>>, <<a, a>>}

ASSUME OrdersAssumption == WholeOrders
================================================================================
