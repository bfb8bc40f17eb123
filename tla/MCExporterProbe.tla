--------------------------- MODULE MCExporterProbe --------------------------
(* An instance of the exporter probe for TLC.                              *)
EXTENDS ExporterProbe, TLC

CONSTANTS own, next, a1, a2, a3

\* A node and a neighbour, which share one address of the three.
Pools == (own :> {a1, a2}) @@ (next :> {a2, a3})
=============================================================================
