---------------------------- MODULE MCTransfers ----------------------------
(* Two calls.  Both need the layer a; the first one also needs a layer on    *)
(* top of it, with data of its own or with the same data once more.          *)
EXTENDS LayerTransfers, TLC

CONSTANTS c1, c2, a, b

MCPulls == {c1 :> <<a, top>> @@ c2 :> <<a>> : top \in {a, b}}
=============================================================================
