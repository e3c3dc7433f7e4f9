--------------------------- MODULE MCNeighborList ---------------------------
(* Instances of NeighborList: the main thread alone, and interrupted by the *)
(* gcoap thread.                                                            *)
EXTENDS NeighborList, TLC

All == {"add", "latency", "throughput"}
Alone == (Main :> All) @@ (Coap :> {})
Interrupted == (Main :> All) @@ (Coap :> {"add"})
=============================================================================
