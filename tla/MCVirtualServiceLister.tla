---------------------- MODULE MCVirtualServiceLister -----------------------
(***************************************************************************)
(* Constants of VirtualServiceLister for TLC: three VSConfig names, two   *)
(* Services, one header name, an empty and a non-empty header value, two   *)
(* destinations.  Every set of up to three VSConfigs over these values is  *)
(* reachable, with every List order of it.                                 *)
(***************************************************************************)
EXTENDS VirtualServiceLister

MCConfigNames == 1..3
====
