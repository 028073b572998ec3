--------------------------- MODULE MCMcpDevices ----------------------------
(* Instances of McpDevices for TLC. *)
EXTENDS McpDevices, TLC

\* Devices and requests are interchangeable.
Symmetry == Permutations(Devices) \cup Permutations(Requests)
=============================================================================
