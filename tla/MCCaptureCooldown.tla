------------------------ MODULE MCCaptureCooldown ------------------------
(* CaptureCooldown for TLC: one target probed over HTTP and ICMP, both      *)
(* mapped to one peer, and a tracker whose target has no peer.              *)
EXTENDS CaptureCooldown

CONSTANTS http1, icmp1, unmapped, peer1

MCTrackers == {http1, icmp1, unmapped}

MCPeerOf == (http1 :> peer1) @@ (icmp1 :> peer1) @@ (unmapped :> None)

=============================================================================
