----------------------------- MODULE Endpoints -----------------------------
(***************************************************************************)
(* The endpoint of Endpoint as one of its three classes.                    *)
(***************************************************************************)
EXTENDS Endpoint

Unix == INSTANCE UnixConnection
Pipe == INSTANCE PipeAndFifo
Udp == INSTANCE UdpEndpoint

EndpointNext == Unix!Next \/ Pipe!Next \/ Udp!Next

EndpointSpec == EndpointInit /\ [][EndpointNext]_endpointVars

=============================================================================
