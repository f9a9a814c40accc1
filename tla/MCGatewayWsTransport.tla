------------------------ MODULE MCGatewayWsTransport ------------------------
EXTENDS GatewayWsTransport

=============================================================================
