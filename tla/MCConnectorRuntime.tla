------------------------- MODULE MCConnectorRuntime -------------------------
EXTENDS ConnectorRuntime
=============================================================================
