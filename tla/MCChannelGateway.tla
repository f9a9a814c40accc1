-------------------------- MODULE MCChannelGateway --------------------------
EXTENDS ChannelGateway
=============================================================================
