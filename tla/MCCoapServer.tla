---------------------------- MODULE MCCoapServer ----------------------------
EXTENDS CoapServer

MCOwnIds == <<1, 2, 3, 4>>
MCPeerIds == {9}
=============================================================================
