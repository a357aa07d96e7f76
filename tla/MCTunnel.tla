------------------------------ MODULE MCTunnel ------------------------------
\* Instances of Tunnel.
EXTENDS Tunnel
=============================================================================
