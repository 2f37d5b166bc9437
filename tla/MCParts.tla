------------------------------ MODULE MCParts ------------------------------
EXTENDS Parts
=============================================================================
