----------------------------- MODULE MCDesktop ------------------------------
EXTENDS DesktopProperties
CONSTANTS p1, p2
MCPids == {p1, p2}
=============================================================================
