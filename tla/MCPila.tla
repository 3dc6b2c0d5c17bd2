------------------------------- MODULE MCPila -------------------------------
EXTENDS PropsPila
CONSTANTS p1, x, y
MCNombres == {97, 98}
MCValores == {1, 256, -1}
MCRellenos == {0, 255}
MCAjeno == {7, -1}
=============================================================================
