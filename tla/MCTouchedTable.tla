--------------------------- MODULE MCTouchedTable ---------------------------
EXTENDS TouchedTable

\* Seven buffers whose homes collide, and wrap around in tables of 4, 8 and 16.
SevenBuffers == 1 .. 7
Colliding == <<3, 3, 7, 11, 15, 15, 2>>
=============================================================================
