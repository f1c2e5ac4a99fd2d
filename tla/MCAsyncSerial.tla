--------------------------- MODULE MCAsyncSerial ---------------------------
EXTENDS AsyncSerial

CONSTANTS w1, w2, d1, d2

MCWriters == {w1, w2}
MCData == {d1, d2}
=============================================================================
