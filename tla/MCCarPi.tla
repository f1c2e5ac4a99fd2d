------------------------------ MODULE MCCarPi ------------------------------
EXTENDS CarPi

CONSTANTS main1, query

MCWriters == {main1}
MCData == {query}
=============================================================================
