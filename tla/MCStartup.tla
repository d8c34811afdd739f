------------------------------ MODULE MCStartup ------------------------------
\* Capacities around the threshold (which is 100 in the code) and below zero; files of
\* up to seven lines with progress logged every third (a tenth in the code).
EXTENDS Startup

MCCapacities == -1 .. 4
==============================================================================
