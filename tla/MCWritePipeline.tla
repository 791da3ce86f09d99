--------------------------- MODULE MCWritePipeline ---------------------------
EXTENDS WritePipeline
CONSTANTS alice, bob
MCUser == {alice, bob}
=============================================================================
