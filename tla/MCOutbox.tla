------------------------------ MODULE MCOutbox ------------------------------
EXTENDS RuntimeOutbox
=============================================================================
