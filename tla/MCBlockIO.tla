----------------------------- MODULE MCBlockIO ------------------------------
EXTENDS BlockIO

=============================================================================
