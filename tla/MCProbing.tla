----------------------------- MODULE MCProbing -----------------------------
\* Instances of Probing.
EXTENDS Probing
=============================================================================
