----------------------------- MODULE MCHoming -----------------------------
\* Instances of Homing.
EXTENDS Homing
=============================================================================
