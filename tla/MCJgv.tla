------------------------------- MODULE MCJgv -------------------------------
\* Instances of Jgv.
EXTENDS Jgv

\* Forwards at full speed, a step backwards, and stop
MCOrders == {-1, 0, 2}
=============================================================================
