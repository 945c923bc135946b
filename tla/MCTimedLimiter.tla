------------------------------ MODULE MCTimedLimiter ------------------------------
EXTENDS TimedLimiter
===============================================================================
