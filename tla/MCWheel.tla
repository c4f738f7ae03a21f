------------------------------ MODULE MCWheel ------------------------------
EXTENDS WheelProps
=============================================================================
