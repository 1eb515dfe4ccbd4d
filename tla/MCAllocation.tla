----------------------------- MODULE MCAllocation ------------------------------
\* Two allocations and the main loop; ports of two bits.
EXTENDS Allocation
=============================================================================
