------------------------------- MODULE MCHeap -------------------------------
EXTENDS HeapProperties

\* NULL, and blocks of 5 and 8 rows; sf_memalign() makes the smallest block of 0.
SomeSizes == {0, 32, 56}

=============================================================================
