-------------------------- MODULE MCMemoryCapture --------------------------
\* MemoryCapture on a few pages and chunks; the threads are interchangeable, and so
\* are the chunks, whose addresses are never computed with.
EXTENDS MemoryCapture
Symmetries == Permutations(Threads) \cup Permutations(Chunks)
============================================================================
