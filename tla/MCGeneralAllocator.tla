---- MODULE MCGeneralAllocator ----
EXTENDS GeneralAllocator, TLC

Alike == Permutations(Threads)
===================================
