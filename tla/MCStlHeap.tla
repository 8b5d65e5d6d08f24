----------------------------- MODULE MCStlHeap ------------------------------
EXTENDS StlHeap

CONSTANTS d1, d2

MCKeys == {1, 2, 3}
MCDatas == {d1, d2}
=============================================================================
