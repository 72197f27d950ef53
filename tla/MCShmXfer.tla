------------------------------ MODULE MCShmXfer ------------------------------
(* Small instances of ShmXfer: five distinct bytes through a segment of two *)
(* make at least three transfers, so every semaphore is used again.         *)
EXTENDS ShmXfer

MCInput == <<1, 2, 3, 4, 5>>
MCSems == {0, 1}
===============================================================================
