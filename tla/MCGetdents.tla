------------------------------ MODULE MCGetdents ------------------------------
(* A small instance of Getdents: four records, two of them of one inode, in a *)
(* buffer that holds three or four of them; d_reclen wraps at 4.              *)
EXTENDS Getdents

MCDir == << [ino |-> 1, len |-> 1], [ino |-> 2, len |-> 2],
            [ino |-> 3, len |-> 1], [ino |-> 2, len |-> 1] >>
=============================================================================
