---------------------------- MODULE MCProcessPipes ----------------------------
(* ProcessPipes on two loads, the one busy on stdin, the other on stdout.      *)
EXTENDS ProcessPipes

MCLoads == {[frames |-> 2, bytes |-> 0], [frames |-> 0, bytes |-> 3]}
=============================================================================
