------------------------------- MODULE MCDvs -------------------------------
(* Four channels in two groups and two frames; PIPE_CAP is never reached,  *)
(* as a pipe of 64 KiB holds thousands of elements.                        *)
EXTENDS Dvs
=============================================================================
