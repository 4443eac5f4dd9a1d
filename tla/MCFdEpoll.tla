----------------------------- MODULE MCFdEpoll -----------------------------
(* Instances of FdEpoll for TLC; the configurations give the numbers.      *)
EXTENDS FdEpoll
=============================================================================
