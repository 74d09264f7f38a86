---------------------------- MODULE MCWinFspHost ----------------------------
(* A small instance of WinFspHost for TLC.                                 *)
EXTENDS WinFspHost

=============================================================================
