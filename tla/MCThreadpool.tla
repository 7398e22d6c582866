----------------------------- MODULE MCThreadpool -----------------------------
(* A small instance of Threadpool for TLC.                                     *)
EXTENDS Threadpool
==============================================================================
