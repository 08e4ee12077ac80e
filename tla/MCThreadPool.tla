---------------------------- MODULE MCThreadPool ----------------------------
(* The pool of three threads that create_backend and create_controller ask *)
(* for.  Five jobs: two of them have to wait for a thread.                 *)
EXTENDS ThreadPool
=============================================================================
