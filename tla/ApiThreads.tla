----------------------------- MODULE ApiThreads -----------------------------
(***************************************************************************)
(* The endpoints of api/main.py are plain functions: FastAPI runs          *)
(* concurrent requests on the threads of one pool.                         *)
(***************************************************************************)
EXTENDS FiniteSets, Naturals

CONSTANT Threads \* the pool's threads that may serve requests of a kind at once

ASSUME ThreadsAssumption == IsFiniteSet(Threads)
=============================================================================
