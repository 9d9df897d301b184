------------------------------ MODULE MCTaskLease ------------------------------
(***************************************************************************)
(* Model of TaskLease: three runners of two owners, a lease of two ticks   *)
(* and four acquisitions, enough for a holder to be superseded and for its *)
(* successor to be superseded in turn.                                     *)
(***************************************************************************)
EXTENDS TaskLease
================================================================================
