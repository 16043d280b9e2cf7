------------------------------ MODULE MCJobQueue ------------------------------
(* The maxima of the code (3 and 5 and 10) are lowered to 2, which every   *)
(* passing run reaches; four puts are a job and its three duplicates, or   *)
(* two mails and their error mails.                                        *)
EXTENDS JobQueue
=============================================================================
