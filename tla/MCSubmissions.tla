---------------------------- MODULE MCSubmissions ----------------------------
(* One submission ticket, three requests that bring one of two bundles.    *)
EXTENDS Submissions
=============================================================================
