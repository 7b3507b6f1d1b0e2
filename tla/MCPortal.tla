------------------------------ MODULE MCPortal ------------------------------
(* Two rows and two requests of a page at a time; two codes, three acts of *)
(* the tab that signs in and one of somebody else.                         *)
EXTENDS Portal

=============================================================================
