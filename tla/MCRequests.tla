------------------------------- MODULE MCRequests -------------------------------
EXTENDS Requests

Spec == RequestInit /\ [][RequestNext]_requestVars
=============================================================================
