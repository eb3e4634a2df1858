-------------------------- MODULE MCWorkspaceClient --------------------------
(* Model checking of WorkspaceClient.  Requests are numbered in the order they  *)
(* are made, so there is nothing to permute.                                    *)
EXTENDS WorkspaceClient, TLC

=============================================================================
