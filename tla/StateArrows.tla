---------------------------- MODULE StateArrows ----------------------------
(***************************************************************************)
(* How status.state of a ClusterRequest moves, and who moves it: what the  *)
(* models of its controller and of the database sync share.  The sync has  *)
(* the arrows for the controller; that the controller follows them is      *)
(* ArrowsFollowed of ClusterRequestController.                             *)
(***************************************************************************)

\* The controller: Reconcile, handleApproved, handleGitCommitted, handleFailed.
ControllerArrows ==
  {<<"", "pending">>, <<"approved", "git-committed">>, <<"approved", "failed">>,
   <<"failed", "approved">>, <<"git-committed", "provisioning">>}

\* Buffalo and users approve requests, and the planned Hive watcher reports
\* the end of provisioning.
OthersArrows ==
  {<<"", "approved">>, <<"pending", "approved">>,
   <<"provisioning", "complete">>, <<"provisioning", "failed">>}
=============================================================================
