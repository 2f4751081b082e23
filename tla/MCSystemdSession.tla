-------------------------- MODULE MCSystemdSession --------------------------
(* One session on systemd that may be restarted once.                       *)
EXTENDS SystemdSession
=============================================================================
