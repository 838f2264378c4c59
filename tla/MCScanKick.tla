------------------------------ MODULE MCScanKick ------------------------------
(* Three concurrent calls of two orgs over two keys: enough for a winner, a  *)
(* loser and a bystander of another org or another key.                      *)
EXTENDS ScanKick
=============================================================================
