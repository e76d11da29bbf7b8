-------------------------- MODULE MCConnectorSync ---------------------------
(* Small instances of the connector. *)
EXTENDS ConnectorSync

TwoIds == 1..2
None == {}
First == {1}
Second == {2}
=============================================================================
