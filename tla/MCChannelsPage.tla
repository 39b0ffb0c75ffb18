---------------------------- MODULE MCChannelsPage ----------------------------
(* Instances of ChannelsPage for TLC. *)
EXTENDS ChannelsPage

Start(at, grant, credentials, opening) ==
  [tab |-> at, token |-> grant, ready |-> credentials, first |-> opening]

ThreeStarts == {Start("channels", 0, TRUE, FALSE), Start("channels", 1, TRUE, TRUE),
                Start("oauth", 0, FALSE, FALSE)}
=============================================================================
