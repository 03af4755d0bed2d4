-------------------------- MODULE MCServerCampaign --------------------------
(* Small instances of ServerCampaign for TLC.                               *)
EXTENDS ServerCampaign
=============================================================================
