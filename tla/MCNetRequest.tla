---------------------------- MODULE MCNetRequest ----------------------------
(* Weather and one PublicIp, of which only the latter asks for TCP Fast     *)
(* Open, share three descriptors with all other modules.                    *)
EXTENDS NetRequest, TLC

CONSTANTS weather, publicip

BothRequests == {weather, publicip}
FastOpen == {publicip}
=============================================================================
