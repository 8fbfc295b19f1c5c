------------------------------- MODULE MCPwr -------------------------------
(* Small instances of the power subsystem for TLC.                         *)
EXTENDS Pwr

CONSTANTS main, app, pwr, none

MCClients == {main, app}
OneClient == {main}
MCAppRails == {1}
OnOff == {TRUE, FALSE}
OnOnly == {TRUE}
=============================================================================
