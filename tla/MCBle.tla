-------------------------------- MODULE MCBle --------------------------------
(* Settings of two slots for the runs of BleHistory: a balancer and a BMS, *)
(* of which the balancer may be deactivated by a trigger and the BMS may   *)
(* lose its address.                                                       *)
EXTENDS BleHistory

MCSettings == {<<"neey", "jk">>, <<"neey", "noMac">>, <<"none", "jk">>}
MCDeactivated == {{}, {1}}
=============================================================================
