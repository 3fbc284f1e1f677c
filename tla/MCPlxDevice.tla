---------------------------- MODULE MCPlxDevice ----------------------------
(* PlxDevice with one to three processes that open and close the device.   *)
EXTENDS PlxDevice, TLC

CONSTANTS r1, r2, r3

ThreeReaders == {r1, r2, r3}
TwoReaders == {r1, r2}
OneReader == {r1}

===========================================================================
