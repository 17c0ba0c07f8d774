-------------------------- MODULE MCDhcp4Srv ---------------------------
(***************************************************************************)
(* Instances of Dhcp4Srv for TLC.                                          *)
(***************************************************************************)
EXTENDS Dhcp4Srv

\* Two pools of one address each, so that the search crosses their boundary.
TwoPools == <<<<1, 1>>, <<3, 3>>>>
TwoAddresses == {1, 3}

\* One pool of three addresses.
OnePool == <<<<1, 3>>>>

\* Device 2 is the only one with a client id.  Its card sorts before the card
\* of device 1, and the replacement card 3 after it.
SecondHasClientId == [d \in Devices |-> IF d = 2 THEN 1 ELSE 0]
Cards == [d \in Devices |-> CASE d = 1 -> 2 [] d = 2 -> 1 [] OTHER -> d + 1]

=========================================================================
