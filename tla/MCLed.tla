--------------------------------- MODULE MCLed ---------------------------------
(***************************************************************************)
(* LedTest for TLC.  Of one, two or three LEDs every mapping to the        *)
(* colours of a chip, and a colour that it does not have; most are         *)
(* refused.  For one mapping of each kind that is accepted, every limit on *)
(* every channel.                                                          *)
(***************************************************************************)
EXTENDS LedTest

Single(n) == [1..n -> [1..1 -> ColorIds]]

MCDevicetrees ==
    [leds : [1..1 -> UNION {[1..n -> ColorIds] : n \in 1..3}], limits : {<<20>>}]
    \cup [leds : {<< <<"blue", "red", "green">> >>}, limits : [1..1 -> CurrentLimits]]
    \cup [leds : Single(2), limits : {<<10, 10>>}]
    \cup [leds : Single(3), limits : {<<10, 20, 30>>}]
    \cup [leds : {<< <<"green">>, <<"red">>, <<"blue">> >>},
          limits : {<<20, 30, 40>>, <<30, 40, 10>>, <<40, 10, 20>>}]
=============================================================================
