-------------------------------- MODULE Delay --------------------------------
(***************************************************************************)
(* The two computations that pace the proxy: the delay between attempts    *)
(* (src/pkg/proxy/delay.go with math2.MinMaxInt) and the number of         *)
(* processors to use (src/cmd/proxy/main.go, AutoGOMAXPROCS).              *)
(***************************************************************************)
EXTENDS Integers

(* math2.MinMaxInt, for min <= max.                                        *)
MinMaxInt(v, min, max) ==
    LET low == IF v > min THEN v ELSE min
    IN  IF low < max THEN low ELSE max

(* MUTANT, not the code: the value is not kept from growing.               *)
NextValueUnbounded(value, min, max) ==
    IF value * 2 > min THEN value * 2 ELSE min

(* DelayExp2.NextValue: the delay doubles, between min and max.            *)
NextValue(value, min, max) == MinMaxInt(value * 2, min, max)

(* AutoGOMAXPROCS after one busy second: a quarter of the way up, at least *)
(* one step, and not at all at the maximum.                                *)
MoreProcs(ncpu, max) == ncpu + ((max - ncpu + 3) \div 4)

(* AutoGOMAXPROCS after ten idle seconds, each seen above the minimum.     *)
FewerProcs(ncpu) == ncpu - 1
=============================================================================
