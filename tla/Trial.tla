-------------------------------- MODULE Trial --------------------------------
(***************************************************************************)
(* One call of a function of the system: an input is chosen, and one step  *)
(* computes the output.  The modules named *Trials give the inputs and say *)
(* what the output must be.                                                *)
(***************************************************************************)
VARIABLES
    input,    \* [of: the function, ...: its arguments]
    output    \* <<>> before the call, <<its result>> after it

trialVars == <<input, output>>

Given(x) == input = x /\ output = <<>>
Call(f, result) == output = <<>> /\ input.of = f /\ output' = <<result>> /\ UNCHANGED input
Result == output[1]
Returned(f) == output # <<>> /\ input.of = f
=============================================================================
