---------------------------- MODULE MCChainFire ----------------------------
(* Two fires in flight, of one-time and recurring rows, with and without auto *)
(* gas, through every kind of resolver.  The runtime of one of them signs     *)
(* commands without a hash.                                                   *)
EXTENDS ChainFire

CONSTANTS f1, f2, i1, i2

MCFires == {f1, f2}
MCItems == {i1, i2}
MCHashed == {f1} \X {1, 2}

Row(resolver, once, autoGas) == [resolver |-> resolver, once |-> once, autoGas |-> autoGas]

MCDefinitions ==
    {Row("none", TRUE, FALSE), Row("none", FALSE, TRUE),
     Row("single", TRUE, TRUE), Row("multi", TRUE, FALSE),
     Row("unknown", TRUE, FALSE)}
=============================================================================
