----------------------------- MODULE MCService ------------------------------
(***************************************************************************)
(* An instance of Service for TLC: the authority and another sender, code  *)
(* IDs and gas limits on both sides of the first varint boundary.          *)
(***************************************************************************)
EXTENDS Service

Gov == <<97>>
Other == <<98>>
MCSenders == {Gov, Other}
MCSalts == {<<>>, <<7>>}
MCData == <<5>>
MCBuildAddress(codeID, creator, salt) == creator \o <<codeID % 256>> \o salt

P(all, list, before, after) ==
    [allowAllCodeIDs |-> all, allowedCodeIDs |-> list,
     maxGasBefore |-> before, maxGasAfter |-> after]

MCGenesis == {P(TRUE, <<>>, 128, 1), P(TRUE, <<>>, 0, 1)}

\* Valid ones, one that is not sorted, one without gas.
MCParams ==
    {P(FALSE, <<1, 300>>, 127, 128), P(FALSE, <<300, 1>>, 1, 1), P(TRUE, <<>>, 1, 0)}

\* By hand: Params in two parts, to be merged (the second list follows the first,
\* the second gas limits count; each part alone would be valid); no Params at all; a
\* list packed one by one; a list with a duplicate.
InTwoParts ==
    [bz |-> <<10, 1, 97, 18, 7, 18, 1, 1, 24, 5, 32, 1, 18, 8, 18, 2, 128, 1, 24, 9, 32, 2>>,
     sender |-> Gov, params |-> P(FALSE, <<1, 128>>, 9, 2)]

Missing == [bz |-> <<10, 1, 97>>, sender |-> Gov, params |-> Nil]
OneByOne ==
    [bz |-> <<18, 9, 32, 1, 24, 1, 16, 2, 16, 172, 2, 10, 1, 97>>,
     sender |-> Gov, params |-> P(FALSE, <<2, 300>>, 1, 1)]

Duplicate ==
    [bz |-> <<10, 1, 97, 18, 8, 18, 2, 3, 3, 24, 1, 32, 1>>,
     sender |-> Gov, params |-> P(FALSE, <<3, 3>>, 1, 1)]

MCRaw == {InTwoParts, Missing, OneByOne, Duplicate}
=============================================================================
