--------------------------- MODULE ParamsRegister ---------------------------
(***************************************************************************)
(* What the module promises about its parameters: a register of values,    *)
(* always valid, that only the authority can write, whose writes become    *)
(* visible to readers with the block they are in, and of which a reader    *)
(* sees exactly what was written.                                          *)
(***************************************************************************)
CONSTANTS
    Nil,         \* no value yet
    Authority,   \* the one writer
    Validate(_)  \* the values that may be written

VARIABLES
    asked,      \* <<sender, value>>: what clients asked to be written
    genesis,    \* the value the chain started with
    working,    \* the value in the block being executed
    committed,  \* the value after the last block
    answers     \* the values readers have been given

vars == <<asked, genesis, working, committed, answers>>

Init ==
    /\ asked = {}
    /\ Validate(genesis)
    /\ working = genesis
    /\ committed = Nil
    /\ answers = {}

Ask ==
    /\ asked \subseteq asked'
    /\ UNCHANGED <<genesis, working, committed, answers>>

Write ==
    /\ <<Authority, working'>> \in asked
    /\ Validate(working')
    /\ UNCHANGED <<asked, genesis, committed, answers>>

Commit ==
    /\ committed' = working
    /\ UNCHANGED <<asked, genesis, working, answers>>

\* The block is lost. What is executed again starts from the last one.
Restart ==
    /\ working' = IF committed = Nil THEN genesis ELSE committed
    /\ UNCHANGED <<asked, genesis, committed, answers>>

Read ==
    /\ committed # Nil
    /\ answers' = answers \cup {committed}
    /\ UNCHANGED <<asked, genesis, working, committed>>

Next == Ask \/ Write \/ Commit \/ Restart \/ Read

Spec == Init /\ [][Next]_vars
=============================================================================
