----------------------------- MODULE MCRegistry -----------------------------
(***************************************************************************)
(* Instances of Registry for TLC. An address is a user or the tuple        *)
(* Instantiate2 hashes; contracts may register accounts themselves, one    *)
(* level deep.                                                             *)
(***************************************************************************)
EXTENDS Registry

CONSTANTS u, v

MCBuildAddress(checksum, creator, salt) == <<checksum, creator, salt>>

\* Codes 1 and 2 are the same wasm file uploaded twice.
MCChecksum == [c \in CodeIDs |-> "wasm"]

\* The accounts u can register, one that the first of them can, and one that this
\* one can in turn.
ByUser(salt) == <<"wasm", u, salt>>
ByAccount == <<"wasm", ByUser(1), 1>>
MCAddr == {u, v, ByUser(1), ByUser(2), ByAccount, <<"wasm", ByAccount, 1>>}

MCNumber == [x \in {u, v} |-> IF x = u THEN 0 ELSE 1]

All == NewParams(TRUE, <<>>, 1, 1)
OnlyTwo == NewParams(FALSE, <<2>>, 1, 1)
NoGas == NewParams(TRUE, <<>>, 1, 0)
Twice == NewParams(FALSE, <<2, 2>>, 1, 1)
Unsorted == NewParams(FALSE, <<2, 1>>, 1, 1)
Both == NewParams(TRUE, <<1>>, 1, 1)

MCGenesis == {[nextAccountID |-> 1, params |-> All],
              [nextAccountID |-> 1, params |-> Unsorted]}

MCUpdates == {OnlyTwo, NoGas, Twice, Both}
=============================================================================
