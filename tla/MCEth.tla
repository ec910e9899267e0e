------------------------------- MODULE MCEth --------------------------------
(***************************************************************************)
(* An instance of Eth for TLC: two wallets with addresses of one byte, and *)
(* every string of up to four characters to instantiate an account with.   *)
(***************************************************************************)
EXTENDS Eth

CONSTANTS alice, bob

MCWallets == {alice, bob}
MCAddrOf == [w \in MCWallets |-> IF w = alice THEN <<170>> ELSE <<10>>]
MCHexDigits == [c \in {"0", "a", "A"} |-> IF c = "0" THEN 0 ELSE 10]

\* "x" is no digit.
Chars == {"0", "a", "A", "x"}
MCStrings ==
    UNION {[1..n -> Chars] : n \in 0..4}
      \cup {<<"0", "x", "a">>, <<"0", "x", "a", "a", "0", "a">>}

MCTxs == {[sequence |-> n, bytes |-> <<n, b>>] : n \in 0..1, b \in {7, 8}}

Hashes ==
    {PersonalMessage(t.bytes) : t \in MCTxs} \cup {<<"keccak256", t.bytes>> : t \in MCTxs}

\* Signatures of every wallet, hash and parity with every v, right or wrong; cut
\* off; with a byte behind them; put together from two.
Full(w, h, p, v) == <<R(w, h, p), S(w, h, p), v>>

MCCreds ==
    {Full(w, h, p, v) : w \in MCWallets, h \in Hashes, p \in {0, 1}, v \in {0, 1, 2, 27, 28}}
  \cup {SubSeq(Full(w, h, 0, 0), 1, n) : w \in MCWallets, h \in Hashes, n \in 0..2}
  \cup {Append(Full(alice, h, p, p), 9) : h \in Hashes, p \in {0, 1}}
  \cup {<<R(alice, h, 0), S(bob, h, 0), 0>> : h \in Hashes}
=============================================================================
