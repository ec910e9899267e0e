-------------------------------- MODULE Eth ---------------------------------
(***************************************************************************)
(* An account of the account-eth contract, controlled by an Ethereum       *)
(* wallet. Neither the address it is instantiated with nor the credential  *)
(* of a transaction has a known form: both are strings that before_tx cuts *)
(* up.                                                                     *)
(*                                                                         *)
(* Lengths are scaled down: an address has AddrLen bytes of two hex digits *)
(* for 20, and the 64 bytes of r and s are two parts here, so that v is    *)
(* the third. A part knows the key and the hash it was made with.          *)
(***************************************************************************)
EXTENDS Integers, Sequences

CONSTANTS
    Nil,        \* no credential; a key that is nobody's
    Wallets,    \* the wallets (keys) there are
    AddrOf,     \* the address of each: the last bytes of keccak256 of the key
    AddrLen,    \* bytes of an address
    HexDigits,  \* characters hex::decode takes, with their values
    Strings,    \* strings an account may be instantiated with
    Txs,        \* the transactions: their sequence and their sign bytes
    Creds       \* the credentials they may carry

IsSequence(s) == Len(s) \in Nat /\ s = [i \in 1..Len(s) |-> s[i]]

ASSUME EthAssumption ==
    /\ Nil \notin Wallets \cup Nat
    /\ Nil \notin Strings /\ Nil \notin Creds
    /\ AddrLen \in Nat
    /\ AddrOf \in [Wallets -> [1..AddrLen -> 0..255]]
    /\ \A w, x \in Wallets : AddrOf[w] = AddrOf[x] => w = x
    /\ HexDigits \in [DOMAIN HexDigits -> 0..15]
    /\ \A str \in Strings : IsSequence(str)
    /\ \A cred \in Creds : IsSequence(cred)
    /\ \A t, u \in Txs : t.bytes = u.bytes => t = u

VARIABLES
    address,  \* ETHEREUM_ADDRESS, a string; Nil before the account exists
    seq,      \* the account's sequence
    history,  \* the transactions before_tx has accepted, with their credentials
    result    \* how the last call of before_tx ended

vars == <<address, seq, history, result>>

-----------------------------------------------------------------------------
(* Strings and hashes *)

\* hex::decode (external) of str[2..], whatever the two characters before it are.
\* Upper and lower case are the same.
IsHex(str) == Len(str) % 2 = 0 /\ \A i \in DOMAIN str : str[i] \in DOMAIN HexDigits

Bytes(str) ==
    [i \in 1..(Len(str) \div 2) |->
        16 * HexDigits[str[2 * i - 1]] + HexDigits[str[2 * i]]]

WithoutPrefix(str) == SubSeq(str, 3, Len(str))

\* The length stands in decimal before the message. The hash is as good as the
\* bytes: two messages that differ have different hashes.
hash_message(bytes) == <<"keccak256", "Ethereum Signed Message", Len(bytes), bytes>>

-----------------------------------------------------------------------------
(* crypto.rs *)

\* Mutant: 27 and 28 the wrong way round.
normalize_recovery_id_Swapped(id) ==
    CASE id \in {0, 1} -> id [] id = 27 -> 1 [] id = 28 -> 0 [] OTHER -> Nil

normalize_recovery_id(id) ==
    CASE id \in {0, 1} -> id [] id = 27 -> 0 [] id = 28 -> 1 [] OTHER -> Nil

\* The two parts and the parity of wallet w's signature of a hash.
R(w, hash, parity) == <<"r", w, hash, parity>>
S(w, hash, parity) == <<"s", w, hash, parity>>

\* A signature is never taken for a missing credential.
ASSUME SignatureAssumption ==
    \A w \in Wallets, t \in Txs, parity \in {0, 1}, v \in {0, 1, 27, 28} :
        LET hash == hash_message(t.bytes)
        IN  <<R(w, hash, parity), S(w, hash, parity), v>> # Nil

\* Api.secp256k1_recover_pubkey (external): the key that made the signature, for the
\* hash and the parity it was made with; for others a key that is nobody's, or none
\* at all, which is an error too. The second signature (r, n - s) of the other parity,
\* from which the same key is recovered, is left out.
secp256k1_recover_pubkey(hash, r, s, id) ==
    IF \E w \in Wallets : r = R(w, hash, id) /\ s = S(w, hash, id)
    THEN CHOOSE w \in Wallets : r = R(w, hash, id) /\ s = S(w, hash, id)
    ELSE Nil

\* Mutant: compared as far as the stored address goes.
SameAddressPrefix(addr_bytes, w) ==
    \/ addr_bytes = <<>>
    \/ w # Nil /\ \E n \in 1..AddrLen : addr_bytes = SubSeq(AddrOf[w], 1, n)

SameAddress(addr_bytes, w) == w # Nil /\ addr_bytes = AddrOf[w]

\* Bytes beyond the 65th are not looked at; one byte too few and the slice panics.
verify(msg_bytes, sig_bytes, addr_bytes) ==
    IF Len(sig_bytes) < 3 THEN "panic"
    ELSE LET recovery_id == normalize_recovery_id(sig_bytes[3])
             w == secp256k1_recover_pubkey(hash_message(msg_bytes),
                                           sig_bytes[1], sig_bytes[2], recovery_id)
         IN  IF recovery_id = Nil THEN "InvalidRecoveryId"
             ELSE IF ~SameAddress(addr_bytes, w) THEN "RecoveredPubkeyMismatch"
             ELSE "ok"

-----------------------------------------------------------------------------
(* execute.rs *)

\* The address is decoded before anything else, in a simulation too.
before_tx(str, tx_bytes, cred, simulate) ==
    IF Len(str) < 2 THEN "panic"
    ELSE IF ~IsHex(WithoutPrefix(str)) THEN "FromHexError"
    ELSE IF simulate THEN "ok"
    ELSE IF cred = Nil THEN "SignatureNotFound"
    ELSE verify(tx_bytes, cred, Bytes(WithoutPrefix(str)))

Init ==
    /\ address = Nil
    /\ seq = 0
    /\ history = <<>>
    /\ result = "ok"

\* instantiate, init: any string will do.
Instantiate(str) ==
    /\ address = Nil
    /\ address' = str
    /\ result' = "ok"
    /\ UNCHANGED <<seq, history>>

\* Mutant: the sequence just used is let in again (BeforeTxDecorator).
SequenceWithinOne(t) == seq \in t.sequence..(t.sequence + 1)

SequenceMatches(t) == t.sequence = seq

\* The credential as the contract gets it: an empty one is left out of the JSON.
CredBytes(cred) == IF cred = <<>> THEN Nil ELSE cred

\* A transaction reaches the contract through BeforeTxDecorator. A panic of the
\* contract is an error of the call like any other.
Authenticate(t, cred, simulate) ==
    IF SequenceMatches(t) THEN before_tx(address, t.bytes, CredBytes(cred), simulate)
    ELSE "ErrWrongSequence"

Deliver(t, cred) ==
    /\ address # Nil
    /\ result' = Authenticate(t, cred, FALSE)
    /\ IF result' = "ok"
       THEN /\ seq' = seq + 1
            /\ history' = Append(history, [tx |-> t, cred |-> cred])
       ELSE UNCHANGED <<seq, history>>
    /\ UNCHANGED address

Simulate(t, cred) ==
    /\ address # Nil
    /\ result' = Authenticate(t, cred, TRUE)
    /\ UNCHANGED <<address, seq, history>>

Next ==
    \/ \E str \in Strings : Instantiate(str)
    \/ \E t \in Txs, cred \in Creds : Deliver(t, cred)
    \/ \E t \in Txs, cred \in Creds : Simulate(t, cred)

Spec == Init /\ [][Next]_vars

-----------------------------------------------------------------------------
(* Properties *)

\* What a wallet signs when it is asked to sign a message.
PersonalMessage(bytes) == <<"keccak256", "Ethereum Signed Message", Len(bytes), bytes>>

\* The string names the address of w: two characters, then hex digits in either case.
Names(str, w) ==
    /\ Len(str) = 2 + 2 * AddrLen
    /\ \A i \in 1..AddrLen :
          LET d == <<str[1 + 2 * i], str[2 + 2 * i]>>
          IN  /\ d[1] \in DOMAIN HexDigits /\ d[2] \in DOMAIN HexDigits
              /\ AddrOf[w][i] = 16 * HexDigits[d[1]] + HexDigits[d[2]]

Owners == IF address = Nil THEN {} ELSE {w \in Wallets : Names(address, w)}

\* Every sequence number the account has used up went to a transaction with its
\* owner's signature, as a personal message, of this very transaction: nobody
\* else's, none cut off, none with another recovery id, none made for an Ethereum
\* transaction. An account instantiated with a string that names no wallet (too
\* short, too long, no hex) accepts nothing, ever.
SignedByOwner ==
    /\ Len(history) = seq
    /\ \A i \in DOMAIN history :
          \E w \in Owners, parity \in {0, 1} :
             LET h == history[i]
                 hash == PersonalMessage(h.tx.bytes)
             IN  /\ SubSeq(h.cred, 1, 2) = <<R(w, hash, parity), S(w, hash, parity)>>
                 /\ h.cred[3] \in {parity, parity + 27}

\* One signature authenticates one transaction: no r and s are accepted again, even
\* though the credential around them can be varied (v as 0 or as 27, bytes behind
\* it) without their owner.
SignatureUsedOnce ==
    \A i, j \in DOMAIN history :
        SubSeq(history[i].cred, 1, 2) = SubSeq(history[j].cred, 1, 2) => i = j

\* The owner is never locked out, whatever has been sent in between: the wallet's
\* signature of the next transaction passes, with v in both conventions.
OwnerAuthenticates ==
    \A w \in Owners, t \in Txs, parity \in {0, 1}, offset \in {0, 27} :
        LET hash == PersonalMessage(t.bytes)
            cred == <<R(w, hash, parity), S(w, hash, parity), parity + offset>>
        IN  t.sequence = seq => before_tx(address, t.bytes, cred, FALSE) = "ok"
=============================================================================
