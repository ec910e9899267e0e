------------------------------ MODULE MCGranter ------------------------------
(***************************************************************************)
(* An instance of Granter for TLC: the account key, two other keys, plain  *)
(* messages and MsgExecuteContract.                                        *)
(***************************************************************************)
EXTENDS Granter

CONSTANTS owner, k1, k2, contract, send, exec

MCCall(kind, sender, typeUrl, grantee, expiry) ==
    [kind |-> kind, sender |-> sender, typeUrl |-> typeUrl, grantee |-> grantee,
     expiry |-> expiry]

Plain(typeUrl) == [typeUrl |-> typeUrl, call |-> Nil]
Grants(typeUrl, grantee, expiry) ==
    [typeUrl |-> exec, call |-> MCCall("grant", Account, typeUrl, grantee, expiry)]
Revokes(typeUrl, grantee) ==
    [typeUrl |-> exec, call |-> MCCall("revoke", Account, typeUrl, grantee, Nil)]
\* Runs a contract that calls back.
CallsBack(typeUrl, grantee) ==
    [typeUrl |-> exec, call |-> MCCall("grant", contract, typeUrl, grantee, Nil)]

AtHeight(n) == [kind |-> "height", at |-> n]
AtTime(n) == [kind |-> "time", at |-> n]
Never == [kind |-> "never"]

MsgLists ==
    {<<Plain(send)>>, <<Grants(send, k1, Nil)>>, <<Grants(send, k1, AtHeight(1))>>,
     <<Grants(exec, k1, AtTime(2))>>, <<Grants(send, k2, Never)>>,
     <<Revokes(send, k1)>>, <<CallsBack(send, k1)>>,
     <<Grants(send, k1, Nil), Plain(send)>>, <<Revokes(send, k1), Plain(send)>>,
     <<Plain(send), Grants(exec, k1, Nil)>>}

Signed(k) == [pubkey |-> k, signature |-> k]

\* Signed by the key claimed, or with an account key somebody else claims, or by
\* nobody, or with a credential that does not parse.
Creds ==
    {Signed(owner), Signed(k1), Signed(k2), [pubkey |-> owner, signature |-> k1],
     [pubkey |-> k1, signature |-> Nil], Nil}

MCTxs == [msgs : MsgLists, cred : Creds]
MCTicks == {1, 2}
MCKeys == {owner, k1, k2}
MCTypeUrls == {send, exec}
MCContracts == {contract}
=============================================================================
