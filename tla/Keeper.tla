------------------------------- MODULE Keeper -------------------------------
(***************************************************************************)
(* The x/abstractaccount keeper: the module parameters, the account ID     *)
(* counter and the signer address the AnteHandler leaves for the           *)
(* PostHandler.                                                            *)
(*                                                                         *)
(* A store is a record; every operation of the keeper is an operator that  *)
(* returns the store it leaves behind, so that the modules that branch,    *)
(* write back and drop stores (TxFlow, Registry) can apply it to any       *)
(* branch.                                                                 *)
(***************************************************************************)
EXTENDS Naturals, Sequences

CONSTANTS
    Nil,        \* the absent value: no signer address, no parameters
    Authority   \* the address the keeper was constructed with

-----------------------------------------------------------------------------
(* Parameters (types/params.go) *)

Params == [allowAllCodeIDs : BOOLEAN,
           allowedCodeIDs  : Seq(Nat),
           maxGasBefore    : Nat,
           maxGasAfter     : Nat]

NewParams(allowAll, allowed, before, after) ==
    [allowAllCodeIDs |-> allowAll, allowedCodeIDs |-> allowed,
     maxGasBefore |-> before, maxGasAfter |-> after]

\* Mutant: the comparison lets equal neighbours through.
AllowListNotDescending(list) ==
    \A i \in DOMAIN list : (IF i = 1 THEN 0 ELSE list[i - 1]) <= list[i]

\* The loop of Validate: it starts from prevCodeID = 0 and stops at the first
\* code ID that is not greater than the one before it.
AllowListAscends(list) ==
    \A i \in DOMAIN list : (IF i = 1 THEN 0 ELSE list[i - 1]) < list[i]

Validate(p) ==
    /\ p.maxGasBefore > 0
    /\ p.maxGasAfter > 0
    /\ p.allowAllCodeIDs => Len(p.allowedCodeIDs) = 0
    /\ AllowListAscends(p.allowedCodeIDs)

IsAllowed(p, codeID) ==
    \/ p.allowAllCodeIDs
    \/ \E i \in DOMAIN p.allowedCodeIDs : p.allowedCodeIDs[i] = codeID

SetParams(s, p) == [s EXCEPT !.params = p]

\* msgServer.UpdateParams succeeds: the sender is the authority and SetParams
\* finds the parameters valid. Absent parameters make ValidateBasic panic
\* before the handler is reached.
CanUpdateParams(sender, p) ==
    /\ p # Nil
    /\ sender = Authority
    /\ Validate(p)

-----------------------------------------------------------------------------
(* NextAccountID *)

SetNextAccountID(s, id) == [s EXCEPT !.nextAccountID = id]

\* GetAndIncrementNextAccountID: the caller uses s.nextAccountID as the ID and
\* goes on with the store returned here.
IncrementNextAccountID(s) == SetNextAccountID(s, s.nextAccountID + 1)

-----------------------------------------------------------------------------
(* SignerAddress *)

GetSignerAddress(s) == s.signer

SetSignerAddress(s, addr) == [s EXCEPT !.signer = addr]

DeleteSignerAddress(s) == [s EXCEPT !.signer = Nil]
=============================================================================
