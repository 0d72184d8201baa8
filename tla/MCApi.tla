------------------------------- MODULE MCApi --------------------------------
(* One user with a pending deposit and a pending withdrawal, and a payment   *)
(* gateway (caller 0) that confirms them.                                    *)
EXTENDS Api, TLC

Gateway == 0
Owner   == 1

Opening(name) == <<"opening", name>>
Pending(type) ==
    [type |-> type, status |-> "PENDING", user |-> Owner, amount |-> 1, parent |-> None]

MCOpeningBalance == <<2, 1, -3>>
MCOpeningTxns ==
    Opening("DEP") :> Pending("FUNDING") @@ Opening("WD") :> Pending("WITHDRAWAL")

\* A key that the client made up.
ClientKey == <<"client", "k1">>
MCNames == {ClientKey}

Body(op, t) ==
    [op |-> op, user |-> Owner, peer |-> Stranger, amount |-> 1, txn |-> t, report |-> None]
Confirm(caller, op, t) == [caller |-> caller, name |-> t, body |-> Body(op, t)]

\* The field success of a body, as a JSON boolean or as a string.
Reported(type, says) ==
    [Confirm(Gateway, "confirmWithdrawal", Opening("WD")) EXCEPT
        !.body.report = [type |-> type, says |-> says]]
Initiate(op, name) == [caller |-> Owner, name |-> name, body |-> Body(op, None)]

SelfTransfer == [Initiate("transfer", ClientKey) EXCEPT !.body.peer = Owner]

\* The gateway confirms each transaction at the endpoint of its kind, and may
\* report the withdrawal as settled or as failed, or as both.  The string
\* "false" is a report of success to the validation.
GatewayCalls ==
    {Confirm(Gateway, "confirmDeposit", Opening("DEP")),
     Reported("boolean", TRUE), Reported("boolean", FALSE), Reported("string", FALSE),
     Initiate("withdraw", ClientKey), Initiate("deposit", ClientKey),
     Initiate("transfer", ClientKey), SelfTransfer}

ASSUME GatewayAssumption == OneConfirmer(GatewayCalls) /\ RightEndpoints(GatewayCalls)

\* Two users confirm one deposit.
TwoCallers ==
    {Confirm(c, "confirmDeposit", Opening("DEP")) : c \in {Gateway, Owner}}

\* A withdrawal is confirmed as if it were a deposit.
WrongEndpoint == {Confirm(Gateway, "confirmDeposit", Opening("WD"))}

Symmetry == Permutations(Requests)

=============================================================================
