------------------------------ MODULE Amounts -------------------------------
(***************************************************************************)
(* One user's amounts on their way from the body of a request to the       *)
(* database and back to the user.  The row that a service has read is an   *)
(* object whose amount TransactionService.sanitize converts in place, so   *)
(* it matters which statement comes first.  Calls do not overlap: what     *)
(* happens when they do is the subject of Payments.                        *)
(***************************************************************************)
EXTENDS Naira, Sequences

CONSTANTS
    Bodies,    \* amounts in request bodies, in thousandths
    Opening,   \* the wallet's balance at the start, in kobo
    MaxRows    \* how many transactions are initiated (a bound)

ASSUME BodiesAssumption == Bodies \subseteq Nat \ {0} /\ Opening \in Nat /\ MaxRows \in Nat

VARIABLES
    balance,   \* wallets.balance, in kobo
    rows,      \* transactions, in kobo, with the amount the body gave
    call,      \* the service call in progress, or the last one
    told       \* the balance that follows from the answers, in thousandths

amountVars == <<balance, rows, call, told>>

AmountsInit ==
    /\ balance = Opening /\ rows = << >>
    /\ call = [op |-> "none", row |-> 0, amount |-> 0, todo |-> << >>]
    /\ told = Formatted(Opening * 1000)

\* Mutant: the row is converted before the wallet is updated from it.
StepsSanitizedFirst(op) ==
    IF op \in {"initiateDeposit", "settle"} THEN <<"answer">> ELSE <<"sanitize", "move", "answer">>

\* What each service does with the amount of the row after reading it.
Steps(op) ==
    IF op \in {"initiateDeposit", "settle"} THEN <<"sanitize", "answer">>
    ELSE <<"move", "sanitize", "answer">>

\* The effect of each call on the user's wallet.
Sign(op) ==
    CASE op \in {"initiateWithdrawal", "initiateTransfer"} -> -1
      [] op \in {"confirmDeposit", "reverse"} -> 1
      [] OTHER -> 0

Start(op, i, n) == call' = [op |-> op, row |-> i, amount |-> n * 1000, todo |-> Steps(op)]

\* zod asks for a positive number, and what takes money for the balance.
Initiate(op, type, status, x) ==
    /\ call.todo = << >> /\ Len(rows) < MaxRows
    /\ Sign(op) = -1 => balance >= Kobo(x)
    /\ rows' = Append(rows, [type |-> type, body |-> x, amount |-> Kobo(x), status |-> status])
    /\ Start(op, Len(rows) + 1, Kobo(x))
    /\ UNCHANGED <<balance, told>>

Confirm(op, type, status, i) ==
    /\ call.todo = << >>
    /\ rows[i].type = type /\ rows[i].status = "PENDING"
    /\ rows' = [rows EXCEPT ![i].status = status]
    /\ Start(op, i, rows[i].amount)
    /\ UNCHANGED <<balance, told>>

\* The increment or decrement by the amount of the row object.
MoveAmount ==
    /\ call.todo # << >> /\ Head(call.todo) = "move"
    /\ balance' = balance + Sign(call.op) * (call.amount \div 1000)
    /\ call' = [call EXCEPT !.todo = Tail(@)]
    /\ UNCHANGED <<rows, told>>

Sanitize ==
    /\ call.todo # << >> /\ Head(call.todo) = "sanitize"
    /\ call' = [call EXCEPT !.amount = Formatted(@), !.todo = Tail(@)]
    /\ UNCHANGED <<balance, rows, told>>

\* The answer carries the row; the user adds it up.
Tell ==
    /\ call.todo # << >> /\ Head(call.todo) = "answer"
    /\ told' = told + Sign(call.op) * call.amount
    /\ call' = [call EXCEPT !.todo = Tail(@)]
    /\ UNCHANGED <<balance, rows>>

AmountsNext ==
    \/ \E x \in Bodies :
         \/ Initiate("initiateDeposit", "FUNDING", "PENDING", x)
         \/ Initiate("initiateWithdrawal", "WITHDRAWAL", "PENDING", x)
         \/ Initiate("initiateTransfer", "TRANSFER", "SUCCESSFUL", x)
    \/ \E i \in DOMAIN rows :
         \/ Confirm("confirmDeposit", "FUNDING", "SUCCESSFUL", i)
         \/ Confirm("settle", "WITHDRAWAL", "SUCCESSFUL", i)
         \/ Confirm("reverse", "WITHDRAWAL", "FAILED", i)
    \/ MoveAmount \/ Sanitize \/ Tell

AmountsSpec == AmountsInit /\ [][AmountsNext]_amountVars

-----------------------------------------------------------------------------
(* Properties *)

\* GET /wallet shows what the answers so far add up to: each amount has been
\* converted once, and moved by what was said (wallet.service.ts:36).
BalanceAsTold == call.todo = << >> => Formatted(balance * 1000) = told

\* Nobody is charged or credited more than half a kobo away from the request.
RoundedFairly ==
    \A i \in DOMAIN rows : 10 * rows[i].amount - rows[i].body \in -5 .. 5

=============================================================================
