----------------------------- MODULE MCAccounts -----------------------------
(* Two crowds, one of them per behaviour: two registrations of one e-mail,    *)
(* with a phone or without, or of two; and three calls about a single e-mail, *)
(* so that one can register, one log in and one ask for a profile.            *)
EXTENDS Accounts

CONSTANTS e1, e2, p1, Third

VARIABLE crowd

MCForms == {[email |-> e1, phone |-> None], [email |-> e1, phone |-> p1],
            [email |-> e2, phone |-> None]}

OneEmail == [email |-> e1, phone |-> None]

MCInit == Init /\ crowd \in {2, 3} /\ (crowd = 3 => listed \subseteq Volatile)

MCNext ==
    /\ Next /\ UNCHANGED crowd
    /\ crowd = 2 => stage'[Third] = "new"
    /\ crowd = 3 => \A r \in Requests : form'[r] \in {OneEmail, None}

MCSpec ==
    /\ MCInit /\ [][MCNext]_<<vars, crowd>>
    /\ \A r \in Requests : WF_vars(Proceed(r))

=============================================================================
