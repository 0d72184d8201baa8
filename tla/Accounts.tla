------------------------------ MODULE Accounts ------------------------------
(***************************************************************************)
(* Registration, login and profile: user.service.ts with the Karma client  *)
(* it asks, auth.service.ts, auth.middleware.ts and the reads of a wallet. *)
(*                                                                         *)
(* One request is one HTTP call.  Its awaits are separate steps.  A user   *)
(* is named by the request that registered it, and a token by the request  *)
(* whose answer carried it.  The row of a user and its wallet are inserted *)
(* by two statements of one MySQL transaction; the first of them waits for *)
(* other transactions that have inserted the same e-mail.  The blacklist   *)
(* belongs to Adjutor and changes at any time.                             *)
(***************************************************************************)
EXTENDS FiniteSets

CONSTANTS
    Requests,   \* the HTTP calls that may ever be made
    Emails,
    Phones,
    Forms,      \* the validated bodies of POST /auth/register
    Volatile,   \* the identities that the blacklist may gain and lose (a bound)
    None        \* no phone, no form, no answer yet

Identities == Emails \union Phones

ASSUME FormsAssumption ==
    /\ Forms \subseteq [email : Emails, phone : Phones \union {None}]
    /\ Volatile \subseteq Identities
    /\ None \notin Identities /\ None \notin Forms /\ None \notin Requests
    /\ None \notin {"listed", "clear", "failed"}

VARIABLES
    stage,      \* the step a request is about to take, or its answer
    form,       \* the body of a registration
    verdict,    \* how the Karma calls of a registration ended
    drafts,     \* the tables that the open transaction of a request has written
    users,      \* the committed rows of users
    wallets,    \* the users with a committed MAIN wallet
    issued,     \* the user in the token that the answer of a request carried
    expired,    \* the tokens that are older than seven days
    bearer,     \* the token that a request for a profile carries
    listed,     \* the identities on the blacklist
    throughout  \* those of a registration that were on it ever since it arrived

accounts == <<users, wallets>>
sessions == <<issued, expired, bearer>>
karma    == <<listed, throughout>>
vars     == <<stage, form, verdict, drafts, accounts, sessions, karma>>

InFlight == {"karma", "insert", "insertWallet", "commit", "authenticate", "profile", "wallet"}
Answers  == {"created", "conflict", "forbidden", "duplicate", "error", "lost", "loggedIn",
             "unknown", "served", "refused", "unauthorized", "noUser", "noWallet"}

TypeOK ==
    /\ stage \in [Requests -> InFlight \union Answers \union {"new"}]
    /\ form \in [Requests -> Forms \union {None}]
    /\ verdict \in [Requests -> [Identities -> {"listed", "clear", "failed", None}]]
    /\ drafts \in [Requests -> SUBSET {"users", "wallets"}]
    /\ users \subseteq Requests
    /\ wallets \subseteq Requests
    /\ issued \in [Requests -> Requests \union {None}]
    /\ expired \subseteq Requests
    /\ bearer \in [Requests -> Requests \union {None}]
    /\ listed \subseteq Identities
    /\ throughout \in [Requests -> SUBSET Identities]

Unasked == [i \in Identities |-> None]

Init ==
    /\ stage = [r \in Requests |-> "new"]
    /\ form = [r \in Requests |-> None]
    /\ verdict = [r \in Requests |-> Unasked]
    /\ drafts = [r \in Requests |-> {}]
    /\ users = {} /\ wallets = {}
    /\ issued = [r \in Requests |-> None] /\ expired = {}
    /\ bearer = [r \in Requests |-> None]
    /\ listed \in SUBSET Identities
    /\ throughout = [r \in Requests |-> {}]

Become(r, s) == stage' = [stage EXCEPT ![r] = s]
Answer(r, s) == Become(r, s) /\ UNCHANGED <<form, verdict, drafts, accounts, sessions, karma>>

-----------------------------------------------------------------------------
(* Registration *)

\* Mutant: rows that are not committed yet are seen.
UsersWithDrafts(e) ==
    {u \in Requests : (u \in users \/ "users" \in drafts[u]) /\ form[u].email = e}

\* findByEmail, in createUser and in login.
UsersWith(e) == {u \in users : form[u].email = e}

\* The identities that createUser asks Karma about, both at once.
Asked(f) == {f.email, f.phone} \ {None}

Register(r, f) ==
    /\ stage[r] = "new"
    /\ Become(r, IF UsersWith(f.email) = {} THEN "karma" ELSE "conflict")
    /\ form' = [form EXCEPT ![r] = f]
    /\ throughout' = [throughout EXCEPT ![r] = listed \intersect Asked(f)]
    /\ UNCHANGED <<verdict, drafts, accounts, sessions, listed>>

\* 404, no data and is_on_karma false all mean clear; a time-out and any other
\* error mean that nothing is known.
KarmaAnswers(r, i, v) ==
    /\ stage[r] = "karma"
    /\ i \in Asked(form[r]) /\ verdict[r][i] = None
    /\ v = "listed" => i \in listed
    /\ v = "clear" => i \notin listed
    /\ verdict' = [verdict EXCEPT ![r][i] = v]
    /\ UNCHANGED <<stage, form, drafts, accounts, sessions, karma>>

Resolved(r) == stage[r] = "karma" /\ \A i \in Asked(form[r]) : verdict[r][i] # None

\* Mutant: refused only if both calls say so.
DeniedByAll(r) == \A i \in Asked(form[r]) : verdict[r][i] = "listed"

\* isBlacklisted fails open: only a positive answer denies.
Denied(r) == \E i \in Asked(form[r]) : verdict[r][i] = "listed"

Forbid(r) == Resolved(r) /\ Denied(r) /\ Answer(r, "forbidden")
Admit(r)  == Resolved(r) /\ ~Denied(r) /\ Answer(r, "insert")

\* Mutant: the uncommitted rows of others are not waited for.
InsertersUnseen(r) == {}

\* The other open transactions that have inserted a user with this e-mail.
Inserters(r) ==
    {q \in Requests \ {r} : "users" \in drafts[q] /\ form[q].email = form[r].email}

\* Mutant: no unique index on users.email.
ColumnTaken(r) == FALSE
EmailTaken(r) == UsersWith(form[r].email) # {}

Writes(r, table) == drafts' = [drafts EXCEPT ![r] = @ \union {table}]

\* Mutant: repository.create is not given the transaction.
InsertUserAtOnce(r) ==
    /\ stage[r] = "insert"
    /\ Inserters(r) = {} /\ ~EmailTaken(r)
    /\ Become(r, "insertWallet")
    /\ users' = users \union {r}
    /\ UNCHANGED <<form, verdict, drafts, wallets, sessions, karma>>

InsertUser(r) ==
    /\ stage[r] = "insert"
    /\ Inserters(r) = {} /\ ~EmailTaken(r)
    /\ Become(r, "insertWallet")
    /\ Writes(r, "users")
    /\ UNCHANGED <<form, verdict, accounts, sessions, karma>>

\* ER_DUP_ENTRY is no APIError, so APIError.from makes a 500 of it.
DuplicateUser(r) ==
    /\ stage[r] = "insert"
    /\ Inserters(r) = {} /\ EmailTaken(r)
    /\ Answer(r, "duplicate")

\* Mutant: an error of createWallet is caught and logged.
InsertWalletOrNot(r) ==
    /\ stage[r] = "insertWallet"
    /\ Become(r, "commit")
    /\ Writes(r, "wallets") \/ UNCHANGED drafts
    /\ UNCHANGED <<form, verdict, accounts, sessions, karma>>

\* The user is new, so that no other wallet can have its user_id.
InsertWallet(r) ==
    /\ stage[r] = "insertWallet"
    /\ Become(r, "commit")
    /\ Writes(r, "wallets")
    /\ UNCHANGED <<form, verdict, accounts, sessions, karma>>

\* Mutant: the user is named by its e-mail.
StoresByEmail(r) ==
    /\ users' = users \union (IF "users" \in drafts[r] THEN {form[r].email} ELSE {})
    /\ wallets' = wallets \union (IF "wallets" \in drafts[r] THEN {r} ELSE {})
    /\ drafts' = [drafts EXCEPT ![r] = {}]

\* COMMIT publishes what the transaction has written, whatever that is.
Stores(r) ==
    /\ users' = users \union (IF "users" \in drafts[r] THEN {r} ELSE {})
    /\ wallets' = wallets \union (IF "wallets" \in drafts[r] THEN {r} ELSE {})
    /\ drafts' = [drafts EXCEPT ![r] = {}]

CommitUser(r) ==
    /\ stage[r] = "commit"
    /\ Stores(r)
    /\ Become(r, "created")
    /\ issued' = [issued EXCEPT ![r] = r]
    /\ UNCHANGED <<form, verdict, expired, bearer, karma>>

\* COMMIT is applied, but its acknowledgement is lost or the process dies.
CommitUnacknowledged(r) ==
    /\ stage[r] = "commit"
    /\ Stores(r)
    /\ \E s \in {"error", "lost"} : Become(r, s)
    /\ UNCHANGED <<form, verdict, sessions, karma>>

-----------------------------------------------------------------------------
(* Login and profile *)

\* The token names the user; it is valid for seven days.
Login(r, e) ==
    /\ stage[r] = "new"
    /\ \/ UsersWith(e) = {} /\ Become(r, "unknown") /\ UNCHANGED issued
       \/ \E u \in UsersWith(e) :
            Become(r, "loggedIn") /\ issued' = [issued EXCEPT ![r] = u]
    /\ UNCHANGED <<form, verdict, drafts, accounts, expired, bearer, karma>>

Verified(t) == t # None /\ t \notin expired

\* GET /users/me and GET /wallet with a token, or without one (None, also one
\* that nobody issued).  It is verified once, when the request arrives; each
\* statement after that is a read of its own, outside any transaction.
Request(r, t) ==
    /\ stage[r] = "new"
    /\ t # None => issued[t] # None
    /\ Become(r, IF Verified(t) THEN "authenticate" ELSE "refused")
    /\ bearer' = [bearer EXCEPT ![r] = t]
    /\ UNCHANGED <<form, verdict, drafts, accounts, issued, expired, karma>>

Caller(r) == issued[bearer[r]]

\* The balance needs the wallet only, the profile the user again and the wallet.
Authenticate(r) ==
    /\ stage[r] = "authenticate"
    /\ \E s \in {"profile", "wallet"} :
         Answer(r, IF Caller(r) \in users THEN s ELSE "unauthorized")

ReadUser(r) ==
    /\ stage[r] = "profile"
    /\ Answer(r, IF Caller(r) \in users THEN "wallet" ELSE "noUser")

ReadWallet(r) ==
    /\ stage[r] = "wallet"
    /\ Answer(r, IF Caller(r) \in wallets THEN "served" ELSE "noWallet")

-----------------------------------------------------------------------------
(* Failures and the world outside *)

\* Mutant: the transaction of a failed request is left open.
RollbackForgotten(r) == UNCHANGED drafts
Rollback(r) == drafts' = [drafts EXCEPT ![r] = {}]

\* A statement fails, and with it the transaction it belongs to.
Abort(r) ==
    /\ stage[r] \in InFlight \ {"karma"}
    /\ Become(r, "error")
    /\ Rollback(r)
    /\ UNCHANGED <<form, verdict, accounts, sessions, karma>>

\* The process dies and MySQL rolls back the transactions it had open.
Crash ==
    /\ stage' = [r \in Requests |-> IF stage[r] \in InFlight THEN "lost" ELSE stage[r]]
    /\ drafts' = [r \in Requests |-> {}]
    /\ UNCHANGED <<form, verdict, accounts, sessions, karma>>

Expire(t) ==
    /\ issued[t] # None /\ t \notin expired
    /\ expired' = expired \union {t}
    /\ UNCHANGED <<stage, form, verdict, drafts, accounts, issued, bearer, karma>>

BlacklistChanges(i) ==
    /\ listed' = IF i \in listed THEN listed \ {i} ELSE listed \union {i}
    /\ throughout' = [r \in Requests |-> throughout[r] \ {i}]
    /\ UNCHANGED <<stage, form, verdict, drafts, accounts, sessions>>

Arrive(r) ==
    \/ \E f \in Forms : Register(r, f)
    \/ \E e \in Emails : Login(r, e)
    \/ \E t \in Requests \union {None} : Request(r, t)

Proceed(r) ==
    \/ \E i \in Identities, v \in {"listed", "clear", "failed"} : KarmaAnswers(r, i, v)
    \/ Forbid(r) \/ Admit(r)
    \/ InsertUser(r) \/ DuplicateUser(r) \/ InsertWallet(r) \/ CommitUser(r)
    \/ Authenticate(r) \/ ReadUser(r) \/ ReadWallet(r)

Next ==
    \/ \E r \in Requests : Arrive(r) \/ Proceed(r) \/ CommitUnacknowledged(r) \/ Abort(r) \/ Expire(r)
    \/ Crash
    \/ \E i \in Volatile : BlacklistChanges(i)

Spec == Init /\ [][Next]_vars

\* Every await ends: a call of Karma has a time-out of ten seconds, MySQL
\* answers, and nothing obliges a statement to fail or a request to arrive.
FairSpec == Spec /\ \A r \in Requests : WF_vars(Proceed(r))

-----------------------------------------------------------------------------
(* Properties *)

\* However many registrations of one e-mail pass findByEmail at once, one
\* user has it: the unique index decides (20260329131452_create_users.ts:6).
OneAccount == \A u, v \in users : form[u].email = form[v].email => u = v

\* A user and its wallet exist together although they are inserted one after
\* the other (user.service.ts:42, :46), whatever fails or crashes between the
\* two statements or between them and the COMMIT; every service relies on it.
EveryUserHasWallet == users = wallets

\* An identity that was on the blacklist from the arrival of the request until
\* the account existed was let in only because the call about it failed.
Compliance ==
    \A u \in users : \A i \in Asked(form[u]) \intersect throughout[u] : verdict[u][i] = "failed"

\* The only thing that can be wrong with a token is its age: until seven days
\* after it was given, and also if these end while the request is under way, its
\* user and wallet are found, each by a statement of its own
\* (auth.middleware.ts:22-26, user.service.ts:64-69).
HoldersServed ==
    \A r \in Requests :
        /\ stage[r] = "refused" /\ bearer[r] # None => bearer[r] \in expired
        /\ stage[r] \notin {"unauthorized", "noUser", "noWallet"}

\* What a registration is told agrees with the accounts there are.
RegistrationTrue ==
    \A r \in Requests :
        /\ stage[r] = "created" => r \in users
        /\ stage[r] \in {"conflict", "duplicate"} => UsersWith(form[r].email) \notin {{}, {r}}
        /\ stage[r] \in {"conflict", "forbidden", "duplicate"} => r \notin users

\* Every request that was received is answered, or the process died.
RequestAnswered == \A r \in Requests : stage[r] \in InFlight ~> stage[r] \in Answers

-----------------------------------------------------------------------------
(* Why these hold: what a request relies on between two of its steps.       *)

\* A row of users belongs to a registration that ended, and a token to a row.
RowsComplete ==
    /\ \A u \in users : form[u] \in Forms /\ stage[u] \in {"created", "error", "lost"}
    /\ \A t \in Requests : issued[t] # None => issued[t] \in users

\* An open transaction has written what its statements so far have inserted,
\* and there is none but in a registration.
DraftsKnown ==
    \A r \in Requests :
        drafts[r] = CASE stage[r] = "insertWallet" -> {"users"}
                      [] stage[r] = "commit" -> {"users", "wallets"}
                      [] OTHER -> {}

\* An inserted row that is not committed is the only one with its e-mail.
DraftsExclusive ==
    \A r \in Requests : "users" \in drafts[r] => Inserters(r) = {} /\ ~EmailTaken(r)

\* No answer about an identity is better than the blacklist has been since.
VerdictsFair ==
    \A r \in Requests :
        /\ throughout[r] \subseteq listed
        /\ \A i \in throughout[r] : verdict[r][i] # "clear"
        /\ stage[r] = "new" => verdict[r] = Unasked
        /\ stage[r] \in {"karma", "insert", "insertWallet", "commit"} => form[r] \in Forms
        /\ stage[r] \in {"insert", "insertWallet", "commit"} \/ r \in users =>
             \A i \in Asked(form[r]) : verdict[r][i] \in {"clear", "failed"}

\* A profile is read for somebody who was given a token.
SessionsKnown ==
    \A r \in Requests : stage[r] \in {"authenticate", "profile", "wallet"} =>
        bearer[r] \in Requests /\ issued[bearer[r]] # None

\* Between the check of an e-mail and the commit, whatever other registrations
\* do, the row being inserted stays the only one, and what Karma said about its
\* identities stays a sound reason; a token always names a committed user.
Consistency ==
    /\ OneAccount /\ RowsComplete /\ DraftsKnown
    /\ DraftsExclusive /\ VerdictsFair /\ SessionsKnown

=============================================================================
