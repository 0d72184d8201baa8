--------------------------- MODULE AccountsProofs ---------------------------
(* Proofs about Accounts, for any number of requests, e-mails and phones.    *)
EXTENDS Accounts, TLAPS

\* The statements, answers and rows are well formed at every step.
LEMMA TypeStep == TypeOK /\ [Next]_vars => TypeOK'
<1> SUFFICES ASSUME TypeOK, [Next]_vars PROVE TypeOK'
    OBVIOUS
<1> USE FormsAssumption DEF TypeOK, InFlight, Answers
<1>1. ASSUME NEW r \in Requests, Arrive(r) PROVE TypeOK'
  <2>1. ASSUME NEW f \in Forms, Register(r, f) PROVE TypeOK'
    BY <2>1 DEF Register, Become, accounts, sessions
  <2>2. ASSUME NEW e \in Emails, Login(r, e) PROVE TypeOK'
    <3>1. issued' \in [Requests -> Requests \union {None}]
      BY <2>2 DEF Login, UsersWith
    <3>2. stage' \in [Requests -> InFlight \union Answers \union {"new"}]
      BY <2>2 DEF Login, Become
    <3> QED BY <2>2, <3>1, <3>2 DEF Login, accounts, karma
  <2>3. ASSUME NEW t \in Requests \union {None}, Request(r, t) PROVE TypeOK'
    BY <2>3 DEF Request, Become, accounts, karma
  <2> QED BY <1>1, <2>1, <2>2, <2>3 DEF Arrive
<1>2. ASSUME NEW r \in Requests, Proceed(r) PROVE TypeOK'
  <2>1. ASSUME NEW i \in Identities, NEW v \in {"listed", "clear", "failed"},
               KarmaAnswers(r, i, v)
        PROVE  TypeOK'
    BY <2>1 DEF KarmaAnswers, accounts, sessions, karma
  <2>2. ASSUME NEW s \in InFlight \union Answers, Answer(r, s) PROVE TypeOK'
    BY <2>2 DEF Answer, Become, accounts, sessions, karma
  <2>3. CASE CommitUser(r)
    BY <2>3 DEF CommitUser, Become, Stores, karma
  <2>4. CASE Forbid(r) \/ Admit(r) \/ DuplicateUser(r)
    BY <2>2, <2>4 DEF Forbid, Admit, DuplicateUser
  <2>5. CASE Authenticate(r) \/ ReadUser(r) \/ ReadWallet(r)
    BY <2>2, <2>5 DEF Authenticate, ReadUser, ReadWallet
  <2>6. CASE InsertUser(r) \/ InsertWallet(r)
    BY <2>6 DEF InsertUser, InsertWallet, Become, Writes, accounts, sessions, karma
  <2> QED BY <1>2, <2>1, <2>3, <2>4, <2>5, <2>6 DEF Proceed
<1>3. ASSUME NEW r \in Requests, CommitUnacknowledged(r) PROVE TypeOK'
  BY <1>3 DEF CommitUnacknowledged, Become, Stores, sessions, karma
<1>4. ASSUME NEW r \in Requests, Abort(r) \/ Expire(r) PROVE TypeOK'
  BY <1>4 DEF Abort, Rollback, Expire, Become, accounts, sessions, karma
<1>5. CASE Crash
  BY <1>5 DEF Crash, accounts, sessions, karma
<1>6. ASSUME NEW i \in Volatile, BlacklistChanges(i) PROVE TypeOK'
  BY <1>6 DEF BlacklistChanges, accounts, sessions
<1>7. CASE UNCHANGED vars
  BY <1>7 DEF vars, accounts, sessions, karma
<1> QED BY <1>1, <1>2, <1>3, <1>4, <1>5, <1>6, <1>7 DEF Next

LEMMA TypeInit == Init => TypeOK
BY DEF Init, TypeOK, Unasked, InFlight, Answers

\* Every row, form, verdict and stage is well formed (the tables of
\* 20260329131452_create_users.ts and 20260329160646_create_wallet_table.ts).
THEOREM AccountsTyped == Spec => []TypeOK
BY TypeInit, TypeStep, PTL DEF Spec

-----------------------------------------------------------------------------
LEMMA ConsistencyInit == Init => Consistency
BY DEF Init, Consistency, OneAccount, RowsComplete, DraftsKnown,
       DraftsExclusive, VerdictsFair, SessionsKnown

\* createUser asks Karma about identities only.
LEMMA AskedKnown == ASSUME NEW f \in Forms PROVE Asked(f) \subseteq Identities
BY FormsAssumption DEF Asked, Identities

\* The stages in which a registration has not begun to write.
LEMMA NoDraft ==
    ASSUME DraftsKnown, NEW r \in Requests, stage[r] \notin {"insertWallet", "commit"}
    PROVE  drafts[r] = {}
BY DEF DraftsKnown

\* A step that changes nothing but the stage of one request, from which no
\* row follows, keeps the accounts consistent.
LEMMA AnswerKeeps ==
    ASSUME TypeOK, Consistency, NEW r \in Requests, NEW s \in InFlight \union Answers,
           Answer(r, s), stage[r] \notin {"new", "created", "error", "lost", "insertWallet", "commit"},
           s = "insert" => Resolved(r) /\ ~Denied(r),
           s \notin {"karma", "insertWallet", "commit", "authenticate"},
           s \in {"profile", "wallet"} => stage[r] \in {"authenticate", "profile"}
    PROVE  Consistency'
<1> USE DEF Consistency, TypeOK, Answer, Become, accounts, sessions, karma
<1>1. OneAccount' /\ RowsComplete'
  BY DEF OneAccount, RowsComplete, InFlight, Answers
<1>2. DraftsKnown'
  BY NoDraft DEF DraftsKnown
<1>3. DraftsExclusive'
  BY DEF DraftsExclusive, Inserters, EmailTaken, UsersWith
<1>4. VerdictsFair'
  <2>1. s = "insert" => \A i \in Asked(form[r]) : verdict[r][i] \in {"clear", "failed"}
    BY AskedKnown DEF VerdictsFair, Resolved, Denied
  <2>2. s = "insert" => form[r] \in Forms
    BY DEF VerdictsFair, Resolved
  <2>3. s # "new"
    BY DEF InFlight, Answers
  <2> QED BY <2>1, <2>2, <2>3 DEF VerdictsFair
<1>5. SessionsKnown'
  BY DEF SessionsKnown
<1> QED BY <1>1, <1>2, <1>3, <1>4, <1>5

\* A statement of a registration's transaction adds to its drafts.
LEMMA WriteKeeps ==
    ASSUME TypeOK, Consistency, NEW r \in Requests, InsertUser(r) \/ InsertWallet(r)
    PROVE  Consistency'
<1> USE DEF Consistency, TypeOK, InsertUser, InsertWallet, Become, Writes, accounts, sessions, karma
<1>1. OneAccount' /\ RowsComplete'
  BY DEF OneAccount, RowsComplete
<1>2. /\ stage[r] \in {"insert", "insertWallet"}
      /\ stage'[r] = IF stage[r] = "insert" THEN "insertWallet" ELSE "commit"
      /\ drafts'[r] = IF stage[r] = "insert" THEN {"users"} ELSE {"users", "wallets"}
      /\ \A q \in Requests : q # r => stage'[q] = stage[q] /\ drafts'[q] = drafts[q]
  BY DEF DraftsKnown
<1>3. DraftsKnown'
  BY <1>2 DEF DraftsKnown
<1>4. DraftsExclusive'
  <2>1. ("users" \in drafts[r] \/ stage[r] = "insert") => Inserters(r) = {} /\ ~EmailTaken(r)
    BY DEF DraftsExclusive
  <2>2. Inserters(r) = {} /\ ~EmailTaken(r)
    BY <1>2, <2>1 DEF DraftsKnown
  <2>3. \A q \in Requests : q # r => ("users" \in drafts'[q] <=> "users" \in drafts[q])
    BY <1>2
  <2> QED BY <1>2, <2>2, <2>3 DEF DraftsExclusive, Inserters, EmailTaken, UsersWith
<1>5. VerdictsFair'
  BY <1>2 DEF VerdictsFair
<1>6. SessionsKnown'
  BY <1>2 DEF SessionsKnown
<1> QED BY <1>1, <1>3, <1>4, <1>5, <1>6

\* The commit of a registration adds the one row with its e-mail.
LEMMA CommitKeeps ==
    ASSUME TypeOK, Consistency, NEW r \in Requests, stage[r] = "commit", Stores(r),
           NEW s \in {"created", "error", "lost"}, Become(r, s),
           issued' \in {issued, [issued EXCEPT ![r] = r]},
           UNCHANGED <<form, verdict, expired, bearer, karma>>
    PROVE  Consistency'
<1> USE DEF Consistency, TypeOK, Stores, Become, karma
<1>1. drafts[r] = {"users", "wallets"} /\ users' = users \union {r} /\ drafts'[r] = {}
  BY DEF DraftsKnown
<1>2. \A q \in Requests : q # r => stage'[q] = stage[q] /\ drafts'[q] = drafts[q]
  OBVIOUS
<1>3. stage'[r] = s
  OBVIOUS
<1>4. OneAccount'
  BY <1>1 DEF OneAccount, DraftsExclusive, EmailTaken, UsersWith
<1>5. RowsComplete'
  BY <1>1, <1>2, <1>3 DEF RowsComplete, VerdictsFair
<1>6. DraftsKnown'
  BY <1>1, <1>2, <1>3 DEF DraftsKnown
<1>7. DraftsExclusive'
  <2> SUFFICES ASSUME NEW q \in Requests, "users" \in drafts'[q]
               PROVE  Inserters(q)' = {} /\ ~EmailTaken(q)'
    BY DEF DraftsExclusive
  <2>1. q # r /\ "users" \in drafts[q]
    BY <1>1, <1>2
  <2>2. form[q].email # form[r].email
    BY <1>1, <2>1 DEF DraftsExclusive, Inserters
  <2> QED BY <1>1, <1>2, <2>1, <2>2 DEF DraftsExclusive, Inserters, EmailTaken, UsersWith
<1>8. VerdictsFair'
  BY <1>1, <1>2, <1>3 DEF VerdictsFair
<1>9. SessionsKnown'
  <2>1. \A t \in Requests : issued[t] # None => issued'[t] # None
    BY FormsAssumption
  <2> QED BY <1>2, <1>3, <2>1 DEF SessionsKnown
<1> QED BY <1>4, <1>5, <1>6, <1>7, <1>8, <1>9

\* A failed transaction takes its drafts with it.
LEMMA RollbackKeeps ==
    ASSUME TypeOK, Consistency, \/ \E r \in Requests : Abort(r)
                                \/ Crash
    PROVE  Consistency'
<1> USE DEF Consistency, TypeOK, InFlight, accounts, sessions, karma
<1>1. /\ UNCHANGED <<form, verdict, accounts, sessions, karma>>
      /\ \A q \in Requests :
           \/ stage'[q] = stage[q] /\ drafts'[q] \in {drafts[q], {}}
              /\ (stage[q] \in InFlight => drafts'[q] = drafts[q])
           \/ stage[q] \in InFlight /\ stage'[q] \in {"error", "lost"} /\ drafts'[q] = {}
  BY DEF Abort, Rollback, Become, Crash
<1>2. OneAccount' /\ RowsComplete'
  BY <1>1 DEF OneAccount, RowsComplete
<1>3. DraftsKnown'
  BY <1>1 DEF DraftsKnown
<1>4. DraftsExclusive'
  <2>1. \A q \in Requests : "users" \in drafts'[q] => "users" \in drafts[q]
    BY <1>1
  <2> QED BY <1>1, <2>1 DEF DraftsExclusive, Inserters, EmailTaken, UsersWith
<1>5. SessionsKnown'
  BY <1>1 DEF SessionsKnown
<1>6. VerdictsFair'
  <2>1. /\ UNCHANGED <<form, verdict, users, listed, throughout>>
        /\ \A q \in Requests : stage'[q] = stage[q] \/ stage'[q] \in {"error", "lost"}
    BY <1>1
  <2> QED BY <2>1 DEF VerdictsFair
<1> QED BY <1>2, <1>3, <1>4, <1>5, <1>6

LEMMA RegisterKeeps ==
    ASSUME TypeOK, Consistency, NEW r \in Requests, NEW f \in Forms, Register(r, f)
    PROVE  Consistency'
<1> USE DEF Register, Become, accounts, sessions, Consistency, TypeOK
<1>1. r \notin users /\ form' = [form EXCEPT ![r] = f] /\ drafts[r] = {}
  BY NoDraft DEF RowsComplete
<1>2. OneAccount'
  BY <1>1 DEF OneAccount, RowsComplete
<1>3. RowsComplete'
  BY <1>1 DEF RowsComplete
<1>4. DraftsKnown'
  BY <1>1 DEF DraftsKnown
<1>5. DraftsExclusive'
  BY <1>1 DEF DraftsExclusive, Inserters, EmailTaken, UsersWith
<1>6. VerdictsFair'
  <2> SUFFICES ASSUME NEW q \in Requests
               PROVE  /\ throughout'[q] \subseteq listed'
                      /\ \A i \in throughout'[q] : verdict'[q][i] # "clear"
                      /\ stage'[q] = "new" => verdict'[q] = Unasked
                      /\ stage'[q] \in {"karma", "insert", "insertWallet", "commit"} =>
                           form'[q] \in Forms
                      /\ stage'[q] \in {"insert", "insertWallet", "commit"} \/ q \in users' =>
                           \A i \in Asked(form'[q]) : verdict'[q][i] \in {"clear", "failed"}
    BY DEF VerdictsFair
  <2>1. CASE q = r
    <3>1. verdict'[r] = Unasked /\ stage'[r] \in {"karma", "conflict"}
      BY DEF VerdictsFair
    <3>2. throughout'[r] \subseteq listed /\ throughout'[r] \subseteq Identities
      OBVIOUS
    <3>3. \A i \in throughout'[r] : verdict'[r][i] # "clear"
      BY <3>1, <3>2, FormsAssumption DEF Unasked
    <3> QED BY <1>1, <2>1, <3>1, <3>2, <3>3
  <2>2. CASE q # r
    BY <2>2 DEF VerdictsFair
  <2> QED BY <2>1, <2>2
<1>7. SessionsKnown'
  BY DEF SessionsKnown
<1> QED BY <1>2, <1>3, <1>4, <1>5, <1>6, <1>7

LEMMA SessionKeeps ==
    ASSUME TypeOK, Consistency, NEW r \in Requests,
           \/ \E e \in Emails : Login(r, e)
           \/ \E t \in Requests \union {None} : Request(r, t)
           \/ Expire(r)
    PROVE  Consistency'
<1> USE DEF Become, accounts, sessions, karma, Consistency, TypeOK
<1>1. /\ UNCHANGED <<form, verdict, drafts, accounts, karma>>
      /\ \/ stage'[r] = stage[r]
         \/ /\ stage[r] = "new"
            /\ stage'[r] \in {"unknown", "loggedIn", "authenticate", "refused"}
      /\ \A q \in Requests : q # r => stage'[q] = stage[q]
  BY DEF Login, Request, Expire
<1>2. /\ \A t \in Requests : issued'[t] = issued[t] \/ issued'[t] \in users
      /\ \A t \in Requests : issued[t] # None => issued'[t] # None
  BY FormsAssumption DEF Login, Request, Expire, UsersWith
<1>3. /\ stage'[r] = "authenticate" /\ stage[r] = "new" =>
           bearer'[r] \in Requests /\ issued[bearer'[r]] # None
      /\ \A q \in Requests : stage[q] # "new" => bearer'[q] = bearer[q]
  BY DEF Login, Request, Expire, Verified
<1>4. OneAccount'
  BY <1>1 DEF OneAccount
<1>5. RowsComplete'
  BY <1>1, <1>2 DEF RowsComplete
<1>6. DraftsKnown'
  BY <1>1 DEF DraftsKnown
<1>7. DraftsExclusive'
  BY <1>1 DEF DraftsExclusive, Inserters, EmailTaken, UsersWith
<1>8. VerdictsFair'
  BY <1>1 DEF VerdictsFair
<1>9. SessionsKnown'
  BY <1>1, <1>2, <1>3 DEF SessionsKnown
<1> QED BY <1>4, <1>5, <1>6, <1>7, <1>8, <1>9

LEMMA KarmaKeeps ==
    ASSUME TypeOK, Consistency,
           \/ \E r \in Requests, i \in Identities, v \in {"listed", "clear", "failed"} :
                KarmaAnswers(r, i, v)
           \/ \E i \in Volatile : BlacklistChanges(i)
    PROVE  Consistency'
<1> USE DEF KarmaAnswers, BlacklistChanges, accounts, sessions, karma, Consistency, TypeOK
<1>1. UNCHANGED <<stage, form, drafts, accounts, sessions>>
  OBVIOUS
<1>2. OneAccount' /\ RowsComplete' /\ SessionsKnown' /\ DraftsKnown'
  BY <1>1 DEF OneAccount, RowsComplete, SessionsKnown, DraftsKnown
<1>3. DraftsExclusive'
  BY <1>1 DEF DraftsExclusive, Inserters, EmailTaken, UsersWith
<1>4. ASSUME NEW i \in Volatile, BlacklistChanges(i) PROVE VerdictsFair'
  BY <1>4 DEF VerdictsFair
<1>5. ASSUME NEW r \in Requests, NEW i \in Identities,
             NEW v \in {"listed", "clear", "failed"}, KarmaAnswers(r, i, v)
      PROVE  VerdictsFair'
  <2>1. r \notin users
    BY <1>5 DEF RowsComplete
  <2> QED BY <1>5, <2>1 DEF VerdictsFair
<1> QED BY <1>2, <1>3, <1>4, <1>5

LEMMA ConsistencyStep == TypeOK /\ Consistency /\ [Next]_vars => Consistency'
<1> SUFFICES ASSUME TypeOK, Consistency, [Next]_vars PROVE Consistency'
    OBVIOUS
<1>1. ASSUME NEW r \in Requests, Arrive(r) PROVE Consistency'
  BY <1>1, RegisterKeeps, SessionKeeps DEF Arrive
<1>2. ASSUME NEW r \in Requests, CommitUser(r) \/ CommitUnacknowledged(r)
      PROVE  Consistency'
  BY <1>2, CommitKeeps DEF CommitUser, CommitUnacknowledged, sessions
<1>3. ASSUME NEW r \in Requests, Forbid(r) \/ Admit(r) \/ DuplicateUser(r)
      PROVE  Consistency'
  BY <1>3, AnswerKeeps DEF Forbid, Admit, Resolved, DuplicateUser, InFlight, Answers
<1>4. ASSUME NEW r \in Requests, Authenticate(r) \/ ReadUser(r) \/ ReadWallet(r)
      PROVE  Consistency'
  BY <1>4, AnswerKeeps DEF Authenticate, ReadUser, ReadWallet, InFlight, Answers
<1>5. ASSUME NEW r \in Requests, Proceed(r) PROVE Consistency'
  BY <1>2, <1>3, <1>4, <1>5, WriteKeeps, KarmaKeeps DEF Proceed
<1>6. ASSUME NEW r \in Requests, Expire(r) PROVE Consistency'
  BY <1>6, SessionKeeps
<1>7. CASE UNCHANGED vars
  <2> USE <1>7 DEF vars, accounts, sessions, karma, Consistency
  <2>1. OneAccount' /\ RowsComplete' /\ SessionsKnown' /\ DraftsKnown'
    BY DEF OneAccount, RowsComplete, SessionsKnown, DraftsKnown
  <2>2. DraftsExclusive' /\ VerdictsFair'
    BY DEF DraftsExclusive, Inserters, EmailTaken, UsersWith, VerdictsFair
  <2> QED BY <2>1, <2>2
<1> QED
  BY <1>1, <1>2, <1>5, <1>6, <1>7, RollbackKeeps, KarmaKeeps DEF Next

-----------------------------------------------------------------------------
\* Whatever registrations, logins, failures and changes of the blacklist come
\* between the check of an e-mail and its insertion, the accounts are consistent
\* (user.service.ts:18-55).
THEOREM AccountsConsistent == Spec => []Consistency
<1>1. TypeOK /\ Consistency /\ [Next]_vars => TypeOK' /\ Consistency'
  BY TypeStep, ConsistencyStep
<1> QED BY TypeInit, ConsistencyInit, <1>1, PTL DEF Spec

\* One user per e-mail, for any number of concurrent registrations
\* (user.service.ts:22 checks without a lock).
THEOREM OneAccountPerEmail == Spec => []OneAccount
<1>1. Consistency => OneAccount
  BY DEF Consistency
<1> QED BY AccountsConsistent, <1>1, PTL

\* The two rows of a registration are published by one COMMIT or by none: what
\* its transaction has written by then is both of them.
LEMMA WalletStep ==
    TypeOK /\ Consistency /\ EveryUserHasWallet /\ [Next]_vars => EveryUserHasWallet'
<1> SUFFICES ASSUME TypeOK, Consistency, EveryUserHasWallet, [Next]_vars
             PROVE  EveryUserHasWallet'
    OBVIOUS
<1>1. ASSUME NEW r \in Requests, stage[r] = "commit", Stores(r) PROVE EveryUserHasWallet'
  <2>1. drafts[r] = {"users", "wallets"}
    BY <1>1 DEF Consistency, DraftsKnown
  <2> QED BY <1>1, <2>1 DEF Stores, EveryUserHasWallet
<1>2. CASE UNCHANGED accounts
  BY <1>2 DEF accounts, EveryUserHasWallet
<1>3. ASSUME NEW r \in Requests, Proceed(r) PROVE EveryUserHasWallet'
  <2>1. CASE CommitUser(r)
    BY <1>1, <2>1 DEF CommitUser
  <2>2. CASE ~CommitUser(r)
    BY <1>2, <1>3, <2>2 DEF Proceed, KarmaAnswers, Forbid, Admit, InsertUser, DuplicateUser,
          InsertWallet, Authenticate, ReadUser, ReadWallet, Answer
  <2> QED BY <2>1, <2>2
<1>4. ASSUME NEW r \in Requests, Arrive(r) \/ Abort(r) \/ Expire(r) PROVE EveryUserHasWallet'
  BY <1>2, <1>4 DEF Arrive, Register, Login, Request, Abort, Expire
<1>5. ASSUME NEW r \in Requests, CommitUnacknowledged(r) PROVE EveryUserHasWallet'
  BY <1>1, <1>5 DEF CommitUnacknowledged
<1>6. CASE Crash \/ UNCHANGED vars \/ \E i \in Volatile : BlacklistChanges(i)
  BY <1>2, <1>6 DEF Crash, vars, BlacklistChanges
<1> QED BY <1>3, <1>4, <1>5, <1>6 DEF Next

\* No user without a wallet and no wallet without its user, whichever of the two
\* inserts fails and whenever the process dies (user.service.ts:41-54).
THEOREM WalletWithUser == Spec => []EveryUserHasWallet
<1>1. Init => EveryUserHasWallet
  BY DEF Init, EveryUserHasWallet
<1> QED BY <1>1, WalletStep, AccountsTyped, AccountsConsistent, PTL DEF Spec

\* Nobody who was blacklisted all along is let in unless a call about them failed
\* (user.service.ts:29-38, karma.service.ts:53).
THEOREM BlacklistedKeptOut == Spec => []Compliance
<1>1. TypeOK /\ Consistency => Compliance
  <2> SUFFICES ASSUME TypeOK, VerdictsFair, NEW u \in users,
                      NEW i \in Asked(form[u]) \intersect throughout[u]
               PROVE  verdict[u][i] = "failed"
    BY DEF Consistency, Compliance
  <2>1. u \in Requests
    BY DEF TypeOK
  <2>2. verdict[u][i] \in {"clear", "failed"} /\ verdict[u][i] # "clear"
    BY <2>1 DEF VerdictsFair
  <2> QED BY <2>2
<1> QED BY AccountsConsistent, <1>1, AccountsTyped, PTL

\* A request for a profile finds what its token promises.
LEMMA ServedStep ==
    TypeOK /\ Consistency /\ EveryUserHasWallet /\ HoldersServed /\ [Next]_vars => HoldersServed'
<1> SUFFICES ASSUME TypeOK, Consistency, EveryUserHasWallet, HoldersServed, [Next]_vars
             PROVE  HoldersServed'
    OBVIOUS
<1> USE DEF HoldersServed, TypeOK
<1>1. ASSUME NEW r \in Requests, Arrive(r) PROVE HoldersServed'
  BY <1>1 DEF Arrive, Register, Login, Request, Verified, Become, sessions
<1>2. ASSUME NEW r \in Requests, Authenticate(r) \/ ReadUser(r) \/ ReadWallet(r)
      PROVE  HoldersServed'
  <2>1. stage[r] \in {"authenticate", "profile", "wallet"}
    BY <1>2 DEF Authenticate, ReadUser, ReadWallet
  <2>2. Caller(r) \in users /\ Caller(r) \in wallets
    BY <2>1 DEF Consistency, RowsComplete, EveryUserHasWallet, SessionsKnown, Caller
  <2> QED BY <1>2, <2>2 DEF Authenticate, ReadUser, ReadWallet, Answer, Become, sessions
<1>3. ASSUME NEW r \in Requests,
             \/ Forbid(r) \/ Admit(r) \/ InsertUser(r) \/ DuplicateUser(r)
             \/ InsertWallet(r) \/ Abort(r)
      PROVE  HoldersServed'
  BY <1>3 DEF Forbid, Admit, InsertUser, DuplicateUser, InsertWallet, Abort, Answer, Become, sessions
<1>4. ASSUME NEW r \in Requests, CommitUser(r) \/ CommitUnacknowledged(r)
      PROVE  HoldersServed'
  BY <1>4 DEF CommitUser, CommitUnacknowledged, Become, sessions
<1>5. ASSUME NEW r \in Requests, NEW i \in Identities,
             NEW v \in {"listed", "clear", "failed"}, KarmaAnswers(r, i, v)
      PROVE  HoldersServed'
  BY <1>5 DEF KarmaAnswers, sessions
<1>6. CASE Crash \/ UNCHANGED vars \/ \E i \in Volatile : BlacklistChanges(i)
  BY <1>6 DEF Crash, vars, BlacklistChanges, sessions, InFlight
<1>7. ASSUME NEW t \in Requests, Expire(t) PROVE HoldersServed'
  BY <1>7 DEF Expire
<1> QED BY <1>1, <1>2, <1>3, <1>4, <1>5, <1>6, <1>7 DEF Next, Proceed

\* A token is refused for its age only, and whoever passes finds the user and the
\* wallet, though authenticate and the service read them in separate statements
\* and the token may expire between them (auth.middleware.ts:22-26,
\* user.service.ts:64-69).
THEOREM HoldersAlwaysServed == Spec => []HoldersServed
<1>1. Init => HoldersServed
  BY DEF Init, HoldersServed
<1>2. TypeOK /\ Consistency /\ EveryUserHasWallet /\ HoldersServed /\ [Next]_vars
        => HoldersServed'
  BY ServedStep
<1> QED
  BY <1>1, <1>2, AccountsTyped, AccountsConsistent, WalletWithUser, PTL DEF Spec

-----------------------------------------------------------------------------
\* Rows stay, what was asked for stays, and an answer is final.
LEMMA RowsStay ==
    ASSUME TypeOK, [Next]_vars
    PROVE  /\ users \subseteq users'
           /\ \A q \in Requests : stage[q] # "new" => form'[q] = form[q]
           /\ \A q \in Requests : stage[q] \in Answers => stage'[q] = stage[q]
<1> DEFINE Stay == /\ users \subseteq users'
                   /\ \A q \in Requests : stage[q] # "new" => form'[q] = form[q]
                   /\ \A q \in Requests : stage[q] \in Answers => stage'[q] = stage[q]
<1> USE DEF TypeOK, Answers, InFlight, Become
<1>1. ASSUME NEW r \in Requests, Arrive(r) PROVE Stay
  BY <1>1 DEF Arrive, Register, Login, Request, accounts
<1>2. ASSUME NEW r \in Requests, NEW s, Answer(r, s), stage[r] \in InFlight PROVE Stay
  BY <1>2 DEF Answer, accounts
<1>3. ASSUME NEW r \in Requests, Proceed(r) PROVE Stay
  <2>1. CASE \E i \in Identities, v \in {"listed", "clear", "failed"} : KarmaAnswers(r, i, v)
    BY <2>1 DEF KarmaAnswers, accounts
  <2>2. CASE CommitUser(r)
    BY <2>2 DEF CommitUser, Stores
  <2>3. CASE Forbid(r) \/ Admit(r) \/ DuplicateUser(r)
    BY <1>2, <2>3 DEF Forbid, Admit, DuplicateUser, Resolved
  <2>4. CASE Authenticate(r) \/ ReadUser(r) \/ ReadWallet(r)
    BY <1>2, <2>4 DEF Authenticate, ReadUser, ReadWallet
  <2>5. CASE InsertUser(r) \/ InsertWallet(r)
    BY <2>5 DEF InsertUser, InsertWallet, accounts
  <2> QED BY <1>3, <2>1, <2>2, <2>3, <2>4, <2>5 DEF Proceed
<1>4. ASSUME NEW r \in Requests, CommitUnacknowledged(r) \/ Abort(r) \/ Expire(r) PROVE Stay
  BY <1>4 DEF CommitUnacknowledged, Stores, Abort, Expire, accounts
<1>5. CASE Crash \/ UNCHANGED vars \/ \E i \in Volatile : BlacklistChanges(i)
  BY <1>5 DEF Crash, vars, BlacklistChanges, accounts
<1> QED BY <1>1, <1>3, <1>4, <1>5 DEF Next

\* What makes a request end as created, refused or taken.
LEMMA RegistrationEnds ==
    ASSUME TypeOK, DraftsKnown, [Next]_vars, NEW r \in Requests, stage'[r] # stage[r],
           stage'[r] \in {"created", "conflict", "forbidden", "duplicate"}
    PROVE  \/ stage'[r] = "created" /\ r \in users'
           \/ /\ stage'[r] # "created"
              /\ stage[r] \in {"new", "karma", "insert"} /\ users' = users
              /\ stage'[r] \in {"conflict", "duplicate"} => UsersWith(form'[r].email) # {}
<1> DEFINE Ends == \/ stage'[r] = "created" /\ r \in users'
                   \/ /\ stage'[r] # "created"
                      /\ stage[r] \in {"new", "karma", "insert"} /\ users' = users
                      /\ stage'[r] \in {"conflict", "duplicate"} => UsersWith(form'[r].email) # {}
<1> USE DEF TypeOK, Become, InFlight
<1>1. ASSUME NEW q \in Requests, NEW f \in Forms, Register(q, f) PROVE Ends
  <2>1. q = r /\ form'[r] = f
    BY <1>1 DEF Register
  <2> QED BY <1>1, <2>1 DEF Register, accounts
<1>2. ASSUME NEW q \in Requests, \/ \E e \in Emails : Login(q, e)
                                \/ \E t \in Requests \union {None} : Request(q, t)
      PROVE  Ends
  BY <1>2 DEF Login, Request
<1>3. ASSUME NEW q \in Requests, Proceed(q) PROVE Ends
  <2>1. CASE \E i \in Identities, v \in {"listed", "clear", "failed"} : KarmaAnswers(q, i, v)
    BY <2>1 DEF KarmaAnswers
  <2>2. CASE CommitUser(q)
    <3>1. "users" \in drafts[q]
      BY <2>2 DEF CommitUser, DraftsKnown
    <3> QED BY <2>2, <3>1 DEF CommitUser, Stores
  <2>3. CASE Forbid(q) \/ Admit(q) \/ DuplicateUser(q)
    BY <2>3 DEF Forbid, Admit, DuplicateUser, Resolved, Answer, EmailTaken, accounts
  <2>4. CASE Authenticate(q) \/ ReadUser(q) \/ ReadWallet(q)
    BY <2>4 DEF Authenticate, ReadUser, ReadWallet, Answer
  <2>5. CASE InsertUser(q) \/ InsertWallet(q)
    BY <2>5 DEF InsertUser, InsertWallet
  <2> QED BY <1>3, <2>1, <2>2, <2>3, <2>4, <2>5 DEF Proceed
<1>4. ASSUME NEW q \in Requests, CommitUnacknowledged(q) \/ Abort(q) \/ Expire(q) PROVE Ends
  BY <1>4 DEF CommitUnacknowledged, Abort, Expire
<1>5. CASE Crash \/ UNCHANGED vars \/ \E i \in Volatile : BlacklistChanges(i)
  BY <1>5 DEF Crash, vars, BlacklistChanges
<1> QED BY <1>1, <1>2, <1>3, <1>4, <1>5 DEF Next, Arrive

LEMMA RegistrationStep ==
    TypeOK /\ Consistency /\ Consistency' /\ RegistrationTrue /\ [Next]_vars => RegistrationTrue'
<1> SUFFICES ASSUME TypeOK, Consistency, Consistency', RegistrationTrue, [Next]_vars,
                    NEW r \in Requests
             PROVE  (/\ stage[r] = "created" => r \in users
                     /\ stage[r] \in {"conflict", "duplicate"} =>
                          UsersWith(form[r].email) \notin {{}, {r}}
                     /\ stage[r] \in {"conflict", "forbidden", "duplicate"} => r \notin users)'
    BY DEF RegistrationTrue
<1>1. stage'[r] \in {"conflict", "forbidden", "duplicate"} => r \notin users'
  BY DEF Consistency, RowsComplete
<1>2. stage'[r] = "created" => r \in users'
  BY RowsStay, RegistrationEnds DEF RegistrationTrue, Consistency
<1>3. ASSUME stage'[r] \in {"conflict", "duplicate"}
      PROVE  \E u \in users' : form'[u].email = form'[r].email
  <2>1. CASE stage'[r] = stage[r]
    <3>1. PICK u \in users : form[u].email = form[r].email
      BY <1>3, <2>1 DEF RegistrationTrue, UsersWith
    <3>2. u \in Requests /\ stage[u] # "new"
      BY DEF TypeOK, Consistency, RowsComplete
    <3> QED BY <1>3, <2>1, <3>1, <3>2, RowsStay
  <2>2. CASE stage'[r] # stage[r]
    <3>1. PICK u \in users : form[u].email = form'[r].email
      BY <1>3, <2>2, RegistrationEnds DEF UsersWith, Consistency
    <3>2. u \in Requests /\ stage[u] # "new"
      BY DEF TypeOK, Consistency, RowsComplete
    <3> QED BY <3>1, <3>2, RowsStay
  <2> QED BY <2>1, <2>2
<1> QED BY <1>1, <1>2, <1>3 DEF UsersWith

\* What a registration is told agrees with the accounts there are, whatever
\* happens to its transaction and to other registrations meanwhile
\* (user.service.ts:22-55, APIError.ts:58-92).
THEOREM RegistrationsTold == Spec => []RegistrationTrue
<1>1. Init => RegistrationTrue
  BY DEF Init, RegistrationTrue
<1> QED BY <1>1, RegistrationStep, AccountsTyped, AccountsConsistent, PTL DEF Spec

=============================================================================
