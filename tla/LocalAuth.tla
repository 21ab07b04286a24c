-------------------------------- MODULE LocalAuth --------------------------------
(***************************************************************************)
(* Local accounts (identity/password_policy.py): passwords under a policy, *)
(* and the lock after failed attempts.  A password is what the policy and  *)
(* the hash tell apart of it; the clock ticks.                             *)
(***************************************************************************)
EXTENDS Integers, Sequences, FiniteSets, SequencesExt

CONSTANTS
    Person,         \* login, as it is typed -> the name it is normalised to
    Password,       \* password -> [length, classes, common, holds]
    MaxFailed,      \* wrong passwords that lock an account
    LockTime,       \* ticks a lock lasts
    MaxTime         \* bound on the clock

ASSUME LockAssumption == MaxFailed \in Nat \ {0} /\ LockTime \in Nat \ {0}

VARIABLES
    users,          \* name -> account
    now,
    answer,         \* what the last call answered, and why
    wrong           \* name -> when wrong passwords were checked since the last success

authVars == <<users, now, answer, wrong>>

NoAnswer == [call |-> "none"]

AuthInit ==
    /\ users = <<>>
    /\ now = 0
    /\ answer = NoAnswer
    /\ wrong = [n \in {Person[l] : l \in DOMAIN Person} |-> <<>>]

Tick ==
    /\ now < MaxTime
    /\ now' = now + 1
    /\ UNCHANGED <<users, answer, wrong>>

(***************************************************************************)
(* Passwords.                                                              *)
(***************************************************************************)
Classes == {"upper", "lower", "number", "special"}

Validate(password, name) ==
    LET p == Password[password] IN
    /\ p.length \in 12 .. 128
    /\ p.classes = Classes
    /\ ~p.common
    /\ name \notin p.holds

\* Names are trimmed and lowered before they are looked up: one account for every spelling.
RegisterUser(login, password) ==
    LET name == Person[login] IN
    /\ name \notin DOMAIN users
    /\ Validate(password, name)
    /\ users' = [n \in DOMAIN users \cup {name} |-> IF n # name THEN users[n] ELSE
         [password |-> password, failed |-> 0, lockedUntil |-> 0, mfa |-> FALSE]]
    /\ answer' = [call |-> "register", name |-> name, result |-> "ok"]
    /\ UNCHANGED <<now, wrong>>

\* Mutation: a lock that is about to end is lifted.
UnlockedEarly(account) ==
    IF account.lockedUntil > 0 /\ now + 1 >= account.lockedUntil
    THEN [account EXCEPT !.lockedUntil = 0, !.failed = 0]
    ELSE account

\* The account as an attempt finds it: a lock that has ended is lifted, with its count.
Unlocked(account) ==
    IF account.lockedUntil > 0 /\ now >= account.lockedUntil
    THEN [account EXCEPT !.lockedUntil = 0, !.failed = 0]
    ELSE account

\* A wrong password is counted, and locks the account when it is one too many.
Failed(account) ==
    LET failed == account.failed + 1 IN
    [account EXCEPT !.failed = failed, !.lockedUntil = IF failed >= MaxFailed THEN now + LockTime ELSE @]

\* The right one clears the count.
Succeeded(account) == [account EXCEPT !.failed = 0, !.lockedUntil = 0]

\* Whoever keeps the account turns its second factor on.
EnableMfa(name) ==
    /\ name \in DOMAIN users
    /\ ~users[name].mfa
    /\ users' = [users EXCEPT ![name].mfa = TRUE]
    /\ answer' = NoAnswer
    /\ UNCHANGED <<now, wrong>>

LastOf(times, n) == IF Len(times) > n THEN SubSeq(times, Len(times) - n + 1, Len(times)) ELSE times

Authenticate(login, password) ==
    LET name == Person[login] IN
    /\ name \in DOMAIN users
    /\ LET account == Unlocked(users[name])
           right == password = account.password IN
       IF account.lockedUntil > 0
       THEN /\ answer' = [call |-> "login", name |-> name, right |-> right, result |-> "locked", at |-> now]
            /\ UNCHANGED <<users, wrong>>
       ELSE IF right
       THEN /\ users' = [users EXCEPT ![name] = Succeeded(account)]
            /\ answer' = [call |-> "login", name |-> name, right |-> right, at |-> now,
                          result |-> IF account.mfa THEN "second factor" ELSE "in"]
            /\ wrong' = [wrong EXCEPT ![name] = <<>>]
       ELSE /\ users' = [users EXCEPT ![name] = Failed(account)]
            /\ answer' = [call |-> "login", name |-> name, right |-> right, at |-> now,
                          result |-> IF Failed(account).lockedUntil > 0 THEN "locked" ELSE "refused"]
            /\ wrong' = [wrong EXCEPT ![name] = LastOf(Append(@, now), MaxFailed + 1)]
    /\ UNCHANGED now

AuthNext ==
    \/ Tick
    \/ \E login \in DOMAIN Person, password \in DOMAIN Password :
        RegisterUser(login, password) \/ Authenticate(login, password)
    \/ \E login \in DOMAIN Person : EnableMfa(Person[login])

AuthSpec == AuthInit /\ [][AuthNext]_authVars

-------------------------------------------------------------------------------
\* Whatever spellings of a name are typed, and however wrong and right attempts, waiting
\* and ended locks mix: between two successes no MaxFailed + 1 wrong passwords are looked
\* at within the time a lock lasts, and the right one is only turned away while the last
\* MaxFailed wrong ones are not that old.
GuessesAreBounded ==
    /\ \A name \in DOMAIN wrong : Len(wrong[name]) > MaxFailed =>
          wrong[name][Len(wrong[name])] - wrong[name][Len(wrong[name]) - MaxFailed] >= LockTime
    /\ (answer.call = "login" /\ answer.right /\ answer.result = "locked") =>
          LET times == wrong[answer.name] IN
          /\ Len(times) >= MaxFailed
          /\ answer.at - times[Len(times)] < LockTime

===============================================================================
