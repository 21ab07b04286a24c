---------------------------- MODULE IdentityProofs ----------------------------
(***************************************************************************)
(* Theorems about who may do what, for any people, names and limits:       *)
(*   LocalAuth      a locked account holds off guesses;                    *)
(*   TenantAccess   nobody sees or changes another tenant's data;          *)
(*   AuditLedger    the ledgers of what they did;                          *)
(*   SessionTokens  a session's refresh tokens work once each, with access *)
(*                  tokens that the grace period outlasts.                 *)
(***************************************************************************)
EXTENDS LocalAuth, TenantAccess, AuditLedger, SessionTokens, FoldTheorems

-----------------------------------------------------------------------------
(* Local accounts.  The count of an account only sees the wrong passwords  *)
(* since its last lock ended, the property speaks of all since the last    *)
(* success.  What links the two: the attempt just before those counted is  *)
(* the one that locked the account, and that lock has run its time.        *)

AccountNames == {Person[l] : l \in DOMAIN Person}

Account == [password: DOMAIN Password, failed: 0 .. MaxFailed, lockedUntil: Nat, mfa: BOOLEAN]

AuthShape ==
  /\ now \in Nat
  /\ users \in [DOMAIN users -> Account]
  /\ DOMAIN users \subseteq AccountNames
  /\ wrong \in [AccountNames -> Seq(Nat)]

\* Attempts are kept in the order of their times.
TimesInOrder ==
  \A n \in AccountNames :
    /\ Len(wrong[n]) <= MaxFailed + 1
    /\ \A i, j \in 1 .. Len(wrong[n]) : i <= j => wrong[n][i] <= wrong[n][j]
    /\ \A i \in 1 .. Len(wrong[n]) : wrong[n][i] <= now

\* What an account's count says of its attempts.
CountIsHonest(n) ==
  LET a == users[n]
      times == wrong[n]
  IN  IF a.lockedUntil > 0
      THEN /\ Len(times) >= MaxFailed
           /\ a.lockedUntil = times[Len(times)] + LockTime
      ELSE /\ a.failed < MaxFailed
           /\ a.failed <= Len(times)
           /\ a.failed < Len(times) => times[Len(times) - a.failed] + LockTime <= now

CountsAreHonest ==
  /\ \A n \in DOMAIN users : CountIsHonest(n)
  /\ \A n \in AccountNames \ DOMAIN users : wrong[n] = <<>>

AuthInv == AuthShape /\ TimesInOrder /\ CountsAreHonest /\ GuessesAreBounded

\* One more attempt, of which at most n are kept: the first of the others are cut.
IsKept(kept, k, times, t, n) ==
  /\ k = IF Len(times) + 1 > n THEN n ELSE Len(times) + 1
  /\ kept = LastOf(Append(times, t), n)

LEMMA LastOfAppend ==
  ASSUME NEW times \in Seq(Nat), NEW t \in Nat, NEW n \in Nat \ {0}, NEW k, NEW kept
  PROVE  IsKept(kept, k, times, t, n)
         => /\ kept \in [1 .. k -> Nat]
            /\ kept[k] = t
            /\ \A i \in 1 .. k : i < k => kept[i] = times[i + (Len(times) + 1 - k)]
<1> DEFINE l    == Len(times)
           grown == Append(times, t)
<1>0. SUFFICES ASSUME k = IF l + 1 > n THEN n ELSE l + 1, kept = LastOf(grown, n)
               PROVE  /\ kept \in [1 .. k -> Nat] /\ kept[k] = t
                      /\ \A i \in 1 .. k : i < k => kept[i] = times[i + (l + 1 - k)]
  BY DEF IsKept
<1>1. /\ l \in Nat /\ grown \in Seq(Nat) /\ Len(grown) = l + 1
      /\ \A i \in 1 .. l : grown[i] = times[i]
      /\ grown[l + 1] = t
      /\ \A i \in 1 .. l + 1 : grown[i] \in Nat
  OBVIOUS
<1>2. CASE l + 1 > n
  <2> DEFINE m == l + 1 - n + 1
  <2>1. LastOf(grown, n) = SubSeq(grown, m, l + 1)
    <3> HIDE DEF grown, l
    <3>1. Len(grown) > n /\ Len(grown) - n + 1 = m
      BY <1>1, <1>2
    <3>2. LastOf(grown, n) = SubSeq(grown, m, Len(grown))
      BY <3>1, Zenon DEF LastOf
    <3>3. QED
      BY <1>1, <3>2, Zenon
  <2>2. m \in Int /\ l + 1 \in Int /\ m <= l + 1 /\ (l + 1) - m + 1 = n /\ m >= 1 /\ k = n
    BY <1>0, <1>1, <1>2
  <2> HIDE DEF grown, l
  <2>3. \A i \in m .. l + 1 : grown[i] \in Nat
    BY <1>1, <2>2
  <2>4. /\ SubSeq(grown, m, l + 1) \in Seq(Nat)
        /\ Len(SubSeq(grown, m, l + 1)) = n
        /\ \A i \in 1 .. n : SubSeq(grown, m, l + 1)[i] = grown[m + i - 1]
    <3> HIDE DEF m
    <3>1. QED
      BY <2>2, <2>3, SubSeqProperties
  <2>5. SubSeq(grown, m, l + 1)[n] = t
    <3>1. m + n - 1 = l + 1 /\ n \in 1 .. n
      BY <2>2
    <3>2. QED
      BY <1>1, <2>4, <3>1
  <2>6. ASSUME NEW i \in 1 .. n, i < n PROVE SubSeq(grown, m, l + 1)[i] = times[i + (l + 1 - n)]
    <3>1. m + i - 1 = i + (l + 1 - n) /\ m + i - 1 \in 1 .. l
      BY <1>1, <1>2, <2>6
    <3>2. QED
      BY <1>1, <2>4, <3>1
  <2>7. SubSeq(grown, m, l + 1) \in [1 .. n -> Nat]
    <3> DEFINE s == SubSeq(grown, m, l + 1)
    <3>1. s \in Seq(Nat) /\ Len(s) = n
      BY <2>4
    <3> HIDE DEF s
    <3>2. s \in [1 .. n -> Nat]
      BY <3>1
    <3>3. QED
      BY <3>2 DEF s
  <2>8. QED
    BY <1>0, <2>1, <2>2, <2>5, <2>6, <2>7
<1>3. CASE ~(l + 1 > n)
  <2>1. LastOf(grown, n) = grown /\ k = l + 1
    BY <1>0, <1>1, <1>3 DEF LastOf
  <2> HIDE DEF grown, l
  <2>2. grown \in [1 .. l + 1 -> Nat]
    BY <1>1
  <2>3. \A i \in 1 .. k : i < k => grown[i] = times[i + (l + 1 - k)]
    <3> TAKE i \in 1 .. k
    <3> HAVE i < k
    <3>1. i \in 1 .. l /\ i + (l + 1 - k) = i
      BY <1>1, <2>1
    <3>2. QED
      BY <1>1, <3>1
  <2>4. QED
    BY <1>0, <1>1, <2>1, <2>2, <2>3
<1>4. QED
  BY <1>2, <1>3

\* What is known when a wrong password is looked at, at time t: l attempts, k kept with it.
OneMore(l, times, t, failed, max, lock, k, kept) ==
  /\ k = IF l + 1 > max + 1 THEN max + 1 ELSE l + 1
  /\ kept[k] = t
  /\ \A i \in 1 .. k : i < k => kept[i] = times[i + (l + 1 - k)]
  /\ \A i, j \in 1 .. l : i <= j => times[i] <= times[j]
  /\ \A i \in 1 .. l : times[i] <= t
  /\ failed + 1 <= max /\ failed <= l
  /\ failed < l => times[l - failed] + lock <= t

\* The order of attempts, and what the lock before those counted says of them, with one more.
LEMMA OneMoreAttempt ==
  ASSUME NEW l \in Nat, NEW times \in [1 .. l -> Nat], NEW t \in Nat, NEW failed \in Nat,
         NEW max \in Nat \ {0}, NEW lock \in Nat, NEW k \in 1 .. max + 1,
         NEW kept \in [1 .. k -> Nat]
  PROVE  OneMore(l, times, t, failed, max, lock, k, kept)
         => /\ \A i, j \in 1 .. k : i <= j => kept[i] <= kept[j]
            /\ \A i \in 1 .. k : kept[i] <= t
            /\ failed + 1 <= k
            /\ failed + 1 < k => kept[k - (failed + 1)] + lock <= t
            /\ k > max => kept[k] - kept[k - max] >= lock
<1> DEFINE cut == l + 1 - k
<1>0. SUFFICES
        ASSUME k = IF l + 1 > max + 1 THEN max + 1 ELSE l + 1,
               /\ kept[k] = t
               /\ \A i \in 1 .. k : i < k => kept[i] = times[i + (l + 1 - k)],
               /\ \A i, j \in 1 .. l : i <= j => times[i] <= times[j]
               /\ \A i \in 1 .. l : times[i] <= t,
               /\ failed + 1 <= max /\ failed <= l
               /\ failed < l => times[l - failed] + lock <= t
        PROVE  /\ \A i, j \in 1 .. k : i <= j => kept[i] <= kept[j]
               /\ \A i \in 1 .. k : kept[i] <= t
               /\ failed + 1 <= k
               /\ failed + 1 < k => kept[k - (failed + 1)] + lock <= t
               /\ k > max => kept[k] - kept[k - max] >= lock
  BY DEF OneMore
<1>1. cut \in Nat /\ cut + k = l + 1 /\ \A i \in 1 .. k : i < k => i + cut \in 1 .. l
  BY <1>0, SMTT(30)
<1>a. \A i \in 1 .. k : i < k => kept[i] = times[i + cut]
  BY <1>0
<1> HIDE DEF cut
<1>2. \A i \in 1 .. k : kept[i] <= t
  <2> TAKE i \in 1 .. k
  <2>1. CASE i = k
    BY <1>0, <2>1
  <2>2. CASE i < k
    BY <1>0, <1>1, <1>a, <2>2
  <2>3. QED
    BY <2>1, <2>2
<1>3. ASSUME NEW i \in 1 .. k, NEW j \in 1 .. k, i <= j PROVE kept[i] <= kept[j]
  <2>1. CASE j = k
    BY <1>0, <1>2, <2>1
  <2>2. CASE j < k
    <3>1. i + cut \in 1 .. l /\ j + cut \in 1 .. l /\ i + cut <= j + cut /\ i < k
      BY <1>1, <1>3, <2>2
    <3>2. QED
      BY <1>0, <1>a, <2>2, <3>1
  <2>3. QED
    BY <2>1, <2>2
<1>4. failed + 1 <= k
  BY <1>0
<1>5. ASSUME failed + 1 < k PROVE kept[k - (failed + 1)] + lock <= t
  <2>1. k - (failed + 1) \in 1 .. k /\ k - (failed + 1) < k
    BY <1>5
  <2>2. k - (failed + 1) + cut = l - failed /\ failed < l
    BY <1>1, <1>5
  <2>3. kept[k - (failed + 1)] = times[l - failed]
    BY <1>a, <2>1, <2>2
  <2>4. QED
    BY <1>0, <2>2, <2>3
<1>6. ASSUME k > max PROVE kept[k] - kept[k - max] >= lock
  <2>1. k = max + 1 /\ 1 \in 1 .. k /\ k - max = 1 /\ 1 < k
    BY <1>6
  <2>2. 1 + cut \in 1 .. l /\ kept[1] = times[1 + cut]
    BY <1>1, <1>a, <2>1
  <2>3. /\ l - failed \in 1 .. l /\ 1 + cut <= l - failed /\ failed < l
    BY <1>0, <1>1, <2>1, <2>2
  <2>4. times[1 + cut] <= times[l - failed]
    BY <1>0, <2>2, <2>3
  <2>5. times[l - failed] + lock <= t
    BY <1>0, <2>3
  <2>6. times[1 + cut] \in Nat /\ times[l - failed] \in Nat
    BY <2>2, <2>3
  <2>7. kept[k - max] = times[1 + cut]
    BY <2>1, <2>2
  <2>8. t - times[1 + cut] >= lock
    BY <2>4, <2>5, <2>6, SMTT(30)
  <2>9. QED
    BY <1>0, <2>7, <2>8
<1>7. QED
  BY <1>2, <1>3, <1>4, <1>5, <1>6

LEMMA AuthInit_Inv == AuthInit => AuthInv
  BY LockAssumption DEF AuthInit, AuthInv, AuthShape, TimesInOrder, CountsAreHonest, CountIsHonest,
     GuessesAreBounded, AccountNames, NoAnswer

\* An account stays as honest as it was while its counts and its attempts stay.
LEMMA StaysHonest ==
  ASSUME AuthShape, AuthShape', NEW n \in DOMAIN users, n \in DOMAIN users', CountIsHonest(n),
         now' >= now, wrong' = wrong,
         users'[n].failed = users[n].failed, users'[n].lockedUntil = users[n].lockedUntil
  PROVE  CountIsHonest(n)'
<1> DEFINE w == wrong[n]
           f == users[n].failed
           u == users[n].lockedUntil
           l == Len(w)
           x == w[l - f]
<1>1. now \in Nat /\ now' \in Nat /\ now' >= now /\ LockTime \in Nat
  BY LockAssumption DEF AuthShape
<1>2. w \in Seq(Nat) /\ l \in Nat /\ f \in Nat
  BY DEF AuthShape, Account
<1>3. f < l => x \in Nat
  <2> HIDE DEF w, f
  <2>1. f < l => l - f \in 1 .. l
    BY <1>2
  <2>2. QED
    BY <1>2, <2>1
<1>4. /\ u > 0 => l >= MaxFailed /\ u = w[l] + LockTime
      /\ ~(u > 0) => f < MaxFailed /\ f <= l /\ (f < l => x + LockTime <= now)
  BY Zenon DEF CountIsHonest
<1>5. wrong'[n] = w /\ users'[n].failed = f /\ users'[n].lockedUntil = u
  OBVIOUS
<1>6. x + LockTime <= now /\ f < l => x + LockTime <= now'
  <2> HIDE DEF x, f, l
  <2>1. QED
    BY <1>1, <1>3
<1>7. /\ u > 0 => l >= MaxFailed /\ u = w[l] + LockTime
      /\ ~(u > 0) => f < MaxFailed /\ f <= l /\ (f < l => x + LockTime <= now')
  BY <1>4, <1>6, Zenon
<1>8. QED
  BY <1>5, <1>7, Zenon DEF CountIsHonest

\* A step that checks no password leaves accounts as honest as they were.
LEMMA QuietStepKeeps ==
  ASSUME AuthInv, AuthShape', now' >= now, wrong' = wrong,
         DOMAIN users \subseteq DOMAIN users',
         \A n \in DOMAIN users : /\ users'[n].failed = users[n].failed
                                 /\ users'[n].lockedUntil = users[n].lockedUntil,
         \A n \in DOMAIN users' \ DOMAIN users : users'[n].failed = 0 /\ users'[n].lockedUntil = 0,
         answer' = answer \/ answer'.call # "login"
  PROVE  AuthInv'
<1>1. TimesInOrder'
  BY DEF AuthInv, AuthShape, TimesInOrder
<1>2. CountsAreHonest'
  <2>1. ASSUME NEW n \in DOMAIN users PROVE CountIsHonest(n)'
    <3>1. AuthShape /\ CountIsHonest(n) /\ n \in DOMAIN users'
      BY <2>1 DEF AuthInv, CountsAreHonest
    <3>2. QED
      BY <2>1, <3>1, StaysHonest
  <2>2. ASSUME NEW n \in DOMAIN users' \ DOMAIN users PROVE CountIsHonest(n)'
    <3>1. n \in AccountNames /\ wrong'[n] = <<>>
      BY <2>2 DEF AuthInv, AuthShape, CountsAreHonest
    <3>2. QED
      BY <2>2, <3>1, LockAssumption DEF CountIsHonest
  <2>3. QED
    BY <2>1, <2>2 DEF AuthInv, CountsAreHonest
<1>3. GuessesAreBounded'
  BY DEF AuthInv, GuessesAreBounded
<1>4. QED
  BY <1>1, <1>2, <1>3 DEF AuthInv

LEMMA TickKeeps == ASSUME AuthInv, Tick PROVE AuthInv'
<1>1. AuthShape'
  BY DEF AuthInv, AuthShape, Tick
<1>2. QED
  BY <1>1, QuietStepKeeps DEF AuthInv, AuthShape, Tick

LEMMA RegisterKeeps ==
  ASSUME AuthInv, NEW l \in DOMAIN Person, NEW p \in DOMAIN Password, RegisterUser(l, p)
  PROVE  AuthInv'
<1>1. Person[l] \in AccountNames
  BY DEF AccountNames
<1>2. AuthShape'
  BY <1>1, LockAssumption DEF AuthInv, AuthShape, RegisterUser, Account
<1>3. /\ now' = now /\ now \in Nat /\ wrong' = wrong /\ answer'.call # "login"
      /\ DOMAIN users' = DOMAIN users \cup {Person[l]} /\ Person[l] \notin DOMAIN users
      /\ \A n \in DOMAIN users : users'[n] = users[n]
      /\ users'[Person[l]].failed = 0 /\ users'[Person[l]].lockedUntil = 0
  BY DEF AuthInv, AuthShape, RegisterUser
<1> HIDE DEF RegisterUser
<1>4. QED
  BY <1>2, <1>3, QuietStepKeeps

LEMMA EnableMfaKeeps ==
  ASSUME AuthInv, NEW n \in AccountNames, EnableMfa(n) PROVE AuthInv'
<1>1. AuthShape'
  BY DEF AuthInv, AuthShape, EnableMfa, Account
<1>2. QED
  BY <1>1, QuietStepKeeps, SMTT(30) DEF AuthInv, AuthShape, EnableMfa, NoAnswer, Account

\* An attempt finds the account as honest as it was, its ended lock lifted.
LEMMA UnlockedIsHonest ==
  ASSUME AuthInv, NEW n \in DOMAIN users
  PROVE  LET a == Unlocked(users[n])
             times == wrong[n]
         IN  /\ a \in Account
             /\ a.password = users[n].password
             /\ a.lockedUntil > 0 =>
                  /\ a = users[n] /\ now < a.lockedUntil
                  /\ Len(times) >= MaxFailed
                  /\ a.lockedUntil = times[Len(times)] + LockTime
             /\ a.lockedUntil = 0 =>
                  /\ a.failed < MaxFailed
                  /\ a.failed <= Len(times)
                  /\ a.failed < Len(times) => times[Len(times) - a.failed] + LockTime <= now
<1> DEFINE a == users[n]
           times == wrong[n]
<1>1. /\ a \in Account /\ now \in Nat /\ times \in Seq(Nat) /\ CountIsHonest(n)
  BY DEF AuthInv, AuthShape, CountsAreHonest
<1>2. a.lockedUntil \in Nat /\ a.failed \in 0 .. MaxFailed
  BY <1>1 DEF Account
<1>3. CASE a.lockedUntil > 0 /\ now >= a.lockedUntil
  <2>1. Unlocked(a) = [a EXCEPT !.lockedUntil = 0, !.failed = 0]
    BY <1>3 DEF Unlocked
  <2>2. /\ Unlocked(a) \in Account /\ Unlocked(a).password = a.password
        /\ Unlocked(a).lockedUntil = 0 /\ Unlocked(a).failed = 0
    <3> DEFINE none == 0
    <3>1. none \in 0 .. MaxFailed /\ none \in Nat
      BY LockAssumption
    <3>2. Unlocked(a) = [a EXCEPT !.lockedUntil = none, !.failed = none]
      BY <2>1
    <3> DEFINE b == Unlocked(a)
    <3> HIDE DEF a, b, none
    <3>3. b \in Account /\ b.password = a.password /\ b.lockedUntil = none /\ b.failed = none
      BY <1>1, <3>1, <3>2 DEF Account, b
    <3>4. QED
      BY <3>3 DEF b, none
  <2>3. Len(times) >= MaxFailed /\ times[Len(times)] + LockTime <= now
    BY <1>1, <1>2, <1>3 DEF CountIsHonest
  <2>4. QED
    BY <1>1, <2>2, <2>3, LockAssumption
<1>4. CASE ~(a.lockedUntil > 0 /\ now >= a.lockedUntil)
  <2>1. Unlocked(a) = a
    BY <1>4 DEF Unlocked
  <2>2. QED
    BY <1>1, <1>2, <1>4, <2>1 DEF CountIsHonest
<1>5. QED
  BY <1>3, <1>4

\* A login that finds its account locked.
LEMMA LockedKeeps ==
  ASSUME AuthInv, NEW n \in DOMAIN users, users[n].lockedUntil > 0, now < users[n].lockedUntil,
         UNCHANGED <<users, wrong, now>>, answer'.name = n, answer'.at = now
  PROVE  AuthInv'
<1>1. /\ AuthShape' /\ TimesInOrder' /\ CountsAreHonest'
      /\ n \in AccountNames
  BY DEF AuthInv, AuthShape, TimesInOrder, CountsAreHonest, CountIsHonest
<1>2. GuessesAreBounded'
  <2> DEFINE times == wrong[n]
             u == users[n].lockedUntil
  <2>1. /\ times \in Seq(Nat) /\ now \in Nat /\ u \in Nat
        /\ Len(times) >= MaxFailed /\ u = times[Len(times)] + LockTime
    BY <1>1 DEF AuthInv, AuthShape, CountsAreHonest, CountIsHonest, Account
  <2>2. times[Len(times)] \in Nat
    BY <2>1, LockAssumption
  <2>3. now - times[Len(times)] < LockTime
    <3> HIDE DEF times, u
    <3>1. now < u
      BY DEF u
    <3>2. QED
      BY <2>1, <2>2, <3>1, LockAssumption
  <2>4. answer'.at - wrong'[answer'.name][Len(wrong'[answer'.name])] < LockTime
        /\ Len(wrong'[answer'.name]) >= MaxFailed
    BY <2>1, <2>3
  <2>5. \A name \in DOMAIN wrong' : Len(wrong'[name]) > MaxFailed =>
          wrong'[name][Len(wrong'[name])] - wrong'[name][Len(wrong'[name]) - MaxFailed] >= LockTime
    BY DEF AuthInv, GuessesAreBounded
  <2>6. QED
    BY <2>4, <2>5 DEF GuessesAreBounded
<1>3. QED
  BY <1>1, <1>2 DEF AuthInv

\* A login that looks at the password: the account and its attempts are written.
LEMMA AttemptKeeps ==
  ASSUME NEW n \in DOMAIN users, NEW a \in Account, NEW k \in Nat, NEW times \in [1 .. k -> Nat]
  PROVE  /\ AuthInv
         /\ users' = [users EXCEPT ![n] = a] /\ wrong' = [wrong EXCEPT ![n] = times] /\ now' = now
         /\ ~answer'.right \/ answer'.result # "locked"
         /\ k <= MaxFailed + 1
         /\ \A i, j \in 1 .. k : i <= j => times[i] <= times[j]
         /\ \A i \in 1 .. k : times[i] <= now
         /\ k > MaxFailed => times[k] - times[k - MaxFailed] >= LockTime
         /\ a.lockedUntil > 0 => k >= MaxFailed /\ a.lockedUntil = times[k] + LockTime
         /\ ~(a.lockedUntil > 0) => /\ a.failed < MaxFailed /\ a.failed <= k
                                    /\ a.failed < k => times[k - a.failed] + LockTime <= now
         => AuthInv'
<1>0. SUFFICES
        ASSUME AuthInv,
               users' = [users EXCEPT ![n] = a] /\ wrong' = [wrong EXCEPT ![n] = times] /\ now' = now,
               ~answer'.right \/ answer'.result # "locked",
               /\ k <= MaxFailed + 1
               /\ \A i, j \in 1 .. k : i <= j => times[i] <= times[j]
               /\ \A i \in 1 .. k : times[i] <= now,
               k > MaxFailed => times[k] - times[k - MaxFailed] >= LockTime,
               /\ a.lockedUntil > 0 => k >= MaxFailed /\ a.lockedUntil = times[k] + LockTime
               /\ ~(a.lockedUntil > 0) => /\ a.failed < MaxFailed /\ a.failed <= k
                                          /\ a.failed < k => times[k - a.failed] + LockTime <= now
        PROVE  AuthInv'
  OBVIOUS
<1>a. /\ users \in [DOMAIN users -> Account] /\ wrong \in [AccountNames -> Seq(Nat)]
      /\ n \in AccountNames
  BY <1>0 DEF AuthInv, AuthShape
<1>b. times \in Seq(Nat) /\ Len(times) = k
  OBVIOUS
<1>1. /\ n \in AccountNames /\ times \in Seq(Nat) /\ Len(times) = k
      /\ DOMAIN users' = DOMAIN users /\ users'[n] = a
      /\ \A m \in DOMAIN users \ {n} : users'[m] = users[m]
      /\ DOMAIN wrong' = AccountNames /\ wrong'[n] = times
      /\ \A m \in AccountNames \ {n} : wrong'[m] = wrong[m]
  BY <1>0, <1>a, <1>b
<1>2. AuthShape'
  BY <1>0, <1>1, <1>a DEF AuthInv, AuthShape
<1>3. TimesInOrder'
  <2> SUFFICES ASSUME NEW m \in AccountNames
               PROVE  /\ Len(wrong'[m]) <= MaxFailed + 1
                      /\ \A i, j \in 1 .. Len(wrong'[m]) : i <= j => wrong'[m][i] <= wrong'[m][j]
                      /\ \A i \in 1 .. Len(wrong'[m]) : wrong'[m][i] <= now
    BY <1>0 DEF TimesInOrder
  <2>1. CASE m = n
    BY <1>0, <1>1, <2>1
  <2>2. CASE m # n
    BY <1>0, <1>1, <2>2 DEF AuthInv, TimesInOrder
  <2>3. QED
    BY <2>1, <2>2
<1>4. CountIsHonest(n)'
  BY <1>0, <1>1, Zenon DEF CountIsHonest
<1>5. ASSUME NEW m \in DOMAIN users, m # n PROVE CountIsHonest(m)'
  <2>1. wrong'[m] = wrong[m] /\ users'[m] = users[m]
    BY <1>0, <1>1, <1>5 DEF AuthInv, AuthShape
  <2>2. CountIsHonest(m)
    BY <1>0 DEF AuthInv, CountsAreHonest
  <2>3. QED
    BY <1>0, <2>1, <2>2, Zenon DEF CountIsHonest
<1>6. CountsAreHonest'
  BY <1>0, <1>1, <1>4, <1>5 DEF AuthInv, CountsAreHonest
<1>7. GuessesAreBounded'
  <2> SUFFICES ASSUME NEW m \in AccountNames, Len(wrong'[m]) > MaxFailed
               PROVE  wrong'[m][Len(wrong'[m])] - wrong'[m][Len(wrong'[m]) - MaxFailed] >= LockTime
    BY <1>0, <1>1 DEF GuessesAreBounded
  <2>1. CASE m = n
    BY <1>0, <1>1, <2>1
  <2>2. CASE m # n
    BY <1>0, <1>1, <2>2 DEF AuthInv, AuthShape, GuessesAreBounded
  <2>3. QED
    BY <2>1, <2>2
<1>8. QED
  BY <1>2, <1>3, <1>6, <1>7 DEF AuthInv

\* What an attempt writes, by what it finds.
LEMMA AuthenticateCases ==
  ASSUME NEW login \in DOMAIN Person, NEW p \in DOMAIN Password, Authenticate(login, p)
  PROVE  LET name == Person[login]
             account == Unlocked(users[name])
         IN  /\ name \in DOMAIN users /\ now' = now
             /\ account.lockedUntil > 0 =>
                  users' = users /\ wrong' = wrong /\ answer'.name = name /\ answer'.at = now
             /\ ~(account.lockedUntil > 0) /\ p = account.password =>
                  /\ users' = [users EXCEPT ![name] = Succeeded(account)]
                  /\ wrong' = [wrong EXCEPT ![name] = <<>>]
                  /\ answer'.result # "locked"
             /\ ~(account.lockedUntil > 0) /\ p # account.password =>
                  /\ users' = [users EXCEPT ![name] = Failed(account)]
                  /\ wrong' = [wrong EXCEPT ![name] = LastOf(Append(wrong[name], now), MaxFailed + 1)]
                  /\ ~answer'.right
<1> DEFINE name == Person[login]
           account == Unlocked(users[name])
           right == p = account.password
           a == Failed(account)
           b == Succeeded(account)
           times == LastOf(Append(wrong[name], now), MaxFailed + 1)
           more(r, t) == [call |-> "login", name |-> name, right |-> r, at |-> now, result |-> t]
<1>1. /\ name \in DOMAIN users
      /\ account.lockedUntil > 0 => answer' = more(right, "locked") /\ users' = users /\ wrong' = wrong
      /\ ~(account.lockedUntil > 0) /\ right =>
           /\ users' = [users EXCEPT ![name] = b]
           /\ answer' = more(right, IF account.mfa THEN "second factor" ELSE "in")
           /\ wrong' = [wrong EXCEPT ![name] = <<>>]
      /\ ~(account.lockedUntil > 0) /\ ~right =>
           /\ users' = [users EXCEPT ![name] = a]
           /\ answer' = more(right, IF a.lockedUntil > 0 THEN "locked" ELSE "refused")
           /\ wrong' = [wrong EXCEPT ![name] = times]
      /\ now' = now
  BY DEF Authenticate
<1>2. \A r, t : more(r, t).name = name /\ more(r, t).at = now /\ more(r, t).right = r /\ more(r, t).result = t
  OBVIOUS
<1> HIDE DEF more
<1>3. (IF account.mfa THEN "second factor" ELSE "in") # "locked"
  OBVIOUS
<1> HIDE DEF a, b, times, name, account, right
<1>4. account.lockedUntil > 0 => users' = users /\ wrong' = wrong /\ answer'.name = name /\ answer'.at = now
  <2>1. account.lockedUntil > 0 => users' = users /\ wrong' = wrong /\ answer' = more(right, "locked")
    BY <1>1
  <2>2. answer' = more(right, "locked") => answer'.name = name /\ answer'.at = now
    BY <1>2
  <2>3. QED
    BY <2>1, <2>2
<1>5. ~(account.lockedUntil > 0) /\ right => answer'.result # "locked"
  <2> DEFINE result == IF account.mfa THEN "second factor" ELSE "in"
  <2>1. ~(account.lockedUntil > 0) /\ right => answer' = more(right, result)
    BY <1>1
  <2> HIDE DEF result
  <2>2. answer' = more(right, result) => answer'.result = result
    BY <1>2
  <2>3. QED
    BY <1>3, <2>1, <2>2 DEF result
<1>6. ~(account.lockedUntil > 0) /\ ~right => ~answer'.right
  <2> DEFINE result == IF a.lockedUntil > 0 THEN "locked" ELSE "refused"
  <2>1. ~(account.lockedUntil > 0) /\ ~right => answer' = more(right, result)
    BY <1>1
  <2> HIDE DEF result
  <2>2. answer' = more(right, result) => answer'.right = right
    BY <1>2
  <2>3. QED
    BY <2>1, <2>2
<1>7. QED
  BY <1>1, <1>4, <1>5, <1>6 DEF a, b, times, name, account, right

LEMMA AuthenticateKeeps ==
  ASSUME AuthInv, NEW login \in DOMAIN Person, NEW p \in DOMAIN Password, Authenticate(login, p)
  PROVE  AuthInv'
<1> DEFINE name == Person[login]
           account == Unlocked(users[name])
           times == wrong[name]
           l == Len(times)
           failed == account.failed
<1>1. /\ name \in DOMAIN users /\ now' = now
      /\ account.lockedUntil > 0 =>
           users' = users /\ wrong' = wrong /\ answer'.name = name /\ answer'.at = now
      /\ ~(account.lockedUntil > 0) /\ p = account.password =>
           /\ users' = [users EXCEPT ![name] = Succeeded(account)]
           /\ wrong' = [wrong EXCEPT ![name] = <<>>]
           /\ answer'.result # "locked"
      /\ ~(account.lockedUntil > 0) /\ p # account.password =>
           /\ users' = [users EXCEPT ![name] = Failed(account)]
           /\ wrong' = [wrong EXCEPT ![name] = LastOf(Append(times, now), MaxFailed + 1)]
           /\ ~answer'.right
  BY AuthenticateCases, Zenon
<1>2. now \in Nat /\ MaxFailed \in Nat \ {0} /\ LockTime \in Nat
  BY LockAssumption DEF AuthInv, AuthShape
<1>3. /\ account \in Account
      /\ account.lockedUntil > 0 => account = users[name] /\ now < account.lockedUntil
      /\ account.lockedUntil = 0 =>
           /\ failed < MaxFailed
           /\ failed <= l
           /\ failed < l => times[l - failed] + LockTime <= now
  BY <1>1, UnlockedIsHonest
<1>a. /\ times \in Seq(Nat) /\ l \in Nat /\ times \in [1 .. l -> Nat]
      /\ \A i, j \in 1 .. l : i <= j => times[i] <= times[j]
      /\ \A i \in 1 .. l : times[i] <= now
  <2>1. name \in AccountNames
    BY DEF AccountNames
  <2>2. times \in Seq(Nat)
    BY <2>1 DEF AuthInv, AuthShape
  <2>3. /\ \A i, j \in 1 .. l : i <= j => times[i] <= times[j]
        /\ \A i \in 1 .. l : times[i] <= now
    BY <2>1, Zenon DEF AuthInv, TimesInOrder
  <2> HIDE DEF times
  <2>4. QED
    BY <2>2, <2>3
<1>b. AuthInv
  OBVIOUS
<1>c. /\ account.lockedUntil \in Nat /\ failed \in 0 .. MaxFailed
  BY <1>3 DEF Account
<1> HIDE DEF account, times, l, failed, name
<1>4. CASE account.lockedUntil > 0
  <2>1. /\ UNCHANGED <<users, wrong, now>> /\ answer'.name = name /\ answer'.at = now
        /\ users[name].lockedUntil > 0 /\ now < users[name].lockedUntil
    BY <1>1, <1>3, <1>4
  <2>2. QED
    BY <1>1, <2>1, <1>b, LockedKeeps
<1>5. CASE ~(account.lockedUntil > 0) /\ p = account.password
  <2> DEFINE a == Succeeded(account)
             none == <<>>
  <2>1. /\ users' = [users EXCEPT ![name] = a]
        /\ wrong' = [wrong EXCEPT ![name] = none]
        /\ answer'.result # "locked"
    BY <1>1, <1>5
  <2>2. a \in Account /\ a.failed = 0 /\ a.lockedUntil = 0
    <3>1. 0 \in 0 .. MaxFailed
      BY <1>2
    <3>2. QED
      BY <1>3, <3>1 DEF Succeeded, Account
  <2>3. none \in [1 .. 0 -> Nat]
    OBVIOUS
  <2> HIDE DEF a, none
  <2>4. /\ 0 <= MaxFailed + 1
        /\ \A i, j \in 1 .. 0 : i <= j => none[i] <= none[j]
        /\ \A i \in 1 .. 0 : none[i] <= now
        /\ ~(0 > MaxFailed)
        /\ ~(a.lockedUntil > 0) /\ a.failed < MaxFailed /\ a.failed <= 0 /\ ~(a.failed < 0)
    BY <1>2, <2>2
  <2>5. QED
    BY <1>1, <1>b, <2>1, <2>2, <2>3, <2>4, AttemptKeeps
<1>6. CASE ~(account.lockedUntil > 0) /\ p # account.password
  <2> DEFINE n == MaxFailed + 1
             kept == LastOf(Append(times, now), n)
             k == IF l + 1 > n THEN n ELSE l + 1
             a == Failed(account)
  <2>1. /\ users' = [users EXCEPT ![name] = a]
        /\ wrong' = [wrong EXCEPT ![name] = kept]
        /\ ~answer'.right
    BY <1>1, <1>6
  <2>2. n \in Nat \ {0} /\ k \in 1 .. n /\ k \in Nat /\ k <= MaxFailed + 1
    BY <1>2, <1>a
  <2>3. k = IF l + 1 > MaxFailed + 1 THEN MaxFailed + 1 ELSE l + 1
    OBVIOUS
  <2>4. /\ kept \in [1 .. k -> Nat] /\ kept[k] = now
        /\ \A i \in 1 .. k : i < k => kept[i] = times[i + (l + 1 - k)]
    <3> HIDE DEF n, kept, k
    <3>1. IsKept(kept, k, times, now, n)
      BY Zenon DEF IsKept, k, l, kept
    <3>2. /\ kept \in [1 .. k -> Nat] /\ kept[k] = now
          /\ \A i \in 1 .. k : i < k => kept[i] = times[i + (Len(times) + 1 - k)]
      <4>1. times \in Seq(Nat) /\ now \in Nat /\ n \in Nat \ {0}
        BY <1>2, <1>a, <2>2
      <4> HIDE DEF a
      <4>2. QED
        BY <4>1, <3>1, LastOfAppend
    <3>3. QED
      BY <3>2, Zenon DEF l
  <2>5. /\ failed \in Nat /\ failed + 1 <= MaxFailed /\ failed <= l
        /\ failed < l => times[l - failed] + LockTime <= now
    BY <1>2, <1>3, <1>6, <1>c
  <2>6. /\ a \in Account /\ a.failed = failed + 1
        /\ failed + 1 >= MaxFailed => a.lockedUntil = now + LockTime
        /\ failed + 1 < MaxFailed => a.lockedUntil = 0
    <3>1. /\ failed + 1 \in 0 .. MaxFailed /\ now + LockTime \in Nat
          /\ account.lockedUntil = 0 /\ failed = account.failed
      BY <1>2, <1>6, <1>c, <2>5 DEF failed
    <3>2. \/ failed + 1 >= MaxFailed /\ ~(failed + 1 < MaxFailed)
          \/ failed + 1 < MaxFailed /\ ~(failed + 1 >= MaxFailed)
      BY <1>2, <2>5
    <3>3. a = [account EXCEPT !.failed = failed + 1,
                              !.lockedUntil = IF failed + 1 >= MaxFailed THEN now + LockTime ELSE 0]
      BY <3>1 DEF Failed
    <3> DEFINE next == failed + 1
               until == IF next >= MaxFailed THEN now + LockTime ELSE 0
    <3>4. next \in 0 .. MaxFailed /\ until \in Nat
      BY <3>1
    <3> HIDE DEF a, until, next
    <3>5. /\ a \in Account /\ a.failed = next /\ a.lockedUntil = until
      BY <1>3, <3>3, <3>4 DEF Account, until, next
    <3>6. QED
      BY <3>2, <3>5 DEF until, next
  <2> HIDE DEF n, kept, k, a
  <2>8. /\ \A i, j \in 1 .. k : i <= j => kept[i] <= kept[j]
        /\ \A i \in 1 .. k : kept[i] <= now
        /\ failed + 1 <= k
        /\ failed + 1 < k => kept[k - (failed + 1)] + LockTime <= now
        /\ k > MaxFailed => kept[k] - kept[k - MaxFailed] >= LockTime
    <3>1. k \in 1 .. MaxFailed + 1
      BY <2>2 DEF n
    <3>2. OneMore(l, times, now, failed, MaxFailed, LockTime, k, kept)
      BY <1>a, <2>3, <2>4, <2>5, Zenon DEF OneMore
    <3>3. QED
      BY <1>2, <1>a, <2>4, <2>5, <3>1, <3>2, OneMoreAttempt
  <2>9. /\ a.lockedUntil > 0 => k >= MaxFailed /\ a.lockedUntil = kept[k] + LockTime
        /\ ~(a.lockedUntil > 0) => /\ a.failed < MaxFailed /\ a.failed <= k
                                   /\ a.failed < k => kept[k - a.failed] + LockTime <= now
    <3>1. CASE failed + 1 >= MaxFailed
      <4>1. a.lockedUntil = now + LockTime /\ kept[k] = now /\ k >= MaxFailed
        BY <1>2, <2>2, <2>4, <2>5, <2>6, <2>8, <3>1
      <4>2. a.lockedUntil > 0
        BY <1>2, <4>1, LockAssumption
      <4>3. QED
        BY <4>1, <4>2, Zenon
    <3>2. CASE failed + 1 < MaxFailed
      BY <1>2, <2>2, <2>4, <2>5, <2>6, <2>8, <3>2
    <3>3. QED
      BY <1>2, <2>5, <3>1, <3>2
  <2>10. QED
    BY <1>1, <1>b, <2>1, <2>2, <2>4, <2>6, <2>8, <2>9, AttemptKeeps
<1>7. QED
  BY <1>4, <1>5, <1>6

\* However attempts, registrations and waiting mix: between two successes no MaxFailed + 1
\* wrong passwords are looked at within the time of a lock, and a right one is only turned
\* away while the last MaxFailed wrong ones are not that old (authenticate of
\* password_policy.py).
THEOREM GuessesBounded == AuthSpec => []GuessesAreBounded
<1>1. AuthInv /\ [AuthNext]_authVars => AuthInv'
  <2> SUFFICES ASSUME AuthInv, [AuthNext]_authVars PROVE AuthInv'
    OBVIOUS
  <2>1. CASE AuthNext
    <3>1. \A l \in DOMAIN Person : Person[l] \in AccountNames
      BY DEF AccountNames
    <3>2. QED
      BY <2>1, <3>1, TickKeeps, RegisterKeeps, EnableMfaKeeps, AuthenticateKeeps DEF AuthNext
  <2>2. CASE UNCHANGED authVars
    BY <2>2 DEF authVars, AuthInv, AuthShape, TimesInOrder, CountsAreHonest, CountIsHonest,
       GuessesAreBounded
  <2>3. QED
    BY <2>1, <2>2
<1>2. AuthInv => GuessesAreBounded
  BY DEF AuthInv
<1>3. QED
  BY AuthInit_Inv, <1>1, <1>2, PTL DEF AuthSpec

-----------------------------------------------------------------------------
(* Tenants.  Most operations look at the tenant of what they find; the     *)
(* cache and the queues do not, so that what they hold has to be of the    *)
(* tenant that its place is named for.  In the audit trail, the hash that  *)
(* is kept for a tenant is that of its last event.                         *)

Tenants == DOMAIN Beginning

TableRow == [id: Names, tenant: Tenants]

CacheIsOwn(cache) ==
  \A n \in Names, t \in Tenants : CacheKey(n, t) \in DOMAIN cache => cache[CacheKey(n, t)] = t

QueuesAreOwn(queues) ==
  \A n \in Names, t \in Tenants : <<t, n>> \in DOMAIN queues => queues[<<t, n>>] \in Seq({t})

StoreIsApart(s) ==
  /\ DOMAIN s = {"rows", "objects", "jobs", "cache", "queues", "registry"}
  /\ s.rows \in Seq(TableRow)
  /\ CacheIsOwn(s.cache)
  /\ QueuesAreOwn(s.queues)

Event == [tenant: Tenants, prev: Nat, hash: Nat]

HeadsAreLast ==
  /\ trail \in Seq(Event)
  /\ heads \in [Tenants -> Nat]
  /\ \A t \in Tenants : heads[t] = HashAfter(t, Len(trail))

\* A decision is the answers of the two tables to one question.
DecisionIsAsked ==
  decision.asked =>
    \E role \in Spellings, pair \in SamePower :
      decision = [asked |-> TRUE, role |-> role,
                  capability |-> EvaluateCapability(role, pair[1], FALSE, FALSE),
                  permission |-> HasPermission(role, pair[2])]

AccessInv ==
  /\ StoreIsApart(store)
  /\ HeadsAreLast
  /\ DecisionIsAsked
  /\ DataStaysApart
  /\ EveryTenantsChainVerifies

\* Whose data an operation of a caller may show or change.
Permitted(c, tenants) == tenants \subseteq {c.tenant} \/ PlatformContext(c) \/ PlatformRole(c)

LEMMA OperationKeeps ==
  ASSUME AccessInv, NEW c \in Callers, NEW after, NEW tenants, Operation(c, after, tenants),
         StoreIsApart(after), Permitted(c, tenants)
  PROVE  AccessInv'
<1>1. StoreIsApart(store')
  BY DEF Operation
<1>2. /\ UNCHANGED <<trail, heads, decision>>
      /\ last' = [caller |-> c, tenants |-> tenants]
  BY DEF Operation
<1>3. HeadsAreLast' /\ DecisionIsAsked' /\ EveryTenantsChainVerifies'
  <2>1. trail' = trail /\ heads' = heads /\ decision' = decision
    BY <1>2
  <2>2. HeadsAreLast'
    BY <2>1 DEF AccessInv, HeadsAreLast, HashAfter
  <2>3. DecisionIsAsked'
    BY <2>1 DEF AccessInv, DecisionIsAsked
  <2>4. EveryTenantsChainVerifies'
    BY <2>1 DEF AccessInv, EveryTenantsChainVerifies, VerifyTenantChain, HashAfter
  <2>5. QED
    BY <2>2, <2>3, <2>4
<1>4. last'.caller = c /\ last'.tenants = tenants
  BY <1>2
<1>5. DataStaysApart'
  BY <1>4 DEF DataStaysApart, Permitted, PlatformContext, PlatformRole
<1>6. QED
  BY <1>1, <1>3, <1>5 DEF AccessInv, StoreIsApart

\* The operations that leave the store as it is.
LEMMA ReadKeeps ==
  ASSUME AccessInv, NEW c \in Callers, NEW tenants, Operation(c, store, tenants), Permitted(c, tenants)
  PROVE  AccessInv'
BY OperationKeeps DEF AccessInv

\* What remains of some records when only those that are visible are looked at.
LEMMA VisibleIsPermitted ==
  ASSUME NEW c \in Callers, NEW rows
  PROVE  Permitted(c, TenantsOf({r \in rows : Visible(c, r)}))
BY DEF Permitted, TenantsOf, Visible

LEMMA FirstIsLeast ==
  ASSUME NEW s \in SUBSET Nat, s # {}
  PROVE  FirstOf(s) \in s /\ \A y \in s : FirstOf(s) <= y
<1>1. IsWellFoundedOn({p \in Nat \X Nat : p[1] < p[2]}, Nat)
  BY NatLessThanWellFounded DEF OpToRel
<1>2. PICK m \in s : \A y \in s : ~ (<<y, m>> \in {p \in Nat \X Nat : p[1] < p[2]})
  BY <1>1, WFMin
<1>3. \A y \in s : m <= y
  <2> SUFFICES ASSUME NEW y \in s PROVE m <= y
    OBVIOUS
  <2>1. ~(y < m)
    BY <1>2
  <2>2. QED
    BY <2>1
<1>4. QED
  BY <1>3 DEF FirstOf

\* The parts of the store that one of them replaced leaves as they are.
LEMMA RowsReplaced ==
  ASSUME NEW s, StoreIsApart(s), NEW rows \in Seq(TableRow)
  PROVE  StoreIsApart([s EXCEPT !.rows = rows])
BY DEF StoreIsApart

LEMMA CacheReplaced ==
  ASSUME NEW s, StoreIsApart(s), NEW cache, CacheIsOwn(cache)
  PROVE  StoreIsApart([s EXCEPT !.cache = cache])
BY DEF StoreIsApart

LEMMA QueuesReplaced ==
  ASSUME NEW s, StoreIsApart(s), NEW queues, QueuesAreOwn(queues)
  PROVE  StoreIsApart([s EXCEPT !.queues = queues])
BY DEF StoreIsApart

LEMMA ObjectsReplaced ==
  ASSUME NEW s, StoreIsApart(s), NEW objects
  PROVE  StoreIsApart([s EXCEPT !.objects = objects])
BY DEF StoreIsApart

LEMMA JobsReplaced ==
  ASSUME NEW s, StoreIsApart(s), NEW jobs
  PROVE  StoreIsApart([s EXCEPT !.jobs = jobs])
BY DEF StoreIsApart

LEMMA RegistryReplaced ==
  ASSUME NEW s, StoreIsApart(s), NEW registry
  PROVE  StoreIsApart([s EXCEPT !.registry = registry])
BY DEF StoreIsApart

LEMMA OwnIsPermitted ==
  ASSUME NEW c \in Callers
  PROVE  Permitted(c, {c.tenant})
BY DEF Permitted

LEMMA SeenIsPermitted ==
  ASSUME NEW c \in Callers, NEW r, Visible(c, r)
  PROVE  Permitted(c, {r.tenant})
BY DEF Permitted, Visible

\* Rows.
LEMMA RowStep ==
  ASSUME AccessInv, NEW c \in Callers, NEW id \in Names,
         Insert(c, id) \/ FindByIdOrUpdate(c, id) \/ DeleteRow(c, id)
  PROVE  AccessInv'
<1> DEFINE rows == store.rows
           k    == FirstOf(Matching(c, id))
<1>1. rows \in Seq(TableRow) /\ StoreIsApart(store)
  BY DEF AccessInv, StoreIsApart
<1>2. c.tenant \in Tenants
  BY TenantsAssumption DEF Tenants
<1>3. CASE Insert(c, id)
  <2> DEFINE row == [id |-> id, tenant |-> c.tenant]
  <2>1. row \in TableRow
    BY <1>2 DEF TableRow
  <2> HIDE DEF row
  <2>2. Append(rows, row) \in Seq(TableRow)
    BY <1>1, <2>1, AppendProperties
  <2>3. Operation(c, [store EXCEPT !.rows = Append(rows, row)], {c.tenant})
    BY <1>3 DEF Insert, row
  <2> HIDE DEF rows
  <2>4. StoreIsApart([store EXCEPT !.rows = Append(rows, row)])
    BY <1>1, <2>2, RowsReplaced
  <2>5. QED
    BY <2>3, <2>4, OperationKeeps, OwnIsPermitted
<1>4. ASSUME Matching(c, id) # {}
      PROVE  k \in 1 .. Len(rows) /\ Visible(c, rows[k])
  <2>1. DOMAIN rows = 1 .. Len(rows) /\ Len(rows) \in Nat
    BY <1>1, LenProperties
  <2>2. Matching(c, id) \in SUBSET Nat
    BY <2>1 DEF Matching
  <2>3. k \in Matching(c, id)
    BY <1>4, <2>2, FirstIsLeast
  <2>4. QED
    BY <2>1, <2>3 DEF Matching
<1>5. CASE FindByIdOrUpdate(c, id)
  <2>1. Operation(c, store, {rows[k].tenant})
    BY <1>5 DEF FindByIdOrUpdate
  <2>2. Visible(c, rows[k])
    BY <1>4, <1>5 DEF FindByIdOrUpdate
  <2> HIDE DEF rows, k
  <2>3. QED
    BY <2>1, <2>2, SeenIsPermitted, ReadKeeps
<1>6. CASE DeleteRow(c, id)
  <2>1. Operation(c, [store EXCEPT !.rows = RemoveAt(rows, k)], {rows[k].tenant})
    BY <1>6 DEF DeleteRow
  <2>2. k \in 1 .. Len(rows) /\ Visible(c, rows[k])
    BY <1>4, <1>6 DEF DeleteRow
  <2> HIDE DEF rows, k
  <2>3. RemoveAt(rows, k) \in Seq(TableRow)
    <3>1. SubSeq(rows, 1, k - 1) \in Seq(TableRow) /\ SubSeq(rows, k + 1, Len(rows)) \in Seq(TableRow)
      BY <1>1, <2>2, SubSeqProperties, LenProperties
    <3>2. QED
      BY <3>1, ConcatProperties DEF RemoveAt
  <2>4. StoreIsApart([store EXCEPT !.rows = RemoveAt(rows, k)])
    BY <1>1, <2>3, RowsReplaced
  <2>5. QED
    BY <2>1, <2>2, <2>4, SeenIsPermitted, OperationKeeps
<1>7. QED
  BY <1>3, <1>5, <1>6

\* The cache: an entry is found by its text, which only its tenant's names give.
LEMMA CacheStep ==
  ASSUME AccessInv, NEW c \in Callers, NEW id \in Names,
         SetCache(c, id) \/ GetCache(c, id) \/ DropCache(c, id)
  PROVE  AccessInv'
<1> DEFINE k     == CacheKey(id, c.tenant)
           cache == store.cache
<1>1. CacheIsOwn(cache) /\ StoreIsApart(store)
  BY DEF AccessInv, StoreIsApart
<1>2. c.tenant \in Tenants
  BY TenantsAssumption DEF Tenants
<1>3. \A n \in Names, t \in Tenants : CacheKey(n, t) = k => t = c.tenant
  BY <1>2, TenantsAssumption DEF CacheKey, Tenants
<1>4. k \in DOMAIN cache => cache[k] = c.tenant
  BY <1>1, <1>2 DEF CacheIsOwn
<1>5. CASE SetCache(c, id)
  <2> DEFINE new == [j \in DOMAIN cache \cup {k} |-> IF j = k THEN c.tenant ELSE cache[j]]
  <2>1. Operation(c, [store EXCEPT !.cache = new], {c.tenant})
    BY <1>5 DEF SetCache
  <2> HIDE DEF cache, k
  <2>2. CacheIsOwn(new)
    BY <1>1, <1>3 DEF CacheIsOwn
  <2> HIDE DEF new
  <2>3. QED
    BY <1>1, <2>1, <2>2, CacheReplaced, OperationKeeps, OwnIsPermitted
<1>6. CASE GetCache(c, id)
  <2>1. Operation(c, store, {cache[k]}) /\ k \in DOMAIN cache
    BY <1>6 DEF GetCache
  <2> HIDE DEF cache, k
  <2>2. QED
    BY <1>4, <2>1, ReadKeeps, OwnIsPermitted
<1>7. CASE DropCache(c, id)
  <2> DEFINE new == [j \in DOMAIN cache \ {k} |-> cache[j]]
  <2>1. Operation(c, [store EXCEPT !.cache = new], {cache[k]}) /\ k \in DOMAIN cache
    BY <1>7 DEF DropCache
  <2> HIDE DEF cache, k
  <2>2. CacheIsOwn(new)
    BY <1>1 DEF CacheIsOwn
  <2> HIDE DEF new
  <2>3. QED
    BY <1>1, <1>4, <2>1, <2>2, CacheReplaced, OperationKeeps, OwnIsPermitted
<1>8. QED
  BY <1>5, <1>6, <1>7

\* Queues: what is published on a channel is of the tenant in its name.
LEMMA QueueStep ==
  ASSUME AccessInv, NEW c \in Callers, NEW id \in Names,
         Publish(c, id) \/ Consume(c, id)
  PROVE  AccessInv'
<1> DEFINE t == c.tenant
           q == <<t, id>>
           queues == store.queues
<1>1. QueuesAreOwn(queues) /\ StoreIsApart(store)
  BY DEF AccessInv, StoreIsApart
<1>2. t \in Tenants
  BY TenantsAssumption DEF Tenants
<1>3. q \in DOMAIN queues => queues[q] \in Seq({t})
  BY <1>1, <1>2 DEF QueuesAreOwn
<1>4. \A n \in Names, u \in Tenants : <<u, n>> = q => u = t
  OBVIOUS
<1>5. CASE Publish(c, id)
  <2> DEFINE longer == IF q \in DOMAIN queues THEN Append(queues[q], t) ELSE <<t>>
             new == [j \in DOMAIN queues \cup {q} |-> IF j # q THEN queues[j] ELSE longer]
  <2>1. Operation(c, [store EXCEPT !.queues = new], {t})
    BY <1>5 DEF Publish, Channel
  <2>2. longer \in Seq({t})
    <3>1. <<t>> \in Seq({t})
      OBVIOUS
    <3>2. q \in DOMAIN queues => Append(queues[q], t) \in Seq({t})
      BY <1>3, AppendProperties
    <3>3. QED
      BY <3>1, <3>2
  <2> HIDE DEF queues, q, longer
  <2>3. QueuesAreOwn(new)
    BY <1>1, <1>4, <2>2 DEF QueuesAreOwn
  <2> HIDE DEF new
  <2>4. QED
    BY <1>1, <2>1, <2>3, QueuesReplaced, OperationKeeps, OwnIsPermitted
<1>6. CASE Consume(c, id)
  <2> DEFINE shorter == Tail(queues[q])
             new == [queues EXCEPT ![q] = shorter]
  <2>1. /\ Operation(c, [store EXCEPT !.queues = new], {Head(queues[q])})
        /\ q \in DOMAIN queues /\ queues[q] # <<>>
    BY <1>6 DEF Consume, Channel
  <2>2. Head(queues[q]) = t /\ shorter \in Seq({t})
    BY <1>3, <2>1, HeadTailProperties
  <2> HIDE DEF queues, q, shorter
  <2>3. QueuesAreOwn(new)
    BY <1>1, <1>4, <2>1, <2>2 DEF QueuesAreOwn
  <2> HIDE DEF new
  <2>4. QED
    BY <1>1, <2>1, <2>2, <2>3, QueuesReplaced, OperationKeeps, OwnIsPermitted
<1>7. QED
  BY <1>5, <1>6

\* The operations that show what is visible.
LEMMA ListStep ==
  ASSUME AccessInv, NEW c \in Callers,
         Find(c) \/ ListObjects(c) \/ GetJobs(c) \/ GetRecentEvents(c)
  PROVE  AccessInv'
<1>1. ASSUME NEW rows, Operation(c, store, TenantsOf({r \in rows : Visible(c, r)}))
      PROVE  AccessInv'
  BY <1>1, VisibleIsPermitted, ReadKeeps
<1>2. CASE ListObjects(c)
  <2> DEFINE listed == {o \in store.objects : o.tenant \in Beginning[c.tenant]}
  <2>1. {o \in store.objects : o.tenant \in Beginning[c.tenant] /\ Visible(c, o)} = {o \in listed : Visible(c, o)}
    OBVIOUS
  <2> HIDE DEF listed
  <2>2. Operation(c, store, TenantsOf({o \in listed : Visible(c, o)}))
    BY <1>2, <2>1 DEF ListObjects
  <2>3. QED
    BY <1>1, <2>2
<1>3. QED
  BY <1>1, <1>2 DEF Find, GetJobs, GetRecentEvents

LEMMA ObjectStep ==
  ASSUME AccessInv, NEW c \in Callers, NEW id \in Names,
         PutObject(c, id) \/ GetObject(c, id) \/ DeleteObject(c, id)
  PROVE  AccessInv'
<1>1. StoreIsApart(store)
  BY DEF AccessInv
<1>2. ASSUME NEW objects, Operation(c, [store EXCEPT !.objects = objects], {c.tenant})
      PROVE  AccessInv'
  BY <1>1, <1>2, ObjectsReplaced, OperationKeeps, OwnIsPermitted
<1>3. CASE PutObject(c, id)
  BY <1>2, <1>3 DEF PutObject
<1>4. CASE GetObject(c, id)
  BY <1>4, ReadKeeps, OwnIsPermitted DEF GetObject
<1>5. CASE DeleteObject(c, id)
  BY <1>2, <1>5 DEF DeleteObject
<1>6. QED
  BY <1>3, <1>4, <1>5

LEMMA ExportStep ==
  ASSUME AccessInv, NEW c \in Callers, Export(c)
  PROVE  AccessInv'
<1> DEFINE shown == TenantsOf({r \in ToSet(store.rows) : Visible(c, r)})
           objects == store.objects \cup {[tenant |-> c.tenant, key |-> "export"]}
<1>1. Permitted(c, shown)
  BY VisibleIsPermitted
<1>2. Operation(c, [store EXCEPT !.objects = objects], {c.tenant} \cup shown)
  BY DEF Export
<1> HIDE DEF shown, objects
<1>3. Permitted(c, {c.tenant} \cup shown)
  BY <1>1 DEF Permitted
<1>4. StoreIsApart([store EXCEPT !.objects = objects])
  BY ObjectsReplaced DEF AccessInv
<1>5. QED
  BY <1>2, <1>3, <1>4, OperationKeeps

\* A worker runs a job of its own tenant.
LEMMA JobStep ==
  ASSUME AccessInv, NEW c \in Callers, Enqueue(c) \/ ExecuteWorker(c)
  PROVE  AccessInv'
<1>1. StoreIsApart(store)
  BY DEF AccessInv
<1>2. ASSUME NEW jobs, Operation(c, [store EXCEPT !.jobs = jobs], {c.tenant})
      PROVE  AccessInv'
  BY <1>1, <1>2, JobsReplaced, OperationKeeps, OwnIsPermitted
<1>3. CASE Enqueue(c)
  BY <1>2, <1>3 DEF Enqueue
<1>4. CASE ExecuteWorker(c)
  BY <1>2, <1>4 DEF ExecuteWorker
<1>5. QED
  BY <1>3, <1>4

\* The registry of objects, asked for by callers and by routes.
LEMMA RegistryStep ==
  ASSUME AccessInv, NEW c \in Callers, NEW id \in Names,
         \/ Register(c, id)
         \/ VerifyObjectAuthorization(c, id)
         \/ \E permission \in {"scans:read", "scans:delete"} : VerifyAuthorization(c, id, permission)
  PROVE  AccessInv'
<1>1. StoreIsApart(store)
  BY DEF AccessInv
<1>2. CASE Register(c, id)
  <2>1. PICK registry : Operation(c, [store EXCEPT !.registry = registry], {c.tenant})
    BY <1>2 DEF Register
  <2>2. QED
    BY <1>1, <2>1, RegistryReplaced, OperationKeeps, OwnIsPermitted
<1>3. CASE VerifyObjectAuthorization(c, id)
  <2>1. PICK r : Visible(c, r) /\ Operation(c, store, {r.tenant})
    BY <1>3 DEF VerifyObjectAuthorization
  <2>2. QED
    BY <2>1, SeenIsPermitted, ReadKeeps
<1>4. ASSUME NEW permission, VerifyAuthorization(c, id, permission)
      PROVE  AccessInv'
  <2>1. PICK r : (PlatformRole(c) \/ r.tenant = c.tenant) /\ Operation(c, store, {r.tenant})
    BY <1>4 DEF VerifyAuthorization
  <2>2. Permitted(c, {r.tenant})
    BY <2>1 DEF Permitted
  <2>3. QED
    BY <2>1, <2>2, ReadKeeps
<1>5. QED
  BY <1>2, <1>3, <1>4

\* An event that is logged goes on from its tenant's last one, and leaves the chains of
\* the other tenants as they are.
LEMMA LogStep ==
  ASSUME AccessInv, NEW c \in Callers, LogEvent(c)
  PROVE  AccessInv'
<1> DEFINE t     == c.tenant
           n     == Len(trail)
           hash  == n + 1
           event == [tenant |-> t, prev |-> heads[t], hash |-> hash]
<1>1. t \in Tenants /\ trail \in Seq(Event) /\ heads \in [Tenants -> Nat] /\ n \in Nat
  BY TenantsAssumption, LenProperties DEF Tenants, AccessInv, HeadsAreLast
<1>2. event \in Event /\ event.tenant = t /\ event.prev = heads[t] /\ event.hash = hash
  BY <1>1 DEF Event
<1>3. trail' = Append(trail, event) /\ heads' = [heads EXCEPT ![t] = hash]
  BY DEF LogEvent
<1> HIDE DEF event
<1>4. /\ trail' \in Seq(Event) /\ Len(trail') = n + 1 /\ trail'[n + 1] = event
      /\ \A i \in 1 .. n : trail'[i] = trail[i]
  BY <1>1, <1>2, <1>3, AppendProperties
<1>5. DOMAIN trail = 1 .. n /\ DOMAIN trail' = 1 .. n + 1
  BY <1>1, <1>4, LenProperties
<1>6. \A u, m : m \in 0 .. n => HashAfter(u, m)' = HashAfter(u, m)
  <2> SUFFICES ASSUME NEW u, NEW m \in 0 .. n
               PROVE  HashAfter(u, m)' = HashAfter(u, m)
    OBVIOUS
  <2> DEFINE own == {i \in 1 .. m : trail[i].tenant = u}
  <2>1. {i \in 1 .. m : trail'[i].tenant = u} = own
    BY <1>1, <1>4
  <2>2. own # {} => Max(own) \in 1 .. n
    <3>1. own \subseteq 1 .. m /\ \A i \in own : i \in Nat
      OBVIOUS
    <3>2. ASSUME own # {} PROVE \E x \in own : \A y \in own : x >= y
      <4> DEFINE under == {m - i : i \in own}
      <4>1. under \in SUBSET Nat /\ under # {}
        BY <3>2
      <4>2. FirstOf(under) \in under /\ \A y \in under : FirstOf(under) <= y
        BY <4>1, FirstIsLeast
      <4>3. PICK x \in own : FirstOf(under) = m - x
        BY <4>2
      <4>4. \A y \in own : m - x <= m - y
        BY <4>2, <4>3
      <4>5. QED
        BY <4>3, <4>4
    <3>3. own # {} => Max(own) \in own
      BY <3>2 DEF Max
    <3>4. QED
      BY <1>1, <3>1, <3>3
  <2>3. own # {} => trail'[Max(own)] = trail[Max(own)]
    BY <1>4, <2>2
  <2> HIDE DEF own
  <2>4. HashAfter(u, m) = IF own = {} THEN 0 ELSE trail[Max(own)].hash
    BY DEF HashAfter, own
  <2>5. HashAfter(u, m)' = IF own = {} THEN 0 ELSE trail'[Max(own)].hash
    BY <2>1 DEF HashAfter
  <2>6. QED
    BY <2>3, <2>4, <2>5
<1>7. \A u \in Tenants : heads'[u] = HashAfter(u, Len(trail))'
  <2> SUFFICES ASSUME NEW u \in Tenants
               PROVE  heads'[u] = HashAfter(u, Len(trail))'
    OBVIOUS
  <2> DEFINE own == {i \in 1 .. n + 1 : trail'[i].tenant = u}
  <2>1. HashAfter(u, Len(trail))' = IF own = {} THEN 0 ELSE trail'[Max(own)].hash
    BY <1>4 DEF HashAfter
  <2>2. CASE u = t
    <3>1. n + 1 \in own /\ \A i \in own : i <= n + 1 /\ i \in Nat
      BY <1>1, <1>2, <1>4, <2>2
    <3> HIDE DEF own
    <3>2. Max(own) \in own /\ Max(own) >= n + 1
      BY <3>1 DEF Max
    <3>3. Max(own) = n + 1
      BY <1>1, <3>1, <3>2
    <3>4. trail'[Max(own)].hash = hash
      BY <1>2, <1>4, <3>3
    <3>5. own # {}
      BY <3>1
    <3>6. heads'[u] = hash
      BY <1>1, <1>3, <2>2
    <3>7. QED
      BY <2>1, <3>4, <3>5, <3>6
  <2>3. CASE u # t
    <3>1. trail'[n + 1].tenant # u
      BY <1>2, <1>4, <2>3
    <3>2. own = {i \in 1 .. n : trail'[i].tenant = u}
      BY <1>1, <3>1
    <3> PICK k \in 0 .. n : k = n
      BY <1>1
    <3>3. HashAfter(u, k)' = IF own = {} THEN 0 ELSE trail'[Max(own)].hash
      BY <3>2 DEF HashAfter
    <3>4. HashAfter(u, k)' = HashAfter(u, k)
      BY <1>6
    <3>5. HashAfter(u, k) = heads[u]
      BY DEF AccessInv, HeadsAreLast
    <3>6. heads'[u] = heads[u]
      BY <1>1, <1>3, <2>3
    <3>7. QED
      BY <2>1, <3>3, <3>4, <3>5, <3>6
  <2>4. QED
    BY <2>2, <2>3
<1>8. HeadsAreLast'
  BY <1>1, <1>3, <1>4, <1>7 DEF HeadsAreLast
<1>9. EveryTenantsChainVerifies'
  <2> SUFFICES ASSUME NEW d \in Callers, NEW i \in 1 .. n + 1, trail'[i].tenant = d.tenant
               PROVE  trail'[i].prev = HashAfter(d.tenant, i - 1)'
    BY <1>5 DEF EveryTenantsChainVerifies, VerifyTenantChain
  <2>1. i - 1 \in 0 .. n /\ HashAfter(d.tenant, i - 1)' = HashAfter(d.tenant, i - 1)
    BY <1>1, <1>6
  <2>2. CASE i = n + 1
    <3>1. event.prev = HashAfter(t, n)
      BY <1>1, <1>2 DEF AccessInv, HeadsAreLast
    <3>2. QED
      BY <1>1, <1>2, <1>4, <2>1, <2>2, <3>1
  <2>3. CASE i \in 1 .. n
    BY <1>4, <1>5, <2>1, <2>3 DEF AccessInv, EveryTenantsChainVerifies, VerifyTenantChain
  <2>4. QED
    BY <1>1, <2>2, <2>3
<1>10. store' = store /\ decision' = decision
  BY DEF LogEvent
<1>11. StoreIsApart(store') /\ DecisionIsAsked'
  BY <1>10 DEF AccessInv, DecisionIsAsked
<1>12. last' = [caller |-> c, tenants |-> {t}]
  BY DEF LogEvent
<1>13. last'.caller = c /\ last'.tenants = {t}
  BY <1>12
<1>14. DataStaysApart'
  BY <1>13 DEF DataStaysApart
<1>15. QED
  BY <1>8, <1>9, <1>11, <1>14 DEF AccessInv, StoreIsApart

\* No spelling is of two roles.
LEMMA NormalizedRole ==
  ASSUME NEW r \in DOMAIN Aliases, NEW role \in Aliases[r]
  PROVE  NormalizeRole(role) = r /\ role \in Spellings
<1>0. DOMAIN Aliases = {"platform", "security", "analyst", "developer", "auditor", "viewer"}
  BY DEF Aliases
<1>pl. Aliases["platform"] = {"platform administrator", "platform_admin", "platform-admin", "platformadmin", "admin", "superuser"}
  BY DEF Aliases
<1>se. Aliases["security"] = {"security administrator", "security_admin", "security-admin", "securityadmin", "secops", "security_engineer"}
  BY DEF Aliases
<1>an. Aliases["analyst"] = {"analyst", "threat_analyst", "crypto_analyst"}
  BY DEF Aliases
<1>de. Aliases["developer"] = {"developer", "dev", "engineer", "devops"}
  BY DEF Aliases
<1>au. Aliases["auditor"] = {"auditor", "compliance", "compliance_officer"}
  BY DEF Aliases
<1>vi. Aliases["viewer"] = {"viewer", "read_only", "reader"}
  BY DEF Aliases
<1>1. \A a \in DOMAIN Aliases : role \in Aliases[a] => a = r
  <2>1. ASSUME r = "platform"
      PROVE  /\ role \notin Aliases["security"]
             /\ role \notin Aliases["analyst"]
             /\ role \notin Aliases["developer"]
             /\ role \notin Aliases["auditor"]
             /\ role \notin Aliases["viewer"]
    BY <2>1, <1>pl, <1>se, <1>an, <1>de, <1>au, <1>vi
  <2>2. ASSUME r = "security"
      PROVE  /\ role \notin Aliases["platform"]
             /\ role \notin Aliases["analyst"]
             /\ role \notin Aliases["developer"]
             /\ role \notin Aliases["auditor"]
             /\ role \notin Aliases["viewer"]
    BY <2>2, <1>pl, <1>se, <1>an, <1>de, <1>au, <1>vi
  <2>3. ASSUME r = "analyst"
      PROVE  /\ role \notin Aliases["platform"]
             /\ role \notin Aliases["security"]
             /\ role \notin Aliases["developer"]
             /\ role \notin Aliases["auditor"]
             /\ role \notin Aliases["viewer"]
    BY <2>3, <1>pl, <1>se, <1>an, <1>de, <1>au, <1>vi
  <2>4. ASSUME r = "developer"
      PROVE  /\ role \notin Aliases["platform"]
             /\ role \notin Aliases["security"]
             /\ role \notin Aliases["analyst"]
             /\ role \notin Aliases["auditor"]
             /\ role \notin Aliases["viewer"]
    BY <2>4, <1>pl, <1>se, <1>an, <1>de, <1>au, <1>vi
  <2>5. ASSUME r = "auditor"
      PROVE  /\ role \notin Aliases["platform"]
             /\ role \notin Aliases["security"]
             /\ role \notin Aliases["analyst"]
             /\ role \notin Aliases["developer"]
             /\ role \notin Aliases["viewer"]
    BY <2>5, <1>pl, <1>se, <1>an, <1>de, <1>au, <1>vi
  <2>6. ASSUME r = "viewer"
      PROVE  /\ role \notin Aliases["platform"]
             /\ role \notin Aliases["security"]
             /\ role \notin Aliases["analyst"]
             /\ role \notin Aliases["developer"]
             /\ role \notin Aliases["auditor"]
    BY <2>6, <1>pl, <1>se, <1>an, <1>de, <1>au, <1>vi
  <2>7. QED
    BY <1>0, <2>1, <2>2, <2>3, <2>4, <2>5, <2>6
<1>2. role \in Spellings
  BY DEF Spellings
<1>3. QED
  BY <1>1, <1>2 DEF NormalizeRole

\* Who has a power by the permissions, and by the matrix.
Granted(canonical, pair) == "*" \in RolePermissions[canonical] \/ pair[2] \in RolePermissions[canonical]

Given(column, pair) == column \in Matrix[pair[1]].yes \cup Matrix[pair[1]].scoped

LEMMA GivenIsGranted ==
  ASSUME NEW pair \in SamePower
  PROVE  /\ Given("analyst", pair) <=> Granted("analyst", pair)
         /\ Given("developer", pair) <=> Granted("developer", pair)
         /\ Given("auditor", pair) <=> Granted("auditor", pair)
         /\ Given("viewer", pair) <=> Granted("viewer", pair)
         /\ Given("admin", pair) <=> Granted("security", pair)
         /\ Given("platform", pair) /\ Granted("platform", pair)
         /\ Given("viewer", pair) => Granted("developer", pair) /\ Granted("security", pair)
BY DEF SamePower, Given, Granted, RolePermissions, Matrix, People, Seen, Worked

LEMMA CapabilityIsGiven ==
  ASSUME NEW role, NEW pair \in SamePower
  PROVE  /\ EvaluateCapability(role, pair[1], FALSE, FALSE) <=> Given(Column(role), pair)
         /\ HasPermission(role, pair[2]) <=> Granted(NormalizeRole(role), pair)
<1>1. pair[1] # "rotate_secrets"
  BY DEF SamePower
<1>2. QED
  BY <1>1 DEF EvaluateCapability, Given, HasPermission, Granted

\* The column of a spelling is that of its role, or the viewers'; of a canonical name it
\* is that of its role.
CanonicalNames == {"platform administrator", "security administrator", "analyst", "developer", "auditor", "viewer"}

ColumnFits(role, canonical, column) ==
  /\ NormalizeRole(role) = canonical
  /\ Column(role) \in {column, "viewer"}
  /\ role \in CanonicalNames => Column(role) = column

LEMMA Columns ==
  ASSUME NEW role \in Spellings
  PROVE  \/ NormalizeRole(role) = "platform" /\ (role \in CanonicalNames => Column(role) = "platform")
         \/ ColumnFits(role, "security", "admin")
         \/ ColumnFits(role, "developer", "developer")
         \/ ColumnFits(role, "analyst", "analyst") /\ Column(role) = "analyst"
         \/ ColumnFits(role, "auditor", "auditor") /\ Column(role) = "auditor"
         \/ ColumnFits(role, "viewer", "viewer")
<1>1. PICK r \in DOMAIN Aliases : role \in Aliases[r]
  BY DEF Spellings
<1>2. NormalizeRole(role) = r
  BY <1>1, NormalizedRole
<1>3. r \in {"platform", "security", "analyst", "developer", "auditor", "viewer"}
  BY DEF Aliases
<1>4. CASE r = "platform"
  <2>1. role \in CanonicalNames => role = "platform administrator"
    BY <1>1, <1>4 DEF Aliases, CanonicalNames
  <2>2. Column("platform administrator") = "platform"
    BY DEF Column
  <2>3. QED
    BY <1>2, <1>4, <2>1, <2>2
<1>5. CASE r = "security"
  <2>1. role \in {"security administrator", "security_admin", "security-admin", "securityadmin", "secops",
                  "security_engineer"}
    BY <1>1, <1>5 DEF Aliases
  <2>2. Column(role) \in {"admin", "viewer"} /\ (role \in CanonicalNames => Column(role) = "admin")
    BY <2>1 DEF Column, CanonicalNames
  <2>3. QED
    BY <1>2, <1>5, <2>2 DEF ColumnFits
<1>6. CASE r = "developer"
  <2>1. role \in {"developer", "dev", "engineer", "devops"}
    BY <1>1, <1>6 DEF Aliases
  <2>2. Column(role) \in {"developer", "viewer"} /\ (role \in CanonicalNames => Column(role) = "developer")
    BY <2>1 DEF Column, CanonicalNames
  <2>3. QED
    BY <1>2, <1>6, <2>2 DEF ColumnFits
<1>7. CASE r = "analyst"
  <2>1. role \in {"analyst", "threat_analyst", "crypto_analyst"}
    BY <1>1, <1>7 DEF Aliases
  <2>2. Column(role) = "analyst"
    BY <2>1 DEF Column
  <2>3. QED
    BY <1>2, <1>7, <2>2 DEF ColumnFits
<1>8. CASE r = "auditor"
  <2>1. role \in {"auditor", "compliance", "compliance_officer"}
    BY <1>1, <1>8 DEF Aliases
  <2>2. Column(role) = "auditor"
    BY <2>1 DEF Column
  <2>3. QED
    BY <1>2, <1>8, <2>2 DEF ColumnFits
<1>9. CASE r = "viewer"
  <2>1. role \in {"viewer", "read_only", "reader"}
    BY <1>1, <1>9 DEF Aliases
  <2>2. Column(role) = "viewer"
    BY <2>1 DEF Column
  <2>3. QED
    BY <1>2, <1>9, <2>2 DEF ColumnFits
<1>10. QED
  BY <1>3, <1>4, <1>5, <1>6, <1>7, <1>8, <1>9

LEMMA TablesAgree ==
  ASSUME NEW role \in Spellings, NEW pair \in SamePower
  PROVE  /\ Given(Column(role), pair) => Granted(NormalizeRole(role), pair)
         /\ role \in CanonicalNames => (Granted(NormalizeRole(role), pair) => Given(Column(role), pair))
<1> DEFINE canonical == NormalizeRole(role)
           column    == Column(role)
<1>1. \/ canonical = "platform" /\ (role \in CanonicalNames => column = "platform")
      \/ canonical = "security" /\ column \in {"admin", "viewer"} /\ (role \in CanonicalNames => column = "admin")
      \/ canonical = "developer" /\ column \in {"developer", "viewer"}
         /\ (role \in CanonicalNames => column = "developer")
      \/ canonical = "analyst" /\ column = "analyst"
      \/ canonical = "auditor" /\ column = "auditor"
      \/ canonical = "viewer" /\ column = "viewer"
  BY Columns DEF ColumnFits
<1> HIDE DEF canonical, column
<1>2. QED
  BY <1>1, GivenIsGranted DEF canonical, column

LEMMA DecisionAgrees == DecisionIsAsked => TheTwoTablesAgree
<1> SUFFICES ASSUME decision.asked, DecisionIsAsked
             PROVE  /\ decision.capability => decision.permission
                    /\ decision.role \in CanonicalNames => (decision.permission => decision.capability)
  BY DEF TheTwoTablesAgree, CanonicalNames
<1>1. PICK role \in Spellings, pair \in SamePower :
        decision = [asked |-> TRUE, role |-> role,
                    capability |-> EvaluateCapability(role, pair[1], FALSE, FALSE),
                    permission |-> HasPermission(role, pair[2])]
  BY DEF DecisionIsAsked
<1>2. /\ decision.role = role
      /\ decision.capability = EvaluateCapability(role, pair[1], FALSE, FALSE)
      /\ decision.permission = HasPermission(role, pair[2])
  BY <1>1
<1>3. QED
  BY <1>2, CapabilityIsGiven, TablesAgree

LEMMA AccessStep == AccessInv /\ [AccessNext \/ Decide]_accessVars => AccessInv'
<1> SUFFICES ASSUME AccessInv, [AccessNext \/ Decide]_accessVars
             PROVE  AccessInv'
  OBVIOUS
<1>1. CASE UNCHANGED accessVars
  <2>1. store' = store /\ trail' = trail /\ heads' = heads /\ last' = last /\ decision' = decision
    BY <1>1 DEF accessVars
  <2>2. StoreIsApart(store') /\ DataStaysApart'
    BY <2>1 DEF AccessInv, DataStaysApart
  <2>3. HeadsAreLast'
    BY <2>1 DEF AccessInv, HeadsAreLast, HashAfter
  <2>4. EveryTenantsChainVerifies'
    BY <2>1 DEF AccessInv, EveryTenantsChainVerifies, VerifyTenantChain, HashAfter
  <2>5. DecisionIsAsked'
    BY <2>1 DEF AccessInv, DecisionIsAsked
  <2>6. QED
    BY <2>2, <2>3, <2>4, <2>5 DEF AccessInv, StoreIsApart
<1>2. CASE Decide
  <2>1. store' = store /\ trail' = trail /\ heads' = heads /\ last' = last
    BY <1>2 DEF Decide
  <2>2. DecisionIsAsked'
    BY <1>2 DEF Decide, DecisionIsAsked
  <2>3. StoreIsApart(store') /\ DataStaysApart'
    BY <2>1 DEF AccessInv, DataStaysApart
  <2>4. HeadsAreLast'
    BY <2>1 DEF AccessInv, HeadsAreLast, HashAfter
  <2>5. EveryTenantsChainVerifies'
    BY <2>1 DEF AccessInv, EveryTenantsChainVerifies, VerifyTenantChain, HashAfter
  <2>6. QED
    BY <2>2, <2>3, <2>4, <2>5 DEF AccessInv, StoreIsApart
<1>3. ASSUME NEW c \in Callers, NEW named \in DOMAIN Beginning, ValidateRequest(c, named)
      PROVE  AccessInv'
  BY <1>3, ReadKeeps, OwnIsPermitted DEF ValidateRequest
<1>4. CASE AccessNext
  BY <1>3, <1>4, ListStep, ObjectStep, ExportStep, JobStep, RegistryStep, LogStep, RowStep, CacheStep, QueueStep
     DEF AccessNext
<1>5. QED
  BY <1>1, <1>2, <1>4

\* Whatever tenants store under the same names and in whatever order, nobody is shown or
\* changes another tenant's data unless he is an administrator of the platform; every
\* tenant's audit chain verifies; and the two tables of roles agree
\* (multi_tenancy.py, object_auth.py, rbac.py).
THEOREM TenantsAreApart == AccessSpec => []TenantsStayApart
<1>1. ASSUME AccessInit PROVE AccessInv
  <2>1. /\ store = [rows |-> <<>>, objects |-> {}, jobs |-> {}, cache |-> <<>>, queues |-> <<>>, registry |-> <<>>]
        /\ trail = <<>> /\ heads = [t \in Tenants |-> 0]
        /\ last = Quiet /\ decision = [asked |-> FALSE]
    BY <1>1 DEF AccessInit, Tenants
  <2>2. /\ DOMAIN store = {"rows", "objects", "jobs", "cache", "queues", "registry"}
        /\ store.rows = <<>> /\ store.cache = <<>> /\ store.queues = <<>>
    BY <2>1
  <2>3. StoreIsApart(store)
    BY <2>2, EmptySeq DEF StoreIsApart, CacheIsOwn, QueuesAreOwn
  <2>4. HeadsAreLast
    <3>1. trail \in Seq(Event) /\ Len(trail) = 0
      BY <2>1, EmptySeq
    <3>2. \A t \in Tenants : HashAfter(t, 0) = 0
      BY DEF HashAfter
    <3>3. QED
      BY <2>1, <3>1, <3>2 DEF HeadsAreLast
  <2>5. EveryTenantsChainVerifies
    BY <2>1 DEF EveryTenantsChainVerifies, VerifyTenantChain
  <2>6. DecisionIsAsked /\ DataStaysApart
    BY <2>1 DEF DecisionIsAsked, DataStaysApart
  <2>7. QED
    BY <2>3, <2>4, <2>5, <2>6 DEF AccessInv
<1>2. AccessInv => TenantsStayApart
  BY DecisionAgrees DEF AccessInv, TenantsStayApart
<1>3. QED
  BY <1>1, <1>2, AccessStep, PTL DEF AccessSpec

-----------------------------------------------------------------------------
(* The audit ledgers.  However the calls of threads mix, records and calls *)
(* have numbers of their own until two calls stand between counting and    *)
(* taking a number.  While the calls come one at a time, the               *)
(* hash that the next record goes on from is that of the last record, and  *)
(* only the first record goes on from the genesis hash; that is why what   *)
(* was touched stays visible, even when the touched record is dropped.     *)

IsSequence(s) == \E S : s \in Seq(S)

RecordFields == {"seq", "details", "prev", "hash", "signature"}

\* What no record of a ledger shows.
Scrubbed(details) ==
  \A k \in DOMAIN details : \A m \in DOMAIN details[k] :
    LET f == details[k][m] IN
    /\ f.key = "secret" /\ (kind = "ledger" \/ f.within = "dict") => f.text = "redacted"
    /\ kind = "ledger" => f.text \notin {"pem", "inline"}

GoodRecord(r) ==
  /\ DOMAIN r = RecordFields
  /\ r.seq \in 1 .. counter
  /\ \E d : r.hash = <<r.seq, d, r.prev>>
  /\ r.signature \in {Unsigned, SignHash(r.hash)}
  /\ Scrubbed(r.details)

HasRecord(t) == call[t].at \in {"linked", "published"}

GoodCall(t) ==
  \/ call[t] = Idle
  \/ call[t].at = "counted" /\ kind = "ledger" /\ counter # 0
  \/ /\ call[t].at = "numbered"
     /\ call[t].seq \in 1 .. counter
     /\ Scrubbed(call[t].details)
  \/ /\ HasRecord(t)
     /\ DOMAIN call[t] = {"at", "record"}
     /\ GoodRecord(call[t].record)
     /\ call[t].record.hash = ComputeEventHash(call[t].record, call[t].record.prev)

LedgerShape ==
  /\ Len(events) \in Nat /\ DOMAIN events = 1 .. Len(events)
  /\ counter \in Nat
  /\ \A i \in DOMAIN events : GoodRecord(events[i])
  /\ DOMAIN call = Loggers
  /\ \A t \in Loggers : GoodCall(t)
  /\ DOMAIN past = {"raced", "shared", "evicted", "touched"}
  /\ past.raced \in BOOLEAN /\ past.shared \in BOOLEAN /\ past.evicted \in BOOLEAN
  /\ past.shared => past.raced
  /\ past.evicted => kind = "ledger"

\* The number a call has taken.
NumberOf(t) == IF HasRecord(t) THEN call[t].record.seq ELSE call[t].seq

Underway == {t \in Loggers : Busy(t)}

\* The calls that have counted their event and not taken its number.
Counted == {t \in Loggers : call[t].at = "counted"}
Numbered == Underway \ Counted

NumbersDiffer ==
  ~past.shared =>
    /\ \A i, j \in DOMAIN events : events[i].seq = events[j].seq => i = j
    /\ \A t \in Numbered : \A i \in DOMAIN events : events[i].seq # NumberOf(t)
    /\ \A t, u \in Numbered : NumberOf(t) = NumberOf(u) => t = u
    /\ \A t, u \in Counted : t = u
    /\ Counted # {} => /\ \A i \in DOMAIN events : events[i].seq # counter
                       /\ \A t \in Numbered : NumberOf(t) # counter

NumbersCount ==
  /\ Len(events) + Cardinality(Underway) <= counter
  /\ past.touched = "no" /\ ~past.evicted => Len(events) + Cardinality(Underway) = counter

OneAtATime ==
  ~past.raced =>
    /\ \A t, u \in Underway : t = u
    /\ \A t \in Numbered : NumberOf(t) = counter

GenesisIsFirst ==
  ~past.raced =>
    /\ \A i \in DOMAIN events : events[i].prev = Genesis => events[i].seq = 1
    /\ \A t \in Loggers : HasRecord(t) /\ call[t].record.prev = Genesis => call[t].record.seq = 1
    /\ lastHash = Genesis =>
         \/ counter = 0
         \/ counter = 1 /\ \E t \in Loggers : call[t].at \in {"counted", "numbered", "linked"}

LatestHash == IF events = <<>> THEN Genesis ELSE events[Len(events)].hash

LinksAreLatest ==
  ~past.raced /\ past.touched = "no" =>
    /\ (\A t \in Loggers : call[t].at # "published") => lastHash = LatestHash
    /\ \A t \in Loggers : HasRecord(t) => call[t].record.prev = LatestHash
    /\ \A t \in Loggers : call[t].at = "published" => lastHash = call[t].record.hash

FromTheFirst ==
  ~past.raced /\ ~past.evicted /\ past.touched = "no" =>
    \A i \in DOMAIN events : events[i].seq = i /\ (i = 1 => events[i].prev = Genesis)

LedgerInv ==
  /\ IsSequence(events)
  /\ LedgerShape /\ NumbersDiffer /\ NumbersCount
  /\ OneAtATime /\ GenesisIsFirst /\ LinksAreLatest /\ FromTheFirst
  /\ LedgerTells

\* Sequences, whatever is in them.
IsGrown(new, s, x) ==
  /\ IsSequence(new) /\ Len(new) = Len(s) + 1 /\ DOMAIN new = 1 .. Len(s) + 1
  /\ new[Len(s) + 1] = x /\ \A i \in 1 .. Len(s) : new[i] = s[i]

\* Element i is missing.
IsCut(new, s, i) ==
  /\ IsSequence(new) /\ Len(new) = Len(s) - 1 /\ DOMAIN new = 1 .. Len(s) - 1
  /\ \A j \in 1 .. Len(s) - 1 : new[j] = IF j < i THEN s[j] ELSE s[j + 1]

LEMMA SequenceLength ==
  ASSUME NEW s, IsSequence(s)
  PROVE  Len(s) \in Nat /\ DOMAIN s = 1 .. Len(s) /\ (s = <<>> <=> Len(s) = 0)
BY LenProperties, EmptySeq DEF IsSequence

LEMMA Grown ==
  ASSUME NEW s, IsSequence(s), NEW x, NEW new, new = Append(s, x)
  PROVE  IsGrown(new, s, x)
<1>1. PICK S : s \in Seq(S)
  BY DEF IsSequence
<1> DEFINE T == S \cup {x}
<1>2. s \in Seq(T) /\ x \in T
  BY <1>1, SeqMonotonic
<1> HIDE DEF T
<1>3. new \in Seq(T) /\ Len(new) = Len(s) + 1 /\ new[Len(s) + 1] = x /\ \A i \in 1 .. Len(s) : new[i] = s[i]
  BY <1>2, AppendProperties
<1>4. DOMAIN new = 1 .. Len(s) + 1
  BY <1>3, LenProperties
<1>5. QED
  BY <1>3, <1>4 DEF IsGrown, IsSequence

LEMMA FirstCut ==
  ASSUME NEW s, IsSequence(s), s # <<>>, NEW new, new = Tail(s)
  PROVE  IsCut(new, s, 1)
<1>1. PICK S : s \in Seq(S)
  BY DEF IsSequence
<1>2. new \in Seq(S) /\ Len(new) = Len(s) - 1 /\ \A i \in 1 .. Len(new) : new[i] = s[i + 1]
  BY <1>1, HeadTailProperties
<1>3. DOMAIN new = 1 .. Len(s) - 1
  BY <1>2, LenProperties
<1>4. \A j \in 1 .. Len(s) - 1 : ~(j < 1)
  BY <1>1, LenProperties
<1>5. QED
  BY <1>2, <1>3, <1>4 DEF IsCut, IsSequence

LEMMA OneCut ==
  ASSUME NEW s, IsSequence(s), NEW i \in 1 .. Len(s), NEW new, new = RemoveAt(s, i)
  PROVE  IsCut(new, s, i)
<1> DEFINE l == Len(s)
           before == SubSeq(s, 1, i - 1)
           after  == SubSeq(s, i + 1, l)
<1>1. PICK S : s \in Seq(S)
  BY DEF IsSequence
<1>2. l \in Nat /\ i \in Nat /\ 1 <= i /\ i <= l
  BY <1>1, LenProperties
<1>3. new = before \o after
  BY DEF RemoveAt
<1>4. /\ before \in Seq(S) /\ Len(before) = i - 1
      /\ \A j \in 1 .. i - 1 : before[j] = s[j]
  BY <1>1, <1>2, SubSeqProperties
<1>5. /\ after \in Seq(S) /\ Len(after) = l - i
      /\ \A j \in 1 .. l - i : after[j] = s[i + j]
  BY <1>1, <1>2, SubSeqProperties
<1> HIDE DEF before, after, l
<1>6. /\ new \in Seq(S) /\ Len(new) = (i - 1) + (l - i)
      /\ \A j \in 1 .. (i - 1) + (l - i) : new[j] = IF j <= i - 1 THEN before[j] ELSE after[j - (i - 1)]
  BY <1>3, <1>4, <1>5, ConcatProperties
<1>7. Len(new) = l - 1 /\ DOMAIN new = 1 .. l - 1
  BY <1>2, <1>6, LenProperties
<1>8. ASSUME NEW j \in 1 .. l - 1
      PROVE  new[j] = IF j < i THEN s[j] ELSE s[j + 1]
  <2>1. j \in 1 .. (i - 1) + (l - i)
    BY <1>2, <1>8
  <2>2. CASE j < i
    BY <1>2, <1>4, <1>6, <2>1, <2>2
  <2>3. CASE ~(j < i)
    <3>1. j - (i - 1) \in 1 .. l - i /\ i + (j - (i - 1)) = j + 1 /\ ~(j <= i - 1)
      BY <1>2, <1>8, <2>3
    <3>2. after[j - (i - 1)] = s[i + (j - (i - 1))]
      BY <1>5, <3>1
    <3>3. QED
      BY <1>6, <2>1, <2>3, <3>1, <3>2
  <2>4. QED
    BY <2>2, <2>3
<1>9. QED
  BY <1>6, <1>7, <1>8 DEF IsCut, IsSequence, l

\* Any change of elements in their places.
LEMMA Changed ==
  ASSUME NEW s, IsSequence(s), NEW new, DOMAIN new = DOMAIN s, new = [i \in DOMAIN s |-> new[i]]
  PROVE  IsSequence(new) /\ Len(new) = Len(s)
<1> DEFINE n == Len(s)
           T == {new[i] : i \in 1 .. n}
<1>1. n \in Nat /\ DOMAIN s = 1 .. n
  BY SequenceLength
<1>2. new \in [1 .. n -> T]
  BY <1>1
<1> HIDE DEF n, T
<1>3. new \in Seq(T)
  BY <1>1, <1>2, SeqDef
<1>4. Len(new) = n
  BY <1>1, <1>2, <1>3, LenProperties
<1>5. QED
  BY <1>3, <1>4 DEF IsSequence, n

\* Both ways of scrubbing leave nothing that their ledger must not show.
CleanFields(fields) ==
  \A m \in DOMAIN fields : /\ fields[m].key = "secret" => fields[m].text = "redacted"
                           /\ fields[m].text \notin {"pem", "inline"}

LEMMA CleanTexts ==
  ASSUME NEW fields, NEW within PROVE CleanFields(ScrubTexts(fields, within))
<1> SUFFICES ASSUME NEW m \in DOMAIN fields
             PROVE  LET f == ScrubTexts(fields, within)[m] IN
                    /\ f.key = "secret" => f.text = "redacted"
                    /\ f.text \notin {"pem", "inline"}
  BY DEF CleanFields, ScrubTexts
<1> DEFINE key  == fields[m].key
           text == fields[m].text
           shown == IF key = "secret" \/ text \in {"pem", "inline"} THEN "redacted" ELSE text
<1>1. ScrubTexts(fields, within)[m] = [key |-> key, within |-> within, text |-> shown]
  BY DEF ScrubTexts
<1>2. (key = "secret" => shown = "redacted") /\ shown \notin {"pem", "inline"}
  OBVIOUS
<1> HIDE DEF shown
<1>3. QED
  BY <1>1, <1>2

LEMMA LedgerScrubs ==
  ASSUME NEW details PROVE \A k \in DOMAIN details : CleanFields(ScrubSecrets(details)[k])
<1> SUFFICES ASSUME NEW k \in DOMAIN details
             PROVE  CleanFields(ScrubSecrets(details)[k])
  OBVIOUS
<1> DEFINE f == details[k]
           scrubbed == ScrubSecrets(details)[k]
<1>1. scrubbed = IF f.node = "none" THEN ScrubTexts(<<f>>, "dict")
                 ELSE IF f.key = "secret" THEN Redacted
                 ELSE IF f.node \in Met(details, k)
                   THEN <<[key |-> f.key, within |-> "dict", text |-> "circular"]>>
                 ELSE ScrubTexts(f.inner, f.container)
  BY DEF ScrubSecrets
<1>2. CleanFields(Redacted)
  BY DEF CleanFields, Redacted
<1>3. f.key # "secret" => CleanFields(<<[key |-> f.key, within |-> "dict", text |-> "circular"]>>)
  BY DEF CleanFields
<1> HIDE DEF f, scrubbed
<1>4. CleanFields(scrubbed)
  BY <1>1, <1>2, <1>3, CleanTexts
<1>5. QED
  BY <1>4 DEF scrubbed

\* The other ledger looks at the keys of dicts.
LEMMA AuthScrubs ==
  ASSUME NEW details, NEW k \in DOMAIN details, NEW m \in DOMAIN SanitizeMetadata(details)[k]
  PROVE  LET f == SanitizeMetadata(details)[k][m] IN f.key = "secret" /\ f.within = "dict" => f.text = "redacted"
<1> DEFINE f == details[k]
           inner == [j \in DOMAIN f.inner |->
                       [key |-> f.inner[j].key, within |-> f.container,
                        text |-> IF f.container = "dict" /\ f.inner[j].key = "secret" THEN "redacted"
                                 ELSE f.inner[j].text]]
<1>1. SanitizeMetadata(details)[k] = IF f.key = "secret" THEN Redacted
                                     ELSE IF f.node = "none" THEN <<[key |-> f.key, within |-> "dict", text |-> f.text]>>
                                     ELSE inner
  BY DEF SanitizeMetadata
<1>2. CASE f.key = "secret"
  BY <1>1, <1>2 DEF Redacted
<1>3. CASE f.key # "secret" /\ f.node = "none"
  <2>1. SanitizeMetadata(details)[k] = <<[key |-> f.key, within |-> "dict", text |-> f.text]>>
    BY <1>1, <1>3
  <2>2. m = 1
    BY <2>1
  <2>3. QED
    BY <1>3, <2>1, <2>2
<1>4. CASE f.key # "secret" /\ f.node # "none"
  <2>1. SanitizeMetadata(details)[k] = inner
    BY <1>1, <1>4
  <2>2. inner[m] = [key |-> f.inner[m].key, within |-> f.container,
                    text |-> IF f.container = "dict" /\ f.inner[m].key = "secret" THEN "redacted"
                             ELSE f.inner[m].text]
    BY <2>1
  <2>3. QED
    BY <2>1, <2>2
<1>5. QED
  BY <1>2, <1>3, <1>4

LEMMA ScrubbingScrubs ==
  ASSUME NEW details
  PROVE  /\ kind = "ledger" => Scrubbed(ScrubSecrets(details))
         /\ kind # "ledger" => Scrubbed(SanitizeMetadata(details))
<1>1. CASE kind = "ledger"
  <2>1. DOMAIN ScrubSecrets(details) = DOMAIN details
    BY DEF ScrubSecrets
  <2>2. QED
    BY <1>1, <2>1, LedgerScrubs DEF Scrubbed, CleanFields
<1>2. CASE kind # "ledger"
  <2>1. DOMAIN SanitizeMetadata(details) = DOMAIN details
    BY DEF SanitizeMetadata
  <2>2. QED
    BY <1>2, <2>1, AuthScrubs DEF Scrubbed
<1>3. QED
  BY <1>1, <1>2

\* What is said of a record stays true while the numbers go up.
LEMMA RecordStays ==
  ASSUME NEW r, GoodRecord(r), kind' = kind, counter \in Nat, counter' \in Nat, counter <= counter'
  PROVE  GoodRecord(r)'
<1>1. r.seq \in 1 .. counter'
  BY DEF GoodRecord
<1>2. Scrubbed(r.details)'
  BY DEF GoodRecord, Scrubbed
<1>3. QED
  BY <1>1, <1>2 DEF GoodRecord

LEMMA RecordsStay ==
  ASSUME LedgerShape, kind' = kind, counter' \in Nat, counter <= counter', events' = events
  PROVE  \A i \in DOMAIN events' : GoodRecord(events[i])'
<1> SUFFICES ASSUME NEW i \in DOMAIN events'
             PROVE  GoodRecord(events[i])'
  OBVIOUS
<1> PICK r : r = events[i]
  OBVIOUS
<1>1. GoodRecord(r)
  BY DEF LedgerShape
<1>2. GoodRecord(r)'
  BY <1>1, RecordStays DEF LedgerShape
<1>3. r = events'[i]
  OBVIOUS
<1>4. QED
  BY <1>2, <1>3 DEF GoodRecord

\* A call that does not move keeps its shape and its number.
LEMMA CallStays ==
  ASSUME LedgerShape, kind' = kind, counter' \in Nat, counter <= counter',
         NEW t \in Loggers, call'[t] = call[t]
  PROVE  /\ GoodCall(t)' /\ (NumberOf(t))' = NumberOf(t)
         /\ (Busy(t)' <=> Busy(t)) /\ (HasRecord(t)' <=> HasRecord(t))
<1>1. GoodCall(t)
  BY DEF LedgerShape
<1>2. (NumberOf(t))' = NumberOf(t) /\ (Busy(t)' <=> Busy(t)) /\ (HasRecord(t)' <=> HasRecord(t))
  BY DEF NumberOf, HasRecord, Busy
<1>3. CASE call[t] = Idle
  BY <1>2, <1>3 DEF GoodCall
<1>0. CASE call[t].at = "counted" /\ kind = "ledger" /\ counter # 0
  BY <1>2, <1>0 DEF GoodCall, LedgerShape
<1>4. CASE call[t].at = "numbered" /\ call[t].seq \in 1 .. counter /\ Scrubbed(call[t].details)
  <2>1. call'[t].at = "numbered" /\ call'[t].seq \in 1 .. counter'
    BY <1>4 DEF LedgerShape
  <2>2. Scrubbed(call[t].details)'
    BY <1>4 DEF Scrubbed
  <2>3. QED
    BY <1>2, <2>1, <2>2 DEF GoodCall
<1>5. CASE /\ HasRecord(t)
           /\ DOMAIN call[t] = {"at", "record"}
           /\ GoodRecord(call[t].record)
           /\ call[t].record.hash = ComputeEventHash(call[t].record, call[t].record.prev)
  <2> PICK r : r = call[t].record
    OBVIOUS
  <2>1. GoodRecord(r)'
    BY <1>5, RecordStays DEF LedgerShape
  <2>2. r = call'[t].record
    OBVIOUS
  <2>3. GoodRecord(call[t].record)'
    BY <2>1, <2>2 DEF GoodRecord
  <2>4. QED
    BY <1>2, <1>5, <2>3 DEF GoodCall, ComputeEventHash
<1>6. QED
  BY <1>0, <1>1, <1>2, <1>3, <1>4, <1>5 DEF GoodCall

\* A step that leaves the events and the kind leaves the verdict on them.
LEMMA VerdictStays ==
  ASSUME events' = events, kind' = kind
  PROVE  VerifyIntegrity' <=> VerifyIntegrity
BY DEF VerifyIntegrity, NumberHolds, LinkHolds, HashHolds, SignatureHolds, VerifySignature, SignHash, ComputeEventHash

\* A call that begins.
LEMMA BegunIsGood ==
  ASSUME LedgerInv, NEW t \in Loggers, ~Busy(t), NEW c,
         counter' = counter + 1, events' = events, kind' = kind, lastHash' = lastHash,
         call' = [call EXCEPT ![t] = c], GoodCall(t)',
         \/ c.at = "counted"
         \/ c.at = "numbered" /\ c.seq = counter + 1 /\ kind # "ledger",
         DOMAIN past' = DOMAIN past, past'.evicted = past.evicted, past'.touched = past.touched,
         past'.raced = (past.raced \/ \E u \in Loggers : Busy(u)),
         past'.shared = (past.shared \/ (c.at = "counted" /\ \E u \in Loggers : call[u].at = "counted"))
  PROVE  LedgerInv'
<1>2. LedgerShape /\ IsSequence(events)
  BY DEF LedgerInv
<1>4. counter \in Nat /\ counter' \in Nat /\ counter <= counter' /\ DOMAIN call = Loggers
  BY <1>2 DEF LedgerShape
<1>5. call'[t] = c /\ DOMAIN call' = Loggers /\ \A u \in Loggers \ {t} : call'[u] = call[u]
  BY <1>4
<1>7. Busy(t)' /\ ~HasRecord(t)' /\ (c.at = "numbered" => (NumberOf(t))' = counter + 1)
  BY <1>5 DEF NumberOf, HasRecord, Busy
<1>8. \A u \in Loggers \ {t} :
        GoodCall(u)' /\ (NumberOf(u))' = NumberOf(u) /\ (Busy(u)' <=> Busy(u)) /\ (HasRecord(u)' <=> HasRecord(u))
  BY <1>2, <1>4, <1>5, CallStays
<1>9. ~past'.raced => ~past.raced /\ \A u \in Loggers : ~Busy(u)
  OBVIOUS
<1>10. LedgerShape'
  <2>1. \A i \in DOMAIN events' : GoodRecord(events[i])'
    BY <1>2, <1>4, RecordsStay
  <2>2. past'.raced \in BOOLEAN /\ past'.shared \in BOOLEAN /\ past'.evicted \in BOOLEAN
    BY <1>2 DEF LedgerShape
  <2>3. past'.shared => past'.raced
    BY <1>2 DEF LedgerShape, Busy
  <2>4. past'.evicted => kind' = "ledger"
    BY <1>2 DEF LedgerShape
  <2>5. \A u \in Loggers : GoodCall(u)'
    BY <1>8
  <2>6. DOMAIN past' = {"raced", "shared", "evicted", "touched"} /\ Len(events') \in Nat /\ DOMAIN events' = 1 .. Len(events')
    BY <1>2 DEF LedgerShape
  <2>7. QED
    BY <1>4, <1>5, <2>1, <2>2, <2>3, <2>4, <2>5, <2>6 DEF LedgerShape
<1>11. Underway' = Underway \cup {t} /\ t \notin Underway
  BY <1>7, <1>8 DEF Underway
<1>12. Cardinality(Underway') = Cardinality(Underway) + 1 /\ Cardinality(Underway) \in Nat
  <2>1. IsFiniteSet(Underway)
    BY LedgersAssumption, FS_Subset DEF Underway
  <2>2. QED
    BY <1>11, <2>1, FS_AddElement, FS_CardinalityType
<1>13. \A u \in Numbered : NumberOf(u) \in 1 .. counter
  BY <1>2 DEF Numbered, Underway, Counted, LedgerShape, GoodCall, GoodRecord, NumberOf, HasRecord, Busy, Idle
<1>14. NumbersDiffer'
  <2> SUFFICES ASSUME ~past'.shared
               PROVE  /\ \A i, j \in DOMAIN events' : events'[i].seq = events'[j].seq => i = j
                      /\ \A u \in Numbered' : \A i \in DOMAIN events' : events'[i].seq # (NumberOf(u))'
                      /\ \A u, v \in Numbered' : (NumberOf(u))' = (NumberOf(v))' => u = v
                      /\ \A u, v \in Counted' : u = v
                      /\ Counted' # {} => /\ \A i \in DOMAIN events' : events'[i].seq # counter'
                                          /\ \A u \in Numbered' : (NumberOf(u))' # counter'
    BY DEF NumbersDiffer
  <2>1. \A i \in DOMAIN events : events[i].seq \in 1 .. counter
    BY <1>2 DEF LedgerShape, GoodRecord
  <2>2. /\ \A i, j \in DOMAIN events : events[i].seq = events[j].seq => i = j
        /\ \A u \in Numbered : \A i \in DOMAIN events : events[i].seq # NumberOf(u)
        /\ \A u, v \in Numbered : NumberOf(u) = NumberOf(v) => u = v
    BY DEF LedgerInv, NumbersDiffer
  <2>3. t \notin Numbered /\ t \notin Counted /\ \A u \in Numbered : u \in Loggers \ {t}
    BY <1>11 DEF Numbered, Underway, Counted, Busy
  <2>4. CASE c.at = "counted"
    <3>1. Counted = {}
      BY <2>4 DEF Counted
    <3>2. Counted' = {t}
      BY <1>5, <2>4, <3>1 DEF Counted
    <3>3. Numbered' = Numbered
      BY <1>11, <2>3, <3>1, <3>2 DEF Numbered
    <3>4. \A u \in Numbered : (NumberOf(u))' = NumberOf(u)
      BY <1>8, <2>3
    <3>5. QED
      BY <1>4, <1>13, <2>1, <2>2, <3>2, <3>3, <3>4
  <2>5. CASE c.at = "numbered"
    <3>1. Counted = {}
      BY <1>2, <2>5 DEF LedgerShape, GoodCall, Counted, HasRecord, Idle
    <3>2. Counted' = {}
      BY <1>5, <2>5, <3>1 DEF Counted
    <3>3. Numbered' = Numbered \cup {t}
      BY <1>11, <3>1, <3>2 DEF Numbered
    <3>4. \A u \in Numbered : (NumberOf(u))' = NumberOf(u)
      BY <1>8, <2>3
    <3>5. (NumberOf(t))' = counter + 1
      BY <1>7, <2>5
    <3>6. QED
      BY <1>4, <1>13, <2>1, <2>2, <2>3, <3>2, <3>3, <3>4, <3>5
  <2>6. QED
    BY <2>4, <2>5
<1>15. NumbersCount'
  BY <1>2, <1>4, <1>12 DEF LedgerInv, NumbersCount, LedgerShape
<1>16. OneAtATime'
  <2> SUFFICES ASSUME ~past'.raced
               PROVE  /\ \A u, v \in Underway' : u = v
                      /\ \A u \in Numbered' : (NumberOf(u))' = counter'
    BY DEF OneAtATime
  <2>1. Underway' = {t}
    BY <1>9, <1>11 DEF Underway
  <2>2. t \in Numbered' => c.at = "numbered"
    BY <1>5 DEF Numbered, Counted
  <2>3. QED
    BY <1>7, <2>1, <2>2 DEF Numbered
<1>17. GenesisIsFirst'
  <2> SUFFICES ASSUME ~past'.raced
               PROVE  /\ \A i \in DOMAIN events' : events'[i].prev = Genesis => events'[i].seq = 1
                      /\ \A u \in Loggers : HasRecord(u)' /\ call'[u].record.prev = Genesis => call'[u].record.seq = 1
                      /\ lastHash' = Genesis =>
                           counter' = 1 /\ \E u \in Loggers : call'[u].at \in {"counted", "numbered", "linked"}
    BY DEF GenesisIsFirst
  <2>1. \A i \in DOMAIN events' : events'[i].prev = Genesis => events'[i].seq = 1
    BY <1>9 DEF LedgerInv, GenesisIsFirst
  <2>2. \A u \in Loggers : ~HasRecord(u)'
    BY <1>7, <1>8, <1>9 DEF HasRecord, Busy
  <2>3. lastHash = Genesis => counter = 0
    BY <1>9 DEF LedgerInv, GenesisIsFirst, Busy
  <2>4. QED
    BY <1>4, <1>5, <2>1, <2>2, <2>3
<1>18. LinksAreLatest'
  <2> SUFFICES ASSUME ~past'.raced, past'.touched = "no"
               PROVE  /\ lastHash' = LatestHash'
                      /\ \A u \in Loggers : ~HasRecord(u)' /\ call'[u].at # "published"
    BY DEF LinksAreLatest
  <2>1. \A u \in Loggers : ~HasRecord(u)'
    BY <1>7, <1>8, <1>9 DEF HasRecord, Busy
  <2>2. \A u \in Loggers : call'[u].at # "published"
    BY <2>1 DEF HasRecord
  <2>3. lastHash = LatestHash
    BY <1>9 DEF LedgerInv, LinksAreLatest, Busy
  <2>4. QED
    BY <2>1, <2>2, <2>3 DEF LatestHash
<1>19. FromTheFirst'
  BY <1>9 DEF LedgerInv, FromTheFirst
<1>20. LedgerTells'
  BY <1>9, VerdictStays DEF LedgerInv, LedgerTells
<1>21. IsSequence(events)'
  BY <1>2 DEF IsSequence
<1>22. QED
  BY <1>10, <1>14, <1>15, <1>16, <1>17, <1>18, <1>19, <1>20, <1>21 DEF LedgerInv

LEMMA CountedIsGood ==
  ASSUME LedgerInv, NEW t \in Loggers, NEW details \in Details, CountEvent(t, details)
  PROVE  LedgerInv'
<1> PICK c : c = [at |-> "counted", details |-> details]
  OBVIOUS
<1>1. /\ counter' = counter + 1 /\ events' = events /\ kind' = kind /\ lastHash' = lastHash
      /\ call' = [call EXCEPT ![t] = c] /\ ~Busy(t) /\ kind = "ledger" /\ c.at = "counted"
  BY DEF CountEvent
<1>2. /\ DOMAIN past' = DOMAIN past /\ past'.evicted = past.evicted /\ past'.touched = past.touched
      /\ past'.raced = (past.raced \/ \E u \in Loggers : Busy(u))
      /\ past'.shared = (past.shared \/ (c.at = "counted" /\ \E u \in Loggers : call[u].at = "counted"))
  BY <1>1 DEF CountEvent, LedgerInv, LedgerShape
<1>3. call'[t].at = "counted" /\ counter' # 0
  BY <1>1 DEF LedgerInv, LedgerShape
<1>4. GoodCall(t)'
  BY <1>1, <1>3 DEF GoodCall
<1>5. QED
  BY <1>1, <1>2, <1>4, BegunIsGood

LEMMA NamedIsGood ==
  ASSUME LedgerInv, NEW t \in Loggers, NEW details \in Details, NameEvent(t, details)
  PROVE  LedgerInv'
<1> PICK clean : clean = SanitizeMetadata(details)
  OBVIOUS
<1> PICK c : c = [at |-> "numbered", seq |-> counter + 1, details |-> clean]
  OBVIOUS
<1>1. /\ counter' = counter + 1 /\ events' = events /\ kind' = kind /\ lastHash' = lastHash
      /\ call' = [call EXCEPT ![t] = c] /\ ~Busy(t) /\ kind # "ledger"
      /\ c.at = "numbered" /\ c.seq = counter + 1 /\ c.details = clean
  BY DEF NameEvent
<1>2. /\ DOMAIN past' = DOMAIN past /\ past'.evicted = past.evicted /\ past'.touched = past.touched
      /\ past'.raced = (past.raced \/ \E u \in Loggers : Busy(u))
      /\ past'.shared = (past.shared \/ (c.at = "counted" /\ \E u \in Loggers : call[u].at = "counted"))
  BY <1>1 DEF NameEvent, LedgerInv, LedgerShape
<1>3. Scrubbed(clean)
  BY <1>1, ScrubbingScrubs
<1>4. call'[t] = c /\ counter \in Nat
  BY <1>1 DEF LedgerInv, LedgerShape
<1>5. Scrubbed(call[t].details)'
  BY <1>1, <1>3, <1>4 DEF Scrubbed
<1>6. call'[t].at = "numbered" /\ call'[t].seq \in 1 .. counter'
  BY <1>1, <1>4
<1>7. GoodCall(t)'
  BY <1>5, <1>6 DEF GoodCall
<1>8. QED
  BY <1>1, <1>2, <1>7, BegunIsGood

\* A call that goes on: what does not depend on how far it is, nor on its number.
LEMMA MovingCallKeeps ==
  ASSUME LedgerInv, events' = events, kind' = kind, counter' = counter, past' = past,
         NEW t \in Loggers, Busy(t), Busy(t)', GoodCall(t)',
         DOMAIN call' = Loggers, \A u \in Loggers \ {t} : call'[u] = call[u]
  PROVE  /\ IsSequence(events)' /\ LedgerShape' /\ NumbersCount' /\ FromTheFirst' /\ LedgerTells'
         /\ Underway' = Underway
         /\ \A u \in Loggers \ {t} : (NumberOf(u))' = NumberOf(u) /\ (Busy(u)' <=> Busy(u))
<1>1. LedgerShape /\ counter \in Nat /\ counter' \in Nat /\ counter <= counter'
  BY DEF LedgerInv, LedgerShape
<1>2. \A u \in Loggers \ {t} :
        GoodCall(u)' /\ (NumberOf(u))' = NumberOf(u) /\ (Busy(u)' <=> Busy(u)) /\ (HasRecord(u)' <=> HasRecord(u))
  BY <1>1, CallStays
<1>3. \A i \in DOMAIN events' : GoodRecord(events[i])'
  BY <1>1, RecordsStay
<1>4. LedgerShape'
  BY <1>1, <1>2, <1>3 DEF LedgerShape
<1>5. Underway' = Underway
  BY <1>2 DEF Underway
<1>8. NumbersCount'
  BY <1>5 DEF LedgerInv, NumbersCount
<1>10. FromTheFirst'
  BY DEF LedgerInv, FromTheFirst
<1>11. LedgerTells'
  BY VerdictStays DEF LedgerInv, LedgerTells
<1>12. IsSequence(events)'
  BY DEF LedgerInv, IsSequence
<1>13. QED
  BY <1>2, <1>4, <1>5, <1>8, <1>10, <1>11, <1>12

\* A call that goes on with the number it has.
LEMMA NumbersKept ==
  ASSUME LedgerInv, events' = events, counter' = counter, past' = past, Underway' = Underway,
         NEW t \in Loggers, call[t].at # "counted", call'[t].at # "counted", (NumberOf(t))' = NumberOf(t),
         \A u \in Loggers \ {t} : call'[u] = call[u] /\ (NumberOf(u))' = NumberOf(u)
  PROVE  NumbersDiffer' /\ OneAtATime'
<1>1. Counted' = Counted
  BY DEF Counted
<1>2. Numbered' = Numbered /\ \A u \in Numbered : (NumberOf(u))' = NumberOf(u)
  BY <1>1 DEF Numbered, Underway
<1>3. NumbersDiffer'
  BY <1>1, <1>2 DEF LedgerInv, NumbersDiffer
<1>4. OneAtATime'
  BY <1>2 DEF LedgerInv, OneAtATime
<1>5. QED
  BY <1>3, <1>4

LEMMA NumberedIsGood ==
  ASSUME LedgerInv, NEW t \in Loggers, TakeNumber(t)
  PROVE  LedgerInv'
<1> PICK clean : clean = ScrubSecrets(call[t].details)
  OBVIOUS
<1> PICK c : c = [at |-> "numbered", seq |-> counter, details |-> clean]
  OBVIOUS
<1>1. /\ counter' = counter /\ events' = events /\ kind' = kind /\ lastHash' = lastHash /\ past' = past
      /\ call' = [call EXCEPT ![t] = c] /\ call[t].at = "counted"
      /\ c.at = "numbered" /\ c.seq = counter /\ c.details = clean
  BY DEF TakeNumber
<1>2. LedgerShape /\ DOMAIN call = Loggers /\ counter \in Nat /\ GoodCall(t)
  BY DEF LedgerInv, LedgerShape
<1>3. kind = "ledger" /\ counter # 0
  BY <1>1, <1>2 DEF GoodCall, HasRecord, Idle
<1>4. call'[t] = c /\ DOMAIN call' = Loggers /\ \A u \in Loggers \ {t} : call'[u] = call[u]
  BY <1>1, <1>2
<1>5. Scrubbed(clean)
  BY <1>3, ScrubbingScrubs
<1>6. Scrubbed(call[t].details)'
  BY <1>1, <1>4, <1>5 DEF Scrubbed
<1>7. call'[t].at = "numbered" /\ call'[t].seq = counter /\ counter \in 1 .. counter'
  BY <1>1, <1>2, <1>3, <1>4
<1>8. GoodCall(t)'
  BY <1>6, <1>7 DEF GoodCall
<1>9. Busy(t) /\ Busy(t)' /\ ~HasRecord(t) /\ ~HasRecord(t)' /\ (NumberOf(t))' = counter
  BY <1>1, <1>7 DEF Busy, HasRecord, NumberOf
<1>10. /\ IsSequence(events)' /\ LedgerShape' /\ NumbersCount' /\ FromTheFirst' /\ LedgerTells'
       /\ Underway' = Underway
       /\ \A u \in Loggers \ {t} : (NumberOf(u))' = NumberOf(u) /\ (Busy(u)' <=> Busy(u))
  BY <1>1, <1>4, <1>8, <1>9, MovingCallKeeps
<1>11. Counted' = Counted \ {t} /\ t \in Counted /\ t \in Underway
  BY <1>1, <1>4, <1>7, <1>9 DEF Counted, Underway
<1>12. Numbered' = Numbered \cup {t} /\ t \notin Numbered /\ \A u \in Numbered : (NumberOf(u))' = NumberOf(u)
  BY <1>10, <1>11 DEF Numbered, Underway
<1>13. NumbersDiffer'
  <2> SUFFICES ASSUME ~past.shared
               PROVE  /\ \A i, j \in DOMAIN events' : events'[i].seq = events'[j].seq => i = j
                      /\ \A u \in Numbered' : \A i \in DOMAIN events' : events'[i].seq # (NumberOf(u))'
                      /\ \A u, v \in Numbered' : (NumberOf(u))' = (NumberOf(v))' => u = v
                      /\ Counted' = {}
    BY <1>1 DEF NumbersDiffer
  <2>1. /\ \A i, j \in DOMAIN events : events[i].seq = events[j].seq => i = j
        /\ \A u \in Numbered : \A i \in DOMAIN events : events[i].seq # NumberOf(u)
        /\ \A u, v \in Numbered : NumberOf(u) = NumberOf(v) => u = v
        /\ \A u, v \in Counted : u = v
        /\ \A i \in DOMAIN events : events[i].seq # counter
        /\ \A u \in Numbered : NumberOf(u) # counter
    BY <1>11 DEF LedgerInv, NumbersDiffer
  <2>2. QED
    BY <1>1, <1>9, <1>11, <1>12, <2>1
<1>14. OneAtATime'
  BY <1>1, <1>9, <1>10, <1>12 DEF LedgerInv, OneAtATime
<1>15. GenesisIsFirst'
  <2> SUFFICES ASSUME ~past.raced
               PROVE  /\ \A i \in DOMAIN events' : events'[i].prev = Genesis => events'[i].seq = 1
                      /\ \A u \in Loggers : HasRecord(u)' /\ call'[u].record.prev = Genesis => call'[u].record.seq = 1
                      /\ lastHash' = Genesis => counter' = 1
    BY <1>1, <1>7 DEF GenesisIsFirst
  <2>1. \A u \in Loggers : HasRecord(u)' => HasRecord(u) /\ call'[u] = call[u]
    BY <1>4, <1>9 DEF HasRecord
  <2>2. QED
    BY <1>1, <1>3, <2>1 DEF LedgerInv, GenesisIsFirst
<1>16. LinksAreLatest'
  <2>1. \A u \in Loggers : HasRecord(u)' => HasRecord(u) /\ call'[u] = call[u]
    BY <1>4, <1>9 DEF HasRecord
  <2>2. \A u \in Loggers : (call'[u].at = "published" <=> call[u].at = "published") /\ (call'[u].at = "published" => call'[u] = call[u])
    BY <1>1, <1>4, <1>7
  <2>3. LatestHash' = LatestHash
    BY <1>1 DEF LatestHash
  <2>4. QED
    BY <1>1, <2>1, <2>2, <2>3 DEF LedgerInv, LinksAreLatest
<1>17. QED
  BY <1>10, <1>13, <1>14, <1>15, <1>16 DEF LedgerInv

LEMMA LinkedIsGood ==
  ASSUME LedgerInv, NEW t \in Loggers, Link(t)
  PROVE  LedgerInv'
<1> PICK n : n = call[t].seq
  OBVIOUS
<1> PICK details : details = call[t].details
  OBVIOUS
<1> PICK latest : latest = lastHash
  OBVIOUS
<1> PICK signature : signature = IF kind = "ledger" THEN SignHash(<<n, details, latest>>) ELSE Unsigned
  OBVIOUS
<1> DEFINE r == [seq |-> n, details |-> details, prev |-> latest, hash |-> <<n, details, latest>>,
                 signature |-> signature]
           c == [at |-> "linked", record |-> r]
<1>1. /\ call[t].at = "numbered"
      /\ events' = events /\ kind' = kind /\ counter' = counter /\ past' = past /\ lastHash' = lastHash
      /\ call' = [call EXCEPT ![t] = c]
  BY DEF Link, Sealed, ComputeEventHash
<1>2. LedgerShape /\ counter \in Nat /\ DOMAIN call = Loggers /\ GoodCall(t)
  BY DEF LedgerInv, LedgerShape
<1>3. n \in 1 .. counter /\ Scrubbed(details) /\ Busy(t) /\ NumberOf(t) = n /\ t \in Underway
  BY <1>1, <1>2 DEF GoodCall, HasRecord, Idle, Busy, NumberOf, Underway
<1>4. call'[t] = c /\ DOMAIN call' = Loggers /\ \A u \in Loggers \ {t} : call'[u] = call[u]
  BY <1>1, <1>2
<1>5. /\ DOMAIN r = RecordFields /\ r.seq = n /\ r.details = details /\ r.prev = latest
      /\ r.hash = <<n, details, latest>> /\ r.signature \in {Unsigned, SignHash(<<n, details, latest>>)}
  BY DEF RecordFields
<1> HIDE DEF r
<1>6. c.at = "linked" /\ c.record = r /\ DOMAIN c = {"at", "record"}
  OBVIOUS
<1> HIDE DEF c
<1>7. GoodCall(t)'
  <2>1. Scrubbed(details)'
    BY <1>1, <1>3 DEF Scrubbed
  <2> PICK q : q = r
    OBVIOUS
  <2>2. GoodRecord(q)'
    BY <1>1, <1>3, <1>5, <2>1 DEF GoodRecord
  <2>3. q = call'[t].record
    BY <1>4, <1>6
  <2>4. GoodRecord(call[t].record)'
    BY <2>2, <2>3 DEF GoodRecord
  <2>5. q.hash = ComputeEventHash(q, q.prev)
    BY <1>5 DEF ComputeEventHash
  <2>6. QED
    BY <1>4, <1>6, <2>3, <2>4, <2>5 DEF GoodCall, HasRecord, ComputeEventHash
<1>8. Busy(t)' /\ (NumberOf(t))' = n /\ HasRecord(t)'
  BY <1>4, <1>5, <1>6 DEF Busy, NumberOf, HasRecord
<1>9. /\ IsSequence(events)' /\ LedgerShape' /\ NumbersCount' /\ FromTheFirst' /\ LedgerTells'
      /\ Underway' = Underway
      /\ \A u \in Loggers \ {t} : (NumberOf(u))' = NumberOf(u) /\ (Busy(u)' <=> Busy(u))
  BY <1>1, <1>3, <1>4, <1>7, <1>8, MovingCallKeeps
<1>91. NumbersDiffer' /\ OneAtATime'
  <2>1. call[t].at # "counted" /\ call'[t].at # "counted"
    BY <1>1, <1>4, <1>6
  <2>2. QED
    BY <1>1, <1>3, <1>4, <1>8, <1>9, <2>1, NumbersKept
<1>10. call'[t].at = "linked" /\ call'[t].record.prev = lastHash /\ call'[t].record.seq = n
  BY <1>4, <1>5, <1>6
<1>11. ~past.raced => n = counter /\ \A u \in Loggers \ {t} : ~Busy(u)
  BY <1>1, <1>3 DEF LedgerInv, OneAtATime, Underway, Numbered, Counted
<1>12. GenesisIsFirst'
  <2> SUFFICES ASSUME ~past.raced
               PROVE  /\ \A i \in DOMAIN events' : events'[i].prev = Genesis => events'[i].seq = 1
                      /\ \A u \in Loggers : HasRecord(u)' /\ call'[u].record.prev = Genesis => call'[u].record.seq = 1
                      /\ lastHash' = Genesis => counter' = 1 /\ \E u \in Loggers : call'[u].at \in {"counted", "numbered", "linked"}
    BY <1>1 DEF GenesisIsFirst
  <2>1. \A i \in DOMAIN events' : events'[i].prev = Genesis => events'[i].seq = 1
    BY <1>1 DEF LedgerInv, GenesisIsFirst
  <2>2. lastHash = Genesis => counter = 1
    BY <1>2, <1>3 DEF LedgerInv, GenesisIsFirst
  <2>3. \A u \in Loggers \ {t} : HasRecord(u)' /\ call'[u].record.prev = Genesis => call'[u].record.seq = 1
    BY <1>4, <1>11 DEF HasRecord, Busy
  <2>4. QED
    BY <1>1, <1>10, <1>11, <2>1, <2>2, <2>3
<1>13. LinksAreLatest'
  <2> SUFFICES ASSUME ~past.raced, past.touched = "no"
               PROVE  /\ lastHash' = LatestHash'
                      /\ \A u \in Loggers : HasRecord(u)' => call'[u].record.prev = LatestHash'
                      /\ \A u \in Loggers : call'[u].at # "published"
    BY <1>1 DEF LinksAreLatest
  <2>1. \A u \in Loggers : call[u].at # "published"
    BY <1>1, <1>11 DEF Busy
  <2>2. lastHash = LatestHash
    BY <2>1 DEF LedgerInv, LinksAreLatest
  <2>3. LatestHash' = LatestHash
    BY <1>1 DEF LatestHash
  <2>4. \A u \in Loggers \ {t} : ~HasRecord(u)'
    BY <1>4, <1>11 DEF HasRecord, Busy
  <2>5. \A u \in Loggers : call'[u].at # "published"
    BY <1>10, <2>4 DEF HasRecord
  <2>6. QED
    BY <1>1, <1>10, <2>2, <2>3, <2>4, <2>5
<1>14. QED
  BY <1>9, <1>91, <1>12, <1>13 DEF LedgerInv

LEMMA PublishedIsGood ==
  ASSUME LedgerInv, NEW t \in Loggers, PublishHash(t)
  PROVE  LedgerInv'
<1> PICK r : r = call[t].record
  OBVIOUS
<1>1. /\ call[t].at = "linked"
      /\ events' = events /\ kind' = kind /\ counter' = counter /\ past' = past /\ lastHash' = r.hash
      /\ call' = [call EXCEPT ![t].at = "published"]
  BY DEF PublishHash
<1>2. LedgerShape /\ counter \in Nat /\ DOMAIN call = Loggers /\ GoodCall(t)
  BY DEF LedgerInv, LedgerShape
<1>3. /\ DOMAIN call[t] = {"at", "record"} /\ GoodRecord(r) /\ r.hash = ComputeEventHash(r, r.prev)
      /\ HasRecord(t) /\ Busy(t) /\ NumberOf(t) = r.seq /\ t \in Underway
  BY <1>1, <1>2 DEF GoodCall, HasRecord, Idle, Busy, NumberOf, Underway
<1>4. /\ call'[t].at = "published" /\ call'[t].record = r /\ DOMAIN call'[t] = {"at", "record"}
      /\ DOMAIN call' = Loggers /\ \A u \in Loggers \ {t} : call'[u] = call[u]
  BY <1>1, <1>2, <1>3
<1>5. GoodCall(t)'
  <2>1. GoodRecord(r)'
    BY <1>1, <1>2, <1>3, RecordStays
  <2>2. GoodRecord(call[t].record)'
    BY <1>4, <2>1 DEF GoodRecord
  <2>3. QED
    BY <1>3, <1>4, <2>2 DEF GoodCall, HasRecord, ComputeEventHash
<1>6. Busy(t)' /\ (NumberOf(t))' = NumberOf(t) /\ HasRecord(t)'
  BY <1>3, <1>4 DEF Busy, NumberOf, HasRecord
<1>7. /\ IsSequence(events)' /\ LedgerShape' /\ NumbersCount' /\ FromTheFirst' /\ LedgerTells'
      /\ Underway' = Underway
      /\ \A u \in Loggers \ {t} : (NumberOf(u))' = NumberOf(u) /\ (Busy(u)' <=> Busy(u))
  BY <1>1, <1>3, <1>4, <1>5, <1>6, MovingCallKeeps
<1>71. NumbersDiffer' /\ OneAtATime'
  BY <1>1, <1>4, <1>6, <1>7, NumbersKept
<1>8. ~past.raced => \A u \in Loggers \ {t} : ~Busy(u)
  BY <1>3 DEF LedgerInv, OneAtATime, Underway
<1>9. lastHash' # Genesis
  BY <1>1, <1>3 DEF ComputeEventHash, Genesis
<1>10. GenesisIsFirst'
  <2> SUFFICES ASSUME ~past.raced
               PROVE  /\ \A i \in DOMAIN events' : events'[i].prev = Genesis => events'[i].seq = 1
                      /\ \A u \in Loggers : HasRecord(u)' /\ call'[u].record.prev = Genesis => call'[u].record.seq = 1
    BY <1>1, <1>9 DEF GenesisIsFirst
  <2>1. \A i \in DOMAIN events' : events'[i].prev = Genesis => events'[i].seq = 1
    BY <1>1 DEF LedgerInv, GenesisIsFirst
  <2>2. r.prev = Genesis => r.seq = 1
    BY <1>3 DEF LedgerInv, GenesisIsFirst
  <2>3. \A u \in Loggers \ {t} : ~HasRecord(u)'
    BY <1>4, <1>8 DEF HasRecord, Busy
  <2>4. QED
    BY <1>4, <2>1, <2>2, <2>3
<1>11. LinksAreLatest'
  <2> SUFFICES ASSUME ~past.raced, past.touched = "no"
               PROVE  \A u \in Loggers : HasRecord(u)' => /\ call'[u].record.prev = LatestHash'
                                                          /\ lastHash' = call'[u].record.hash
    BY <1>1, <1>4 DEF LinksAreLatest, HasRecord
  <2>1. r.prev = LatestHash
    BY <1>3 DEF LedgerInv, LinksAreLatest
  <2>2. LatestHash' = LatestHash
    BY <1>1 DEF LatestHash
  <2>3. \A u \in Loggers \ {t} : ~HasRecord(u)'
    BY <1>4, <1>8 DEF HasRecord, Busy
  <2>4. QED
    BY <1>1, <1>4, <2>1, <2>2, <2>3
<1>12. QED
  BY <1>7, <1>71, <1>10, <1>11 DEF LedgerInv

\* The verdict on any sequence of records.
VerdictOn(k, s) ==
  \A i \in DOMAIN s :
    /\ k = "ledger" => s[i].seq = s[1].seq + i - 1
    /\ IF i > 1 THEN s[i].prev = s[i - 1].hash ELSE k = "ledger" => s[i].prev = Genesis
    /\ s[i].hash = <<s[i].seq, s[i].details, s[i].prev>>
    /\ k = "ledger" => s[i].signature \in {Unsigned, SignHash(s[i].hash)}

LEMMA VerdictIs ==
  /\ VerifyIntegrity <=> VerdictOn(kind, events)
  /\ VerifyIntegrity' <=> VerdictOn(kind', events')
<1>1. VerifyIntegrity <=> VerdictOn(kind, events)
  BY DEF VerifyIntegrity, VerdictOn, NumberHolds, LinkHolds, HashHolds, SignatureHolds, VerifySignature, ComputeEventHash
<1>2. VerifyIntegrity' <=> VerdictOn(kind', events')
  BY DEF VerifyIntegrity, VerdictOn, NumberHolds, LinkHolds, HashHolds, SignatureHolds, VerifySignature, ComputeEventHash
<1>3. QED
  BY <1>1, <1>2

LEMMA AppendedIsGood ==
  ASSUME LedgerInv, NEW t \in Loggers, AppendRecord(t)
  PROVE  LedgerInv'
<1> PICK r : r = call[t].record
  OBVIOUS
<1> PICK s : s = events
  OBVIOUS
<1> PICK k : k = kind
  OBVIOUS
<1> PICK grown : grown = Append(s, r)
  OBVIOUS
<1> PICK n : n = Len(s)
  OBVIOUS
<1> PICK o : o = IF k = "ledger" /\ n + 1 > MaxRecords THEN 1 ELSE 0
  OBVIOUS
<1>1. LedgerShape /\ counter \in Nat /\ DOMAIN call = Loggers /\ GoodCall(t) /\ IsSequence(s)
  BY DEF LedgerInv, LedgerShape
<1>2. n \in Nat /\ DOMAIN s = 1 .. n /\ (s = <<>> <=> n = 0)
  BY <1>1, SequenceLength
<1>3. /\ IsSequence(grown) /\ Len(grown) = n + 1 /\ DOMAIN grown = 1 .. n + 1
      /\ grown[n + 1] = r /\ \A i \in 1 .. n : grown[i] = s[i]
  <2>1. IsGrown(grown, s, r)
    BY <1>1, Grown
  <2>2. QED
    BY <2>1, Zenon DEF IsGrown
<1>4. /\ call[t].at = "published"
      /\ kind' = kind /\ counter' = counter /\ lastHash' = lastHash
      /\ call' = [call EXCEPT ![t] = Idle]
  BY DEF AppendRecord
<1>5. /\ events' = IF o = 1 THEN Tail(grown) ELSE grown
      /\ past' = [past EXCEPT !.evicted = @ \/ o = 1]
  BY <1>3 DEF AppendRecord
<1>6. o \in {0, 1} /\ (o = 1 => k = "ledger" /\ n >= 1)
  BY <1>2, LedgersAssumption
<1>7. /\ IsSequence(events') /\ Len(events') = n + 1 - o /\ DOMAIN events' = 1 .. n + 1 - o
      /\ \A i \in 1 .. n + 1 - o : events'[i] = grown[i + o]
  <2>1. CASE o = 0
    <3>1. n + 1 - o = n + 1 /\ \A i \in 1 .. n + 1 : i + o = i
      BY <1>2, <2>1
    <3>2. events' = grown
      BY <1>5, <2>1
    <3>3. QED
      BY <1>3, <3>1, <3>2, Zenon
  <2>2. CASE o = 1
    <3>1. grown # <<>>
      BY <1>2, <1>3, SequenceLength
    <3>2. IsCut(Tail(grown), grown, 1)
      BY <1>3, <3>1, FirstCut
    <3>3. \A i \in 1 .. n : ~(i < 1)
      BY <1>2
    <3>4. IsSequence(Tail(grown)) /\ Len(Tail(grown)) = n /\ DOMAIN Tail(grown) = 1 .. n
          /\ \A i \in 1 .. n : Tail(grown)[i] = grown[i + 1]
      BY <1>2, <1>3, <3>2, <3>3 DEF IsCut
    <3>5. n + 1 - o = n /\ o = 1
      BY <1>2, <2>2
    <3>6. events' = Tail(grown)
      BY <1>5, <2>2
    <3>7. QED
      BY <3>4, <3>5, <3>6, Zenon
  <2>3. QED
    BY <1>6, <2>1, <2>2
<1>8. /\ GoodRecord(r) /\ r.hash = ComputeEventHash(r, r.prev)
      /\ HasRecord(t) /\ Busy(t) /\ NumberOf(t) = r.seq /\ t \in Underway
  BY <1>1, <1>4 DEF GoodCall, HasRecord, Idle, Busy, NumberOf, Underway
<1>9. call'[t] = Idle /\ DOMAIN call' = Loggers /\ \A u \in Loggers \ {t} : call'[u] = call[u]
  BY <1>1, <1>4
<1>10. GoodCall(t)' /\ ~Busy(t)' /\ ~HasRecord(t)' /\ call'[t].at = "idle"
  BY <1>9 DEF GoodCall, Busy, HasRecord, Idle
<1>11. \A u \in Loggers \ {t} :
        GoodCall(u)' /\ (NumberOf(u))' = NumberOf(u) /\ (Busy(u)' <=> Busy(u)) /\ (HasRecord(u)' <=> HasRecord(u))
  BY <1>1, <1>4, <1>9, CallStays
<1>12. Underway' = Underway \ {t}
  BY <1>8, <1>10, <1>11 DEF Underway
<1>13. Cardinality(Underway') = Cardinality(Underway) - 1 /\ Cardinality(Underway) \in Nat
  <2>1. IsFiniteSet(Underway)
    BY LedgersAssumption, FS_Subset DEF Underway
  <2>2. QED
    BY <1>8, <1>12, <2>1, FS_RemoveElement, FS_CardinalityType
<1>14. /\ past'.raced = past.raced /\ past'.touched = past.touched /\ past'.shared = past.shared
       /\ past'.evicted = (past.evicted \/ o = 1)
       /\ DOMAIN past' = DOMAIN past
  BY <1>1, <1>5 DEF LedgerShape
<1>15. \A i \in 1 .. n + 1 : GoodRecord(grown[i])
  <2>1. \A i \in 1 .. n : GoodRecord(s[i])
    BY <1>1, <1>2 DEF LedgerShape
  <2>2. QED
    BY <1>2, <1>3, <1>8, <2>1
<1>16. \A i \in 1 .. n + 1 - o : i + o \in 1 .. n + 1
  BY <1>2, <1>6
<1>17. LedgerShape'
  <2>1. ASSUME NEW i \in 1 .. n + 1 - o PROVE GoodRecord(events[i])'
    <3> PICK g : g = grown[i + o]
      OBVIOUS
    <3>1. GoodRecord(g)
      BY <1>15, <1>16
    <3>2. GoodRecord(g)'
      BY <1>1, <1>4, <3>1, RecordStays
    <3>3. events'[i] = g
      BY <1>7
    <3>4. QED
      BY <3>2, <3>3 DEF GoodRecord
  <2>2. past'.evicted \in BOOLEAN /\ past'.raced \in BOOLEAN /\ past'.shared \in BOOLEAN
    BY <1>1, <1>14 DEF LedgerShape
  <2>3. \A u \in Loggers : GoodCall(u)'
    BY <1>10, <1>11
  <2>4. Len(events') \in Nat
    BY <1>2, <1>6, <1>7
  <2>5. QED
    BY <1>1, <1>4, <1>7, <1>9, <1>14, <2>1, <2>2, <2>3, <2>4 DEF LedgerShape
<1>18. Counted' = Counted /\ Numbered' = Numbered \ {t} /\ t \in Numbered
  <2>1. t \notin Counted /\ t \notin Counted'
    BY <1>4, <1>10 DEF Counted
  <2>2. Counted' = Counted
    BY <1>9, <2>1 DEF Counted
  <2>3. QED
    BY <1>8, <1>12, <2>1, <2>2 DEF Numbered
<1>19. NumbersDiffer'
  <2> SUFFICES ASSUME ~past.shared
               PROVE  /\ \A i, j \in DOMAIN events' : events'[i].seq = events'[j].seq => i = j
                      /\ \A u \in Numbered' : \A i \in DOMAIN events' : events'[i].seq # (NumberOf(u))'
                      /\ \A u, v \in Numbered' : (NumberOf(u))' = (NumberOf(v))' => u = v
                      /\ \A u, v \in Counted' : u = v
                      /\ Counted' # {} => /\ \A i \in DOMAIN events' : events'[i].seq # counter'
                                          /\ \A u \in Numbered' : (NumberOf(u))' # counter'
    BY <1>14 DEF NumbersDiffer
  <2>0. /\ \A i, j \in 1 .. n : s[i].seq = s[j].seq => i = j
        /\ \A u \in Numbered : \A i \in 1 .. n : s[i].seq # NumberOf(u)
        /\ \A u, v \in Numbered : NumberOf(u) = NumberOf(v) => u = v
        /\ \A u, v \in Counted : u = v
        /\ Counted # {} => /\ \A i \in 1 .. n : s[i].seq # counter
                           /\ \A u \in Numbered : NumberOf(u) # counter
    BY <1>2 DEF LedgerInv, NumbersDiffer
  <2>9. \A i, j \in 1 .. n + 1 : grown[i].seq = grown[j].seq => i = j
    BY <1>2, <1>3, <1>8, <1>18, <2>0
  <2>1. \A i, j \in DOMAIN events' : events'[i].seq = events'[j].seq => i = j
    BY <1>2, <1>6, <1>7, <1>16, <2>9, SMTT(30)
  <2>2. \A u \in Numbered \ {t} : \A i \in 1 .. n + 1 : grown[i].seq # NumberOf(u)
    BY <1>2, <1>3, <1>8, <1>18, <2>0
  <2>3. \A u \in Numbered \ {t} : (NumberOf(u))' = NumberOf(u)
    BY <1>11 DEF Numbered, Underway
  <2>4. \A u \in Numbered' : \A i \in DOMAIN events' : events'[i].seq # (NumberOf(u))'
    BY <1>7, <1>16, <1>18, <2>2, <2>3
  <2>5. \A u, v \in Numbered' : (NumberOf(u))' = (NumberOf(v))' => u = v
    BY <1>18, <2>0, <2>3
  <2>6. Counted # {} => \A i \in 1 .. n + 1 : grown[i].seq # counter
    BY <1>2, <1>3, <1>8, <1>18, <2>0
  <2>7. Counted' # {} => \A i \in DOMAIN events' : events'[i].seq # counter'
    BY <1>4, <1>7, <1>16, <1>18, <2>6
  <2>8. Counted' # {} => \A u \in Numbered' : (NumberOf(u))' # counter'
    BY <1>4, <1>18, <2>0, <2>3
  <2>10. QED
    BY <1>18, <2>0, <2>1, <2>4, <2>5, <2>7, <2>8
<1>20. NumbersCount'
  <2>1. n + Cardinality(Underway) <= counter
        /\ (past.touched = "no" /\ ~past.evicted => n + Cardinality(Underway) = counter)
    BY DEF LedgerInv, NumbersCount
  <2>2. Len(events') + Cardinality(Underway') <= counter'
    BY <1>1, <1>2, <1>4, <1>6, <1>7, <1>13, <2>1
  <2>3. ASSUME past'.touched = "no", ~past'.evicted
        PROVE  Len(events') + Cardinality(Underway') = counter'
    <3>1. o = 0 /\ past.touched = "no" /\ ~past.evicted
      BY <1>6, <1>14, <2>3
    <3>2. QED
      <4>1. n + Cardinality(Underway) = counter
        BY <2>1, <3>1
      <4>2. Len(events') = n + 1
        BY <1>2, <1>7, <3>1
      <4>3. QED
        BY <1>2, <1>4, <1>13, <4>1, <4>2
  <2>4. QED
    BY <2>2, <2>3 DEF NumbersCount
<1>21. ASSUME ~past.raced
       PROVE  /\ Underway = {t} /\ r.seq = counter
              /\ \A u \in Loggers : ~Busy(u)' /\ ~HasRecord(u)' /\ call'[u].at = "idle"
  <2>1. Underway = {t} /\ r.seq = counter
    BY <1>8, <1>18, <1>21 DEF LedgerInv, OneAtATime
  <2>2. \A u \in Loggers : ~Busy(u)'
    BY <1>10, <1>11, <2>1 DEF Underway
  <2>3. \A u \in Loggers : call'[u].at = "idle"
    BY <2>2 DEF Busy
  <2>4. QED
    BY <2>1, <2>2, <2>3 DEF HasRecord
<1>22. OneAtATime'
  <2>1. ~past.raced => Underway' = {} /\ Numbered' = {}
    BY <1>12, <1>18, <1>21 DEF Numbered
  <2>2. QED
    BY <1>14, <2>1 DEF OneAtATime
<1>23. GenesisIsFirst'
  <2> SUFFICES ASSUME ~past.raced
               PROVE  /\ \A i \in DOMAIN events' : events'[i].prev = Genesis => events'[i].seq = 1
                      /\ \A u \in Loggers : ~HasRecord(u)'
                      /\ lastHash # Genesis
    BY <1>4, <1>14 DEF GenesisIsFirst
  <2>1. \A i \in 1 .. n + 1 : grown[i].prev = Genesis => grown[i].seq = 1
    BY <1>2, <1>3, <1>8 DEF LedgerInv, GenesisIsFirst
  <2>2. counter # 0
    BY <1>1, <1>8 DEF GoodRecord
  <2>3. \A u \in Loggers : call[u].at \notin {"counted", "numbered", "linked"}
    BY <1>4, <1>21 DEF Underway, Busy
  <2>4. lastHash # Genesis
    BY <2>2, <2>3 DEF LedgerInv, GenesisIsFirst
  <2>5. QED
    BY <1>7, <1>16, <1>21, <2>1, <2>4
<1>24. n + 1 - o \in 1 .. n + 1 - o /\ events'[n + 1 - o] = r
  <2>1. n + 1 - o \in 1 .. n + 1 - o /\ n + 1 - o + o = n + 1
    BY <1>2, <1>6
  <2>2. QED
    BY <1>3, <1>7, <2>1
<1>25. LinksAreLatest'
  <2> SUFFICES ASSUME ~past.raced, past.touched = "no"
               PROVE  /\ lastHash' = LatestHash'
                      /\ \A u \in Loggers : ~HasRecord(u)' /\ call'[u].at # "published"
    BY <1>14 DEF LinksAreLatest
  <2>1. lastHash = r.hash
    BY <1>4 DEF LedgerInv, LinksAreLatest
  <2>2. events' # <<>>
    BY <1>7, <1>24, SequenceLength
  <2>3. LatestHash' = events'[n + 1 - o].hash
    BY <1>7, <2>2 DEF LatestHash
  <2>4. QED
    BY <1>4, <1>21, <1>24, <2>1, <2>3
<1>26. FromTheFirst'
  <2> SUFFICES ASSUME ~past.raced, ~past'.evicted, past.touched = "no", NEW i \in 1 .. n + 1 - o
               PROVE  events'[i].seq = i /\ (i = 1 => events'[i].prev = Genesis)
    BY <1>7, <1>14 DEF FromTheFirst
  <2>1. o = 0 /\ ~past.evicted
    BY <1>6, <1>14
  <2>2. events'[i] = grown[i] /\ i \in 1 .. n + 1
    BY <1>2, <1>7, <2>1
  <2>3. CASE i \in 1 .. n
    BY <1>2, <1>3, <2>1, <2>2, <2>3 DEF LedgerInv, FromTheFirst
  <2>4. CASE i = n + 1
    <3>1. Cardinality(Underway) = 1
      BY <1>21, FS_Singleton
    <3>2. n + 1 = counter
      BY <2>1, <3>1 DEF LedgerInv, NumbersCount
    <3>3. r.prev = LatestHash
      BY <1>8 DEF LedgerInv, LinksAreLatest
    <3>4. n = 0 => r.prev = Genesis
      BY <1>2, <3>3 DEF LatestHash
    <3>5. QED
      BY <1>2, <1>3, <1>21, <2>2, <2>4, <3>2, <3>4
  <2>5. QED
    BY <1>2, <2>2, <2>3, <2>4
<1>27. VerdictOn(k, grown) => VerdictOn(k, s)
  <2> SUFFICES ASSUME VerdictOn(k, grown), NEW i \in 1 .. n
               PROVE  /\ k = "ledger" => s[i].seq = s[1].seq + i - 1
                      /\ IF i > 1 THEN s[i].prev = s[i - 1].hash ELSE k = "ledger" => s[i].prev = Genesis
                      /\ s[i].hash = <<s[i].seq, s[i].details, s[i].prev>>
                      /\ k = "ledger" => s[i].signature \in {Unsigned, SignHash(s[i].hash)}
    BY <1>2 DEF VerdictOn
  <2>1. i \in 1 .. n + 1 /\ grown[i] = s[i] /\ grown[1] = s[1] /\ (i > 1 => grown[i - 1] = s[i - 1])
    BY <1>2, <1>3
  <2>2. /\ k = "ledger" => grown[i].seq = grown[1].seq + i - 1
        /\ IF i > 1 THEN grown[i].prev = grown[i - 1].hash ELSE k = "ledger" => grown[i].prev = Genesis
        /\ grown[i].hash = <<grown[i].seq, grown[i].details, grown[i].prev>>
        /\ k = "ledger" => grown[i].signature \in {Unsigned, SignHash(grown[i].hash)}
    BY <1>3, <2>1 DEF VerdictOn
  <2>3. QED
    BY <2>1, <2>2
<1>28. LedgerTells'
  <2>1. ASSUME ~past.raced, VerifyIntegrity'
        PROVE  VerifyIntegrity
    <3>1. VerdictOn(k, events')
      BY <1>4, <2>1, VerdictIs
    <3>2. CASE o = 0
      <4>1. events' = grown
        BY <1>5, <3>2
      <4>2. VerdictOn(k, s)
        BY <1>27, <3>1, <4>1
      <4>3. QED
        BY <4>2, VerdictIs
    <3>3. CASE o = 1
      <4>1. k = "ledger" /\ n >= 1
        BY <1>6, <3>3
      <4>2. 1 \in DOMAIN events' /\ n \in DOMAIN events'
        BY <1>2, <1>7, <3>3, <4>1
      <4>3. ~(1 > 1)
        OBVIOUS
      <4>4. events'[1].prev = Genesis /\ events'[n].seq = events'[1].seq + n - 1
        BY <3>1, <4>1, <4>2, <4>3 DEF VerdictOn
      <4>5. events'[1].seq = 1
        BY <1>14, <1>23, <2>1, <4>2, <4>4 DEF GenesisIsFirst
      <4>6. events'[n] = r
        BY <1>2, <1>24, <3>3
      <4>7. counter = n
        BY <1>2, <1>21, <2>1, <4>4, <4>5, <4>6
      <4>8. n + 1 <= counter
        <5>1. Cardinality(Underway) = 1
          BY <1>21, <2>1, FS_Singleton
        <5>2. QED
          BY <5>1 DEF LedgerInv, NumbersCount
      <4>9. QED
        BY <1>1, <1>2, <4>7, <4>8
    <3>4. QED
      BY <1>6, <3>2, <3>3
  <2>2. ASSUME ~past.raced, ~past'.evicted, past.touched = "no"
        PROVE  VerifyIntegrity'
    <3>1. o = 0 /\ ~past.evicted
      BY <1>6, <1>14, <2>2
    <3>2. events' = grown
      BY <1>5, <3>1
    <3>3. VerifyIntegrity
      BY <2>2, <3>1 DEF LedgerInv, LedgerTells
    <3>4. VerdictOn(k, s)
      BY <3>3, VerdictIs
    <3>5. \A i \in 1 .. n + 1 : grown[i].seq = i /\ (i = 1 => grown[i].prev = Genesis)
      BY <1>3, <1>14, <1>26, <2>2, <3>2 DEF FromTheFirst
    <3>6. r.prev = LatestHash
      BY <1>8, <2>2 DEF LedgerInv, LinksAreLatest
    <3>7. ASSUME NEW i \in 1 .. n + 1
          PROVE  /\ k = "ledger" => grown[i].seq = grown[1].seq + i - 1
                 /\ IF i > 1 THEN grown[i].prev = grown[i - 1].hash ELSE k = "ledger" => grown[i].prev = Genesis
                 /\ grown[i].hash = <<grown[i].seq, grown[i].details, grown[i].prev>>
                 /\ k = "ledger" => grown[i].signature \in {Unsigned, SignHash(grown[i].hash)}
      <4>1. grown[i].seq = grown[1].seq + i - 1
        BY <1>2, <3>5, <3>7
      <4>2. grown[i].signature \in {Unsigned, SignHash(grown[i].hash)}
        BY <1>15 DEF GoodRecord
      <4>3. CASE i \in 1 .. n
        <5>1. grown[i] = s[i] /\ (i > 1 => grown[i - 1] = s[i - 1])
          BY <1>2, <1>3, <4>3
        <5>2. s[i].hash = <<s[i].seq, s[i].details, s[i].prev>> /\ (i > 1 => s[i].prev = s[i - 1].hash)
          BY <1>2, <3>4, <4>3 DEF VerdictOn
        <5>3. i = 1 \/ i > 1
          BY <1>2
        <5>4. QED
          BY <3>5, <4>1, <4>2, <5>1, <5>2, <5>3
      <4>4. CASE i = n + 1
        <5>1. grown[i] = r /\ r.hash = <<r.seq, r.details, r.prev>>
          BY <1>3, <1>8, <4>4 DEF ComputeEventHash
        <5>2. i > 1 => r.prev = grown[i - 1].hash
          <6>1. i > 1 => n \in 1 .. n /\ s # <<>> /\ i - 1 = n
            BY <1>2, <4>4
          <6>2. QED
            BY <1>3, <3>6, <6>1 DEF LatestHash
        <5>3. i = 1 \/ i > 1
          BY <1>2
        <5>4. QED
          BY <3>5, <4>1, <4>2, <5>1, <5>2, <5>3
      <4>5. QED
        BY <1>2, <4>3, <4>4
    <3>8. VerdictOn(k, grown)
      BY <1>3, <3>7 DEF VerdictOn
    <3>9. QED
      BY <1>4, <3>2, <3>8, VerdictIs
  <2>3. QED
    BY <1>4, <1>14, <2>1, <2>2 DEF LedgerInv, LedgerTells
<1>29. QED
  BY <1>7, <1>17, <1>19, <1>20, <1>22, <1>23, <1>25, <1>26, <1>28 DEF LedgerInv

\* Events that are touched: each of those left is one of before, with its number and its
\* link.
LEMMA TouchedKeeps ==
  ASSUME LedgerInv, kind' = kind, counter' = counter, lastHash' = lastHash, call' = call,
         past'.raced = past.raced, past'.shared = past.shared, past'.evicted = past.evicted,
         past'.touched # "no", DOMAIN past' = DOMAIN past,
         NEW n \in Nat, IsSequence(events'), Len(events') = n, DOMAIN events' = 1 .. n, n <= Len(events),
         NEW m \in [1 .. n -> DOMAIN events], \A i, j \in 1 .. n : m[i] = m[j] => i = j,
         \A i \in 1 .. n : /\ GoodRecord(events'[i])
                           /\ events'[i].seq = events[m[i]].seq /\ events'[i].prev = events[m[i]].prev,
         LedgerTells'
  PROVE  LedgerInv'
<1>1. LedgerShape /\ counter \in Nat /\ Len(events) \in Nat
  BY DEF LedgerInv, LedgerShape
<1>2. \A u \in Loggers : GoodCall(u)' /\ (NumberOf(u))' = NumberOf(u) /\ (Busy(u)' <=> Busy(u)) /\ (HasRecord(u)' <=> HasRecord(u))
  BY <1>1, CallStays
<1>3. LedgerShape'
  <2>1. ASSUME NEW i \in 1 .. n PROVE GoodRecord(events[i])'
    <3> PICK r : r = events'[i]
      OBVIOUS
    <3>1. GoodRecord(r)
      OBVIOUS
    <3>2. GoodRecord(r)'
      BY <1>1, <3>1, RecordStays
    <3>3. QED
      BY <3>2 DEF GoodRecord
  <2>2. QED
    BY <1>1, <1>2, <2>1 DEF LedgerShape
<1>4. Underway' = Underway /\ Counted' = Counted /\ Numbered' = Numbered
  BY <1>2 DEF Underway, Counted, Numbered
<1>5. \A u \in Underway : (NumberOf(u))' = NumberOf(u)
  BY <1>2 DEF Underway
<1>51. \A u \in Numbered : (NumberOf(u))' = NumberOf(u)
  BY <1>5 DEF Numbered
<1>6. NumbersDiffer'
  BY <1>4, <1>51 DEF LedgerInv, NumbersDiffer
<1>7. NumbersCount'
  <2>1. Len(events) + Cardinality(Underway) <= counter
    BY DEF LedgerInv, NumbersCount
  <2>2. Cardinality(Underway) \in Nat
    BY LedgersAssumption, FS_Subset, FS_CardinalityType DEF Underway
  <2>3. n + Cardinality(Underway) <= counter
    BY <1>1, <2>1, <2>2
  <2>4. QED
    BY <1>4, <2>3 DEF NumbersCount
<1>8. OneAtATime'
  BY <1>4, <1>51 DEF LedgerInv, OneAtATime
<1>9. GenesisIsFirst'
  BY <1>2 DEF LedgerInv, GenesisIsFirst
<1>10. LinksAreLatest' /\ FromTheFirst'
  BY DEF LinksAreLatest, FromTheFirst
<1>11. IsSequence(events)'
  BY DEF IsSequence
<1>12. QED
  BY <1>3, <1>6, <1>7, <1>8, <1>9, <1>10, <1>11 DEF LedgerInv

\* A hash is not the genesis hash, and tells its number.
LEMMA HashesDiffer ==
  ASSUME NEW a, NEW b, NEW c, NEW d, NEW e, NEW f
  PROVE  <<a, b, c>> # Genesis /\ (a # d => <<a, b, c>> # <<d, e, f>>)
BY DEF Genesis

\* Event i was replaced by one with its number and its link.
LEMMA ReplacedIsGood ==
  ASSUME LedgerInv, kind' = kind, counter' = counter, lastHash' = lastHash, call' = call,
         NEW i \in DOMAIN events, NEW e, GoodRecord(e), e.seq = events[i].seq, e.prev = events[i].prev,
         events' = [events EXCEPT ![i] = e],
         NEW how, how # "no", past' = [past EXCEPT !.touched = how], LedgerTells'
  PROVE  LedgerInv'
<1> PICK s : s = events
  OBVIOUS
<1> PICK n : n = Len(s)
  OBVIOUS
<1>1. /\ LedgerShape /\ n \in Nat /\ DOMAIN s = 1 .. n /\ IsSequence(s) /\ \A j \in 1 .. n : GoodRecord(s[j])
      /\ i \in 1 .. n
  BY DEF LedgerInv, LedgerShape
<1>4. /\ events' = [s EXCEPT ![i] = e] /\ DOMAIN events' = DOMAIN s
      /\ events'[i] = e /\ \A j \in 1 .. n : j # i => events'[j] = s[j]
  BY <1>1
<1>5. IsSequence(events') /\ Len(events') = n
  BY <1>1, <1>4, Changed, ZenonT(60)
<1>6. /\ past'.raced = past.raced /\ past'.shared = past.shared /\ past'.evicted = past.evicted
      /\ past'.touched # "no" /\ DOMAIN past' = DOMAIN past
  BY <1>1 DEF LedgerShape
<1> DEFINE m == [j \in 1 .. n |-> j]
<1>8. m \in [1 .. n -> DOMAIN events] /\ \A j \in 1 .. n : m[j] = j
  BY <1>1
<1> HIDE DEF m
<1>9. \A j \in 1 .. n : /\ GoodRecord(events'[j])
                        /\ events'[j].seq = events[m[j]].seq /\ events'[j].prev = events[m[j]].prev
  BY <1>1, <1>4, <1>8
<1>10. n <= Len(events) /\ DOMAIN events' = 1 .. n
  BY <1>1, <1>4
<1>11. \A j, l \in 1 .. n : m[j] = m[l] => j = l
  BY <1>8
<1>12. QED
  BY <1>1, <1>5, <1>6, <1>8, <1>9, <1>10, <1>11, TouchedKeeps, ZenonT(60)

LEMMA EditedIsGood ==
  ASSUME LedgerInv, VerifyIntegrity, past.touched = "no",
         kind' = kind, counter' = counter, lastHash' = lastHash, call' = call,
         NEW i \in DOMAIN events, events[i].details # <<>>,
         events' = [events EXCEPT ![i].details = <<>>],
         past' = [past EXCEPT !.touched = "edited"]
  PROVE  LedgerInv'
<1> PICK s : s = events
  OBVIOUS
<1> PICK e : e = [s[i] EXCEPT !.details = <<>>]
  OBVIOUS
<1>1. LedgerShape /\ GoodRecord(s[i])
  BY DEF LedgerInv, LedgerShape
<1>2. /\ DOMAIN e = RecordFields /\ e.details = <<>> /\ e.seq = s[i].seq /\ e.prev = s[i].prev
      /\ e.hash = s[i].hash /\ e.signature = s[i].signature
  BY <1>1 DEF GoodRecord, RecordFields
<1>3. GoodRecord(e)
  BY <1>1, <1>2 DEF GoodRecord, Scrubbed
<1>4. events' = [events EXCEPT ![i] = e] /\ DOMAIN events' = DOMAIN s /\ events'[i] = e
  OBVIOUS
<1>6. past'.touched = "edited"
  BY <1>1 DEF LedgerShape
<1>7. LedgerTells'
  <2>1. s[i].hash = <<s[i].seq, s[i].details, s[i].prev>>
    BY VerdictIs DEF VerdictOn
  <2>2. e.hash # <<e.seq, e.details, e.prev>>
    BY <1>2, <2>1
  <2>3. ~VerdictOn(kind', events')
    BY <1>4, <2>2 DEF VerdictOn
  <2>4. QED
    BY <1>6, <2>3, VerdictIs DEF LedgerTells
<1>12. QED
  BY <1>2, <1>3, <1>4, <1>7, ReplacedIsGood

\* Event i was forged: the next one goes on from the hash it had.
WasForged(i) ==
  /\ events[i].details # <<>>
  /\ events' = [events EXCEPT ![i] = Forged(@)]
  /\ past' = [past EXCEPT !.touched = IF i = Len(events) THEN "newest forged" ELSE "forged"]

LEMMA NothingIsScrubbed == Scrubbed(<<>>)
<1>1. <<>> \in Seq({}) /\ Len(<<>>) = 0
  BY EmptySeq
<1>2. DOMAIN <<>> = 1 .. 0
  BY <1>1, LenProperties
<1>3. \A x \in 1 .. 0 : FALSE
  OBVIOUS
<1>4. QED
  BY <1>2, <1>3 DEF Scrubbed

LEMMA ForgedIsGood ==
  ASSUME LedgerInv, VerifyIntegrity, past.touched = "no",
         kind' = kind, counter' = counter, lastHash' = lastHash, call' = call,
         NEW i \in DOMAIN events, WasForged(i)
  PROVE  LedgerInv'
<1> PICK s : s = events
  OBVIOUS
<1> PICK n : n = Len(s)
  OBVIOUS
<1> PICK e : e = Forged(s[i])
  OBVIOUS
<1> PICK how : how = IF i = n THEN "newest forged" ELSE "forged"
  OBVIOUS
<1>1. /\ LedgerShape /\ n \in Nat /\ DOMAIN s = 1 .. n /\ \A j \in 1 .. n : GoodRecord(s[j])
      /\ i \in 1 .. n
  BY DEF LedgerInv, LedgerShape
<1>2. /\ DOMAIN e = RecordFields /\ e.details = <<>> /\ e.seq = s[i].seq /\ e.prev = s[i].prev
      /\ e.hash = <<s[i].seq, <<>>, s[i].prev>> /\ e.signature = Unsigned
  BY <1>1 DEF GoodRecord, RecordFields, Forged, ComputeEventHash
<1>3. GoodRecord(e)
  <2>1. e.hash = <<e.seq, <<>>, e.prev>>
    BY <1>2
  <2>2. \E d : e.hash = <<e.seq, d, e.prev>>
    BY <2>1, Zenon
  <2>3. Scrubbed(e.details)
    BY <1>2, NothingIsScrubbed
  <2>4. e.seq \in 1 .. counter
    BY <1>1, <1>2 DEF GoodRecord
  <2>5. QED
    BY <1>2, <2>2, <2>3, <2>4 DEF GoodRecord
<1>4. /\ events' = [events EXCEPT ![i] = e] /\ DOMAIN events' = DOMAIN s
      /\ events'[i] = e /\ \A j \in 1 .. n : j # i => events'[j] = s[j]
  BY <1>1 DEF WasForged
<1>5. past' = [past EXCEPT !.touched = how]
  BY DEF WasForged
<1>6. past'.touched = how /\ how \in {"newest forged", "forged"}
  BY <1>1, <1>5 DEF LedgerShape
<1>7. ASSUME how = "forged"
      PROVE  ~VerdictOn(kind', events')
  <2>1. i + 1 \in 1 .. n /\ i + 1 > 1 /\ i + 1 # i /\ (i + 1) - 1 = i
    BY <1>1, <1>7
  <2>2. s[i].hash = <<s[i].seq, s[i].details, s[i].prev>> /\ s[i + 1].prev = s[i].hash
    BY <1>1, <2>1, VerdictIs DEF VerdictOn
  <2>3. s[i].details # <<>>
    BY DEF WasForged
  <2>4. s[i].hash # e.hash
    <3> PICK d : d = s[i].details
      OBVIOUS
    <3> PICK a : a = s[i].seq
      OBVIOUS
    <3> PICK z : z = s[i].prev
      OBVIOUS
    <3>1. s[i].hash = <<a, d, z>> /\ e.hash = <<a, <<>>, z>> /\ d # <<>>
      BY <1>2, <2>2, <2>3
    <3>2. \A x : x # <<>> => <<a, x, z>> # <<a, <<>>, z>>
      OBVIOUS
    <3>3. QED
      BY <3>1, <3>2, Zenon
  <2>5. events'[i + 1].prev = s[i].hash /\ events'[(i + 1) - 1].hash = e.hash
    BY <1>4, <2>1, <2>2
  <2>6. i + 1 \in DOMAIN events'
    BY <1>1, <1>4, <2>1
  <2>7. QED
    BY <2>1, <2>4, <2>5, <2>6 DEF VerdictOn
<1>8. LedgerTells'
  BY <1>6, <1>7, VerdictIs DEF LedgerTells
<1>9. QED
  BY <1>2, <1>3, <1>4, <1>5, <1>6, <1>8, ReplacedIsGood

\* Places of a sequence: element i is missing, in the middle or first, or in its
\* neighbour's place.
LEMMA CutPlaces ==
  ASSUME NEW n \in Nat, NEW i \in 1 .. n, NEW m, m = [j \in 1 .. n - 1 |-> IF j < i THEN j ELSE j + 1]
  PROVE  /\ m \in [1 .. n - 1 -> 1 .. n]
         /\ \A j \in 1 .. n - 1 : m[j] = IF j < i THEN j ELSE j + 1
         /\ \A j, l \in 1 .. n - 1 : m[j] = m[l] => j = l
<1>1. \A j \in 1 .. n - 1 : m[j] = IF j < i THEN j ELSE j + 1
  OBVIOUS
<1>2. QED
  BY <1>1

LEMMA SwapPlaces ==
  ASSUME NEW n \in Nat, NEW i \in 1 .. n, i + 1 \in 1 .. n, NEW m,
         m = [j \in 1 .. n |-> IF j = i THEN i + 1 ELSE IF j = i + 1 THEN i ELSE j]
  PROVE  /\ m \in [1 .. n -> 1 .. n]
         /\ \A j \in 1 .. n : m[j] = IF j = i THEN i + 1 ELSE IF j = i + 1 THEN i ELSE j
         /\ \A j, l \in 1 .. n : m[j] = m[l] => j = l
OBVIOUS

IsMiddle(i, n) ==
  /\ i - 1 \in 1 .. n - 1 /\ i \in 1 .. n - 1 /\ i > 1 /\ i + 1 > 1 /\ i + 1 \in 1 .. n
  /\ (i + 1) - 1 = i /\ i - 1 < i /\ ~(i < i) /\ i - 1 \in 1 .. n /\ i - 1 # i

LEMMA Middle ==
  ASSUME NEW n \in Nat, NEW i \in 1 .. n, i # n, i # 1
  PROVE  IsMiddle(i, n)
BY DEF IsMiddle

IsFirst(n) ==
  /\ 1 \in 1 .. n - 1 /\ 1 \in 1 .. n /\ 2 \in 1 .. n /\ 1 + 1 = 2 /\ 2 - 1 = 1 /\ 2 > 1
  /\ ~(1 < 1) /\ ~(1 > 1)

LEMMA First ==
  ASSUME NEW n \in Nat, n # 1, n # 0
  PROVE  IsFirst(n)
BY DEF IsFirst

LEMMA OneLess ==
  ASSUME NEW n \in Nat, NEW i \in 1 .. n
  PROVE  n - 1 \in Nat /\ n - 1 <= n
OBVIOUS

\* Event i was lost.
WasLost(i) ==
  /\ events' = RemoveAt(events, i)
  /\ past' = [past EXCEPT !.touched =
                IF i = Len(events) THEN "newest lost" ELSE IF i = 1 THEN "oldest lost" ELSE "lost"]

LEMMA LostIsGood ==
  ASSUME LedgerInv, VerifyIntegrity, past.touched = "no",
         kind' = kind, counter' = counter, lastHash' = lastHash, call' = call,
         NEW i \in DOMAIN events, WasLost(i)
  PROVE  LedgerInv'
<1> PICK s : s = events
  OBVIOUS
<1> PICK n : n = Len(s)
  OBVIOUS
<1>1. /\ LedgerShape /\ n \in Nat /\ DOMAIN s = 1 .. n /\ IsSequence(s) /\ \A j \in 1 .. n : GoodRecord(s[j])
      /\ i \in 1 .. n
  BY DEF LedgerInv, LedgerShape
<1> PICK m : m = [j \in 1 .. n - 1 |-> IF j < i THEN j ELSE j + 1]
  OBVIOUS
<1>2. /\ m \in [1 .. n - 1 -> 1 .. n]
      /\ \A j, l \in 1 .. n - 1 : m[j] = m[l] => j = l
  BY <1>1, CutPlaces
<1>3. \A j \in 1 .. n - 1 : m[j] = IF j < i THEN j ELSE j + 1
  BY <1>1, CutPlaces
<1>4. /\ IsSequence(events') /\ Len(events') = n - 1 /\ DOMAIN events' = 1 .. n - 1
      /\ \A j \in 1 .. n - 1 : events'[j] = IF j < i THEN s[j] ELSE s[j + 1]
  <2>1. IsCut(events', s, i)
    BY <1>1, OneCut DEF WasLost
  <2>2. QED
    BY <2>1, Zenon DEF IsCut
<1>5. \A j \in 1 .. n - 1 : events'[j] = s[m[j]]
  BY <1>3, <1>4
<1>6. /\ past'.raced = past.raced /\ past'.shared = past.shared /\ past'.evicted = past.evicted /\ DOMAIN past' = DOMAIN past
      /\ past'.touched = IF i = n THEN "newest lost" ELSE IF i = 1 THEN "oldest lost" ELSE "lost"
  BY <1>1 DEF LedgerShape, WasLost
<1>7. VerdictOn(kind, s)
  BY VerdictIs
<1>8. ASSUME i # n, i # 1, ~past.raced
      PROVE  ~VerdictOn(kind', events')
  <2>0. IsMiddle(i, n)
    BY <1>1, <1>8, Middle
  <2>1. /\ i - 1 \in 1 .. n - 1 /\ i \in 1 .. n - 1 /\ i > 1 /\ i + 1 > 1 /\ i + 1 \in 1 .. n
        /\ (i + 1) - 1 = i /\ i - 1 < i /\ ~(i < i) /\ i - 1 \in 1 .. n /\ i - 1 # i
    BY <2>0, Zenon DEF IsMiddle
  <2>2. events'[i] = s[i + 1] /\ events'[i - 1] = s[i - 1]
    BY <1>4, <2>1
  <2>3. s[i + 1].prev = s[i].hash
    BY <1>1, <1>7, <2>1 DEF VerdictOn
  <2>4. s[i].hash = <<s[i].seq, s[i].details, s[i].prev>>
    BY <1>1, <1>7 DEF VerdictOn
  <2>5. s[i - 1].hash = <<s[i - 1].seq, s[i - 1].details, s[i - 1].prev>>
    BY <1>1, <1>7, <2>1 DEF VerdictOn
  <2>6. s[i - 1].seq # s[i].seq
    BY <1>1, <1>8, <2>1 DEF LedgerInv, LedgerShape, NumbersDiffer
  <2>7. events'[i].prev # events'[i - 1].hash
    <3>1. <<s[i].seq, s[i].details, s[i].prev>> # <<s[i - 1].seq, s[i - 1].details, s[i - 1].prev>>
      BY <2>6, HashesDiffer, Zenon
    <3>2. QED
      BY <2>2, <2>3, <2>4, <2>5, <3>1, Zenon
  <2>8. QED
    BY <1>4, <2>1, <2>7 DEF VerdictOn
<1>9. ASSUME i # n, i = 1, kind = "ledger"
      PROVE  ~VerdictOn(kind', events')
  <2>0. IsFirst(n)
    <3>1. n # 1
      BY <1>9
    <3>0. n # 0
      BY <1>1
    <3>2. QED
      BY <1>1, <3>0, <3>1, First
  <2>1. 1 \in 1 .. n - 1 /\ 1 \in 1 .. n /\ 2 \in 1 .. n /\ 1 + 1 = 2 /\ 2 - 1 = 1 /\ 2 > 1 /\ ~(1 < 1) /\ ~(1 > 1)
    BY <2>0, Zenon DEF IsFirst
  <2>2. events'[1] = s[2]
    BY <1>4, <1>9, <2>1
  <2>3. s[2].prev = s[1].hash /\ s[1].hash = <<s[1].seq, s[1].details, s[1].prev>>
    BY <1>1, <1>7, <2>1 DEF VerdictOn
  <2>4. events'[1].prev # Genesis
    <3>1. <<s[1].seq, s[1].details, s[1].prev>> # Genesis
      BY HashesDiffer
    <3>2. QED
      BY <2>2, <2>3, <3>1, Zenon
  <2>5. QED
    BY <1>4, <1>9, <2>1, <2>4 DEF VerdictOn
<1>10. LedgerTells'
  <2>1. past'.touched = "lost" /\ ~past.raced => ~VerdictOn(kind', events')
    BY <1>6, <1>8
  <2>2. past'.touched = "oldest lost" /\ kind = "ledger" => ~VerdictOn(kind', events')
    BY <1>6, <1>9
  <2>3. QED
    BY <1>6, <2>1, <2>2, VerdictIs DEF LedgerTells
<1>11. \A j \in 1 .. n - 1 : /\ GoodRecord(events'[j])
                             /\ events'[j].seq = events[m[j]].seq /\ events'[j].prev = events[m[j]].prev
  BY <1>1, <1>2, <1>5
<1>12. past'.touched # "no"
  BY <1>6
<1>13. m \in [1 .. n - 1 -> DOMAIN events]
  BY <1>1, <1>2, Zenon
<1>14. n - 1 \in Nat /\ n - 1 <= n
  BY <1>1, OneLess
<1>15. n - 1 <= Len(events)
  BY <1>14, Zenon
<1>16. QED
  BY <1>1, <1>2, <1>4, <1>6, <1>10, <1>11, <1>12, <1>13, <1>14, <1>15, TouchedKeeps

\* Event i changed its place with the next one.
WasSwapped(i) ==
  /\ events' = [events EXCEPT ![i] = events[i + 1], ![i + 1] = events[i]]
  /\ past' = [past EXCEPT !.touched = "swapped"]

LEMMA SwappedIsGood ==
  ASSUME LedgerInv, VerifyIntegrity, past.touched = "no",
         kind' = kind, counter' = counter, lastHash' = lastHash, call' = call,
         NEW i \in DOMAIN events, i + 1 \in DOMAIN events, WasSwapped(i)
  PROVE  LedgerInv'
<1> PICK s : s = events
  OBVIOUS
<1> PICK n : n = Len(s)
  OBVIOUS
<1>1. /\ LedgerShape /\ n \in Nat /\ DOMAIN s = 1 .. n /\ IsSequence(s) /\ \A j \in 1 .. n : GoodRecord(s[j])
      /\ i \in 1 .. n /\ i + 1 \in 1 .. n /\ i # i + 1
  BY DEF LedgerInv, LedgerShape
<1>2. /\ DOMAIN events' = 1 .. n /\ events'[i] = s[i + 1] /\ events'[i + 1] = s[i]
      /\ \A j \in 1 .. n : j # i /\ j # i + 1 => events'[j] = s[j]
  BY <1>1 DEF WasSwapped
<1>21. PICK m : m = [j \in 1 .. n |-> IF j = i THEN i + 1 ELSE IF j = i + 1 THEN i ELSE j]
  OBVIOUS
<1>3. /\ m \in [1 .. n -> 1 .. n] /\ \A j, l \in 1 .. n : m[j] = m[l] => j = l
      /\ \A j \in 1 .. n : m[j] = IF j = i THEN i + 1 ELSE IF j = i + 1 THEN i ELSE j
  BY <1>1, <1>21, SwapPlaces
<1>4. \A j \in 1 .. n : events'[j] = s[m[j]]
  BY <1>1, <1>2, <1>3
<1>5. IsSequence(events') /\ Len(events') = n
  <2>1. events' = [j \in DOMAIN s |-> events'[j]]
    BY <1>1 DEF WasSwapped
  <2>2. QED
    BY <1>1, <1>2, <2>1, Changed
<1>6. /\ past'.raced = past.raced /\ past'.shared = past.shared /\ past'.evicted = past.evicted /\ past'.touched = "swapped"
      /\ DOMAIN past' = DOMAIN past
  BY <1>1 DEF LedgerShape, WasSwapped
<1>7. VerdictOn(kind, s)
  BY VerdictIs
<1>8. s[i].hash = <<s[i].seq, s[i].details, s[i].prev>> /\ s[i + 1].hash = <<s[i + 1].seq, s[i + 1].details, s[i + 1].prev>>
  BY <1>1, <1>7 DEF VerdictOn
<1>9. s[i + 1].prev = s[i].hash
  <2>1. i + 1 > 1 /\ (i + 1) - 1 = i
    BY <1>1
  <2>2. QED
    BY <1>1, <1>7, <2>1 DEF VerdictOn
<1>10. ASSUME ~past.raced
       PROVE  ~VerdictOn(kind', events')
  <2>1. CASE i > 1
    <3>1. i - 1 \in 1 .. n /\ i - 1 # i /\ i - 1 # i + 1
      BY <1>1, <2>1
    <3>2. events'[i - 1] = s[i - 1] /\ s[i - 1].hash = <<s[i - 1].seq, s[i - 1].details, s[i - 1].prev>>
      BY <1>1, <1>2, <1>7, <3>1 DEF VerdictOn
    <3>3. s[i - 1].seq # s[i].seq
      BY <1>1, <1>10, <3>1 DEF LedgerInv, LedgerShape, NumbersDiffer
    <3>4. events'[i].prev # events'[i - 1].hash
      BY <1>2, <1>8, <1>9, <3>2, <3>3
    <3>5. QED
      BY <1>1, <1>2, <2>1, <3>4 DEF VerdictOn
  <2>2. CASE ~(i > 1)
    <3>1. i = 1 /\ i + 1 = 2 /\ 1 \in 1 .. n /\ 2 \in 1 .. n /\ 2 > 1 /\ 2 - 1 = 1
      BY <1>1, <2>2
    <3>2. ~past.evicted => s[1].prev = Genesis
      BY <1>1, <1>10, <3>1 DEF LedgerInv, FromTheFirst
    <3>3. kind = "ledger" => s[1].prev = Genesis
      BY <1>1, <1>7, <2>2, <3>1 DEF VerdictOn
    <3>4. s[1].prev = Genesis
      BY <1>1, <3>2, <3>3 DEF LedgerShape
    <3>5. events'[2].prev = Genesis /\ events'[1].hash # Genesis
      <4>1. <<s[i + 1].seq, s[i + 1].details, s[i + 1].prev>> # Genesis
        BY HashesDiffer
      <4>2. s[i + 1].hash # Genesis
        BY <1>8, <4>1, Zenon
      <4>3. QED
        BY <1>2, <3>1, <3>4, <4>2, Zenon
    <3>6. QED
      BY <1>2, <3>1, <3>5 DEF VerdictOn
  <2>3. QED
    BY <2>1, <2>2
<1>11. LedgerTells'
  BY <1>6, <1>10, VerdictIs DEF LedgerTells
<1>12. \A j \in 1 .. n : /\ GoodRecord(events'[j])
                         /\ events'[j].seq = events[m[j]].seq /\ events'[j].prev = events[m[j]].prev
  BY <1>1, <1>3, <1>4
<1>13. past'.touched # "no"
  BY <1>6
<1>14. m \in [1 .. n -> DOMAIN events]
  BY <1>1, <1>3, Zenon
<1>15. n <= Len(events)
  BY <1>1
<1>16. n \in Nat /\ DOMAIN events' = 1 .. n /\ \A j, l \in 1 .. n : m[j] = m[l] => j = l
  BY <1>1, <1>2, <1>3, Zenon
<1>17. past'.raced = past.raced /\ past'.shared = past.shared /\ past'.evicted = past.evicted /\ DOMAIN past' = DOMAIN past
  BY <1>6, Zenon
<1>18. QED
  BY <1>5, <1>11, <1>12, <1>13, <1>14, <1>15, <1>16, <1>17, TouchedKeeps

\* What touches a ledger that verified leaves a good one.
LEMMA TouchIsGood == LedgerInv /\ Touch => LedgerInv'
<1> SUFFICES ASSUME LedgerInv, Touch
             PROVE  LedgerInv'
  OBVIOUS
<1>1. /\ past.touched = "no" /\ VerifyIntegrity
      /\ kind' = kind /\ counter' = counter /\ lastHash' = lastHash /\ call' = call
  BY DEF Touch
<1>2. PICK i \in DOMAIN events :
        \/ /\ events[i].details # <<>>
           /\ events' = [events EXCEPT ![i].details = <<>>]
           /\ past' = [past EXCEPT !.touched = "edited"]
        \/ WasForged(i)
        \/ WasLost(i)
        \/ i + 1 \in DOMAIN events /\ WasSwapped(i)
  BY Zenon DEF Touch, WasForged, WasLost, WasSwapped
<1>3. CASE /\ events[i].details # <<>>
           /\ events' = [events EXCEPT ![i].details = <<>>]
           /\ past' = [past EXCEPT !.touched = "edited"]
  BY <1>1, <1>3, EditedIsGood, Zenon
<1>4. CASE WasLost(i)
  BY <1>1, <1>4, LostIsGood, Zenon
<1>5. CASE i + 1 \in DOMAIN events /\ WasSwapped(i)
  BY <1>1, <1>5, SwappedIsGood, Zenon
<1>6. CASE WasForged(i)
  BY <1>1, <1>6, ForgedIsGood, Zenon
<1>7. QED
  BY <1>2, <1>3, <1>4, <1>5, <1>6, Zenon

\* A ledger that nobody wrote to yet.
EmptyLedger ==
  /\ kind \in {"ledger", "auth"} /\ events = <<>> /\ counter = 0 /\ lastHash = Genesis
  /\ DOMAIN call = Loggers /\ \A t \in Loggers : call[t] = Idle
  /\ past = Untouched

LEMMA EmptyIsGood == EmptyLedger => LedgerInv
<1> SUFFICES ASSUME EmptyLedger
             PROVE  LedgerInv
  OBVIOUS
<1> USE DEF EmptyLedger
<1>1. events \in Seq({}) /\ Len(events) = 0 /\ DOMAIN events = 1 .. 0 /\ DOMAIN events = {}
  <2>1. <<>> \in Seq({}) /\ Len(<<>>) = 0
    BY EmptySeq
  <2>2. DOMAIN events = 1 .. 0
    BY <2>1, LenProperties
  <2>3. QED
    BY <2>1, <2>2
<1>2. /\ DOMAIN call = Loggers /\ \A t \in Loggers : call[t] = Idle
      /\ \A t \in Loggers : call[t].at = "idle"
  BY DEF Idle
<1>3. \A t \in Loggers : ~Busy(t) /\ ~HasRecord(t) /\ GoodCall(t)
  BY <1>2 DEF Busy, HasRecord, GoodCall
<1>4. Underway = {} /\ Numbered = {} /\ Counted = {}
  BY <1>2, <1>3 DEF Underway, Numbered, Counted
<1>5. /\ DOMAIN past = {"raced", "shared", "evicted", "touched"}
      /\ past.raced = FALSE /\ past.shared = FALSE /\ past.evicted = FALSE /\ past.touched = "no"
  BY DEF Untouched
<1>6. LedgerShape
  BY <1>1, <1>2, <1>3, <1>5 DEF LedgerShape
<1>7. NumbersDiffer /\ OneAtATime
  BY <1>1, <1>4 DEF NumbersDiffer, OneAtATime
<1>8. NumbersCount
  <2>1. Cardinality(Underway) = 0
    BY <1>4, FS_EmptySet
  <2>2. QED
    BY <1>1, <2>1 DEF NumbersCount
<1>9. GenesisIsFirst /\ LinksAreLatest /\ FromTheFirst
  BY <1>1, <1>2, <1>3 DEF GenesisIsFirst, LinksAreLatest, FromTheFirst, LatestHash
<1>10. LedgerTells
  BY <1>1, <1>5 DEF LedgerTells, VerifyIntegrity
<1>11. IsSequence(events)
  BY <1>1 DEF IsSequence
<1>12. QED
  BY <1>6, <1>7, <1>8, <1>9, <1>10, <1>11 DEF LedgerInv

\* Only an idle ledger is reset.
LEMMA ResetIsGood == LedgerInv /\ Reset => LedgerInv'
<1>1. LedgerInv /\ Reset => EmptyLedger'
  <2> SUFFICES ASSUME LedgerInv, Reset
               PROVE  EmptyLedger'
    OBVIOUS
  <2>1. /\ kind' \in {"ledger", "auth"} /\ events' = <<>> /\ counter' = 0 /\ lastHash' = Genesis
        /\ past' = Untouched
    BY DEF Reset
  <2>2. call' = call /\ DOMAIN call = Loggers /\ \A t \in Loggers : GoodCall(t) /\ ~Busy(t)
    BY DEF LedgerInv, LedgerShape, Reset
  <2>3. \A t \in Loggers : call[t] = Idle
    BY <2>2 DEF GoodCall, HasRecord, Busy
  <2>4. QED
    BY <2>1, <2>2, <2>3 DEF EmptyLedger
<1>2. QED
  BY <1>1, EmptyIsGood, PTL

\* What the good ledger says of itself.
LEMMA LedgerInvHolds == LedgerInv => LedgerHolds
<1> SUFFICES ASSUME LedgerInv
             PROVE  LedgerHolds
  OBVIOUS
<1>1. EveryEventIsNumberedOnce
  BY DEF LedgerInv, NumbersDiffer, NumbersCount, EveryEventIsNumberedOnce, Underway
<1>2. SecretsAreScrubbed
  BY DEF LedgerInv, LedgerShape, GoodRecord, Scrubbed, SecretsAreScrubbed
<1>3. QED
  BY <1>1, <1>2 DEF LedgerInv, LedgerHolds

LEMMA StillIsGood ==
  ASSUME LedgerInv, kind' = kind, events' = events, counter' = counter, lastHash' = lastHash, call' = call,
         past' = past
  PROVE  LedgerInv'
<1>1. \A t \in Loggers : GoodCall(t)' /\ (NumberOf(t))' = NumberOf(t) /\ (Busy(t)' <=> Busy(t)) /\ (HasRecord(t)' <=> HasRecord(t))
  BY CallStays DEF LedgerInv, LedgerShape
<1>2. \A r : GoodRecord(r) => GoodRecord(r)'
  BY DEF GoodRecord, Scrubbed
<1>3. LedgerShape'
  BY <1>1, <1>2 DEF LedgerInv, LedgerShape
<1>4. Underway' = Underway /\ Numbered' = Numbered /\ Counted' = Counted /\ LatestHash' = LatestHash
  BY DEF Underway, Numbered, Counted, Busy, LatestHash
<1>5. NumbersDiffer' /\ OneAtATime'
  BY <1>1, <1>4 DEF LedgerInv, NumbersDiffer, OneAtATime, Underway, Numbered
<1>6. NumbersCount' /\ FromTheFirst'
  BY <1>4 DEF LedgerInv, NumbersCount, FromTheFirst
<1>7. GenesisIsFirst' /\ LinksAreLatest'
  BY <1>1, <1>4 DEF LedgerInv, GenesisIsFirst, LinksAreLatest
<1>8. LedgerTells'
  BY VerdictIs DEF LedgerInv, LedgerTells
<1>9. IsSequence(events)'
  BY DEF LedgerInv, IsSequence
<1>10. QED
  BY <1>3, <1>5, <1>6, <1>7, <1>8, <1>9 DEF LedgerInv

LEMMA LedgerStep == LedgerInv /\ [LedgerNext]_ledgerVars => LedgerInv'
<1> SUFFICES ASSUME LedgerInv, [LedgerNext]_ledgerVars
             PROVE  LedgerInv'
  OBVIOUS
<1>0. ASSUME NEW t \in Loggers, NEW d \in Details, CountEvent(t, d) \/ NameEvent(t, d)
      PROVE  LedgerInv'
  BY <1>0, CountedIsGood, NamedIsGood
<1>1. ASSUME NEW t \in Loggers, TakeNumber(t)
      PROVE  LedgerInv'
  BY <1>1, NumberedIsGood
<1>2. ASSUME NEW t \in Loggers, Link(t)
      PROVE  LedgerInv'
  BY <1>2, LinkedIsGood
<1>3. ASSUME NEW t \in Loggers, PublishHash(t)
      PROVE  LedgerInv'
  BY <1>3, PublishedIsGood
<1>4. ASSUME NEW t \in Loggers, AppendRecord(t)
      PROVE  LedgerInv'
  BY <1>4, AppendedIsGood
<1>5. CASE Touch
  BY <1>5, TouchIsGood
<1>6. CASE Reset
  BY <1>6, ResetIsGood
<1>7. CASE UNCHANGED ledgerVars
  <2>1. /\ kind' = kind /\ events' = events /\ counter' = counter /\ lastHash' = lastHash /\ call' = call
        /\ past' = past
    BY <1>7 DEF ledgerVars
  <2>2. QED
    BY <2>1, StillIsGood
<1>8. QED
  BY <1>0, <1>1, <1>2, <1>3, <1>4, <1>5, <1>6, <1>7 DEF LedgerNext

\* What the two audit ledgers tell of themselves (common/audit_logger.py and
\* identity/auth_audit.py), for any number of threads, of records kept and of events: a
\* ledger written one call at a time verifies while it dropped nothing and was not
\* touched, and does not once an event was edited, one other than the newest forged or
\* lost, or two put out of order; however the calls of threads mix, no event is lost, and
\* none is numbered twice until two calls stand between counting and taking a number; and
\* no text under a secret's name is kept, but in a list of the authentication ledger.
THEOREM LedgersHold == LedgerSpec => []LedgerHolds
<1>1. LedgerInit => EmptyLedger
  BY DEF LedgerInit, EmptyLedger
<1>2. QED
  BY <1>1, EmptyIsGood, LedgerStep, LedgerInvHolds, PTL DEF LedgerSpec

-----------------------------------------------------------------------------
(* Session tokens.  The heart of the argument is the ledger of a family:   *)
(* while the service knows a family, each of its pairs is its current one  *)
(* or one whose token was exchanged, and whatever was exchanged for        *)
(* something is in usedJtis.  A restart forgets families, and no family is *)
(* ever opened again, because it is named after the pair of its login.     *)

\* What was issued stays a consistent forest: pairs name issued families.
Issued ==
  /\ clock > 0
  /\ \A p \in issued : family[p] \in issued /\ iat[p] <= clock
  /\ tokenFamilies \subseteq issued

\* The ledger of a family.
Ledger ==
  /\ \A f \in Pairs : \A p \in usedJtis[f] : p \in issued /\ family[p] = f
  /\ \A f \in tokenFamilies : currentJti[f] \in issued
  /\ \A p \in issued : family[p] \in tokenFamilies =>
       p = currentJti[family[p]] \/ p \in usedJtis[family[p]]

\* What a pair was exchanged for is known to be used.
Exchanges ==
  \A p \in issued : parent[p] # NoPair /\ family[p] \in tokenFamilies =>
    parent[p] \in usedJtis[family[p]]

\* A replay is remembered for as long as its family.
Replays == replayed \subseteq issued /\ replayed \cap tokenFamilies \subseteq compromised

\* The key of a live pair is active, or was so when the pair was issued.
Signed ==
  \A p \in issued : family[p] \in tokenFamilies =>
    \/ kid[p] = activeKey
    \/ retiredAt[kid[p]] # 0 /\ iat[p] <= retiredAt[kid[p]]

TokenInv ==
  /\ TypeOK /\ Issued /\ Ledger /\ Exchanges /\ Replays /\ Signed
  /\ SessionKeepsUser /\ ExchangedOnce

LEMMA TokensBegin == Init => TokenInv
  BY ConstantsOK DEF Init, TokenInv, TypeOK, Issued, Ledger, Exchanges, Replays, Signed,
     SessionKeepsUser, ExchangedOnce

\* The steps that issue nothing and leave the pairs and the ledgers alone.
LEMMA QuietKeeps ==
  ASSUME TokenInv, TypeOK', UNCHANGED pairVars, UNCHANGED tokenFamilies, UNCHANGED currentJti,
         UNCHANGED usedJtis, clock' >= clock, Replays', Signed'
  PROVE  TokenInv'
  BY DEF TokenInv, TypeOK, Issued, Ledger, Exchanges, SessionKeepsUser, ExchangedOnce, pairVars

-----------------------------------------------------------------------------
(* Issuing *)

\* Issuing a new pair changes nothing about the others.
LEMMA IssueShape ==
  ASSUME TokenInv, NEW p \in Pairs \ issued, NEW u \in Users, NEW f \in Pairs,
         NEW q \in Pairs \cup {NoPair}, issueTokenPair(p, u, f, q), UNCHANGED keyVars,
         UNCHANGED clock
  PROVE  /\ issued' = issued \cup {p}
         /\ sub'[p] = u /\ family'[p] = f /\ iat'[p] = clock /\ kid'[p] = activeKey
         /\ parent'[p] = q
         /\ \A o \in issued : /\ sub'[o] = sub[o] /\ family'[o] = family[o] /\ iat'[o] = iat[o]
                              /\ kid'[o] = kid[o] /\ parent'[o] = parent[o]
         /\ tokenFamilies' = tokenFamilies \cup {f}
         /\ currentJti'[f] = p
         /\ \A g \in Pairs \ {f} : currentJti'[g] = currentJti[g]
  BY DEF TokenInv, TypeOK, issueTokenPair

LEMMA LoginKeeps ==
  ASSUME TokenInv, NEW u \in Users, NEW p \in Pairs, Login(u, p) PROVE TokenInv'
<1> USE DEF Login
<1>1. TypeOK'
  BY ConstantsOK DEF TokenInv, TypeOK, issueTokenPair, revocations, keyVars
<1>2. /\ issued' = issued \cup {p} /\ p \notin issued
      /\ sub'[p] = u /\ family'[p] = p /\ iat'[p] = clock /\ kid'[p] = activeKey
      /\ parent'[p] = NoPair
      /\ \A o \in issued : /\ sub'[o] = sub[o] /\ family'[o] = family[o] /\ iat'[o] = iat[o]
                           /\ kid'[o] = kid[o] /\ parent'[o] = parent[o]
      /\ tokenFamilies' = tokenFamilies \cup {p}
      /\ currentJti'[p] = p
      /\ \A g \in Pairs \ {p} : currentJti'[g] = currentJti[g]
  BY IssueShape
<1>3. UNCHANGED <<clock, usedJtis, compromised, replayed, activeKey, retiredAt>>
  BY DEF keyVars
<1>4. \A o \in issued : family[o] # p /\ o # p
  BY <1>2 DEF TokenInv, Issued
<1>5. Issued'
  BY <1>2, <1>3, <1>4 DEF TokenInv, TypeOK, Issued
<1>6. Ledger'
  BY <1>1, <1>2, <1>3, <1>4 DEF TokenInv, TypeOK, Issued, Ledger
<1>7. Exchanges'
  BY <1>2, <1>3, <1>4 DEF TokenInv, TypeOK, Exchanges
<1>8. Replays' /\ Signed'
  BY <1>2, <1>3, <1>4 DEF TokenInv, TypeOK, Replays, Signed
<1>9. SessionKeepsUser' /\ ExchangedOnce'
  BY <1>2, <1>3, <1>4 DEF TokenInv, TypeOK, SessionKeepsUser, ExchangedOnce
<1>10. QED
  BY <1>1, <1>5, <1>6, <1>7, <1>8, <1>9 DEF TokenInv

LEMMA RefreshKeeps ==
  ASSUME TokenInv, NEW r \in Pairs, NEW p \in Pairs, Refresh(r, p) PROVE TokenInv'
<1> USE DEF Refresh
<1>0. /\ r \in issued /\ p \notin issued /\ family[r] \in tokenFamilies /\ family[r] \in Pairs
      /\ r \notin usedJtis[family[r]] /\ family[r] \notin compromised /\ sub[r] \in Users
  BY DEF TokenInv, TypeOK, Exchangeable, RefreshVerifies
<1>1. TypeOK'
  BY <1>0, ConstantsOK DEF TokenInv, TypeOK, issueTokenPair, keyVars
<1>2. /\ issued' = issued \cup {p}
      /\ sub'[p] = sub[r] /\ family'[p] = family[r] /\ iat'[p] = clock /\ kid'[p] = activeKey
      /\ parent'[p] = r
      /\ \A o \in issued : /\ sub'[o] = sub[o] /\ family'[o] = family[o] /\ iat'[o] = iat[o]
                           /\ kid'[o] = kid[o] /\ parent'[o] = parent[o]
      /\ tokenFamilies' = tokenFamilies \cup {family[r]}
      /\ currentJti'[family[r]] = p
      /\ \A g \in Pairs \ {family[r]} : currentJti'[g] = currentJti[g]
  BY <1>0, IssueShape
<1>3. UNCHANGED <<clock, compromised, replayed, activeKey, retiredAt>>
  BY DEF keyVars
<1>4. /\ usedJtis'[family[r]] = usedJtis[family[r]] \cup {r}
      /\ \A g \in Pairs \ {family[r]} : usedJtis'[g] = usedJtis[g]
  BY <1>0 DEF TokenInv, TypeOK
<1>5. r = currentJti[family[r]]
  BY <1>0 DEF TokenInv, Ledger
<1>6. Issued'
  BY <1>0, <1>2, <1>3 DEF TokenInv, TypeOK, Issued
<1>7. Ledger'
  <2>1. \A f \in Pairs : \A o \in usedJtis'[f] : o \in issued' /\ family'[o] = f
    BY <1>0, <1>2, <1>4 DEF TokenInv, Ledger
  <2>2. \A f \in tokenFamilies' : currentJti'[f] \in issued'
    BY <1>0, <1>2 DEF TokenInv, TypeOK, Ledger
  <2>3. ASSUME NEW o \in issued', family'[o] \in tokenFamilies'
        PROVE  o = currentJti'[family'[o]] \/ o \in usedJtis'[family'[o]]
    <3>1. CASE o = p
      BY <1>2, <3>1
    <3>2. CASE o # p
      <4>1. o \in issued /\ family'[o] = family[o] /\ family[o] \in tokenFamilies /\ family[o] \in Pairs
        BY <1>0, <1>2, <2>3, <3>2 DEF TokenInv, TypeOK
      <4>2. o = currentJti[family[o]] \/ o \in usedJtis[family[o]]
        BY <4>1 DEF TokenInv, Ledger
      <4>3. QED
        BY <1>2, <1>4, <1>5, <4>1, <4>2
    <3>3. QED
      BY <3>1, <3>2
  <2>4. QED
    BY <2>1, <2>2, <2>3 DEF Ledger
<1>8. Exchanges'
  BY <1>0, <1>2, <1>4 DEF TokenInv, TypeOK, Exchanges
<1>9. Replays' /\ Signed'
  BY <1>0, <1>2, <1>3 DEF TokenInv, TypeOK, Replays, Signed
<1>10. SessionKeepsUser'
  BY <1>0, <1>2, ConstantsOK DEF TokenInv, TypeOK, Issued, SessionKeepsUser
<1>11. ExchangedOnce'
  <2>1. \A o \in issued : parent[o] # r
    BY <1>0, ConstantsOK DEF TokenInv, SessionKeepsUser, Exchanges
  <2>2. QED
    BY <1>2, <2>1 DEF TokenInv, ExchangedOnce
<1>12. QED
  BY <1>1, <1>6, <1>7, <1>8, <1>9, <1>10, <1>11 DEF TokenInv

-----------------------------------------------------------------------------
(* The other steps *)

LEMMA ReplayKeeps ==
  ASSUME TokenInv, NEW r \in Pairs, Replay(r) PROVE TokenInv'
<1> USE DEF Replay, RefreshVerifies, pairVars, keyVars
<1>1. r \in issued /\ family[r] \in tokenFamilies /\ family[r] \in issued
      /\ currentJti[family[r]] \in issued
  BY DEF TokenInv, Issued, Ledger
<1>2. TypeOK'
  BY <1>1 DEF TokenInv, TypeOK
<1>3. Replays' /\ Signed'
  BY <1>1 DEF TokenInv, Replays, Signed
<1>4. clock' >= clock
  BY DEF TokenInv, TypeOK
<1>5. QED
  BY <1>2, <1>3, <1>4, QuietKeeps

LEMMA RevokeKeeps ==
  ASSUME TokenInv,
         \/ \E p \in Pairs : RevokeAccess(p) \/ RevokeRefresh(p)
         \/ \E u \in Users : revokeAllUserSessions(u)
  PROVE  TokenInv'
<1> USE DEF RevokeAccess, RevokeRefresh, revokeAllUserSessions, pairVars, keyVars, familyVars
<1>1. TypeOK'
  BY DEF TokenInv, TypeOK
<1>2. Replays' /\ Signed'
  BY DEF TokenInv, Replays, Signed
<1>3. clock' >= clock
  BY DEF TokenInv, TypeOK
<1>4. QED
  BY <1>1, <1>2, <1>3, QuietKeeps

\* Rotation dates the retirement of the key of every pair signed so far.
LEMMA RotateKeeps ==
  ASSUME TokenInv, NEW k \in Keys, rotateKey(k) PROVE TokenInv'
<1> USE DEF rotateKey, pairVars, familyVars, revocations
<1>1. TypeOK'
  BY DEF TokenInv, TypeOK
<1>2. Replays' /\ clock' >= clock
  BY DEF TokenInv, TypeOK, Replays
<1>3. Signed'
  BY DEF TokenInv, TypeOK, Issued, Signed
<1>4. QED
  BY <1>1, <1>2, <1>3, QuietKeeps

LEMMA TokenTimeKeeps == ASSUME TokenInv, TimePasses PROVE TokenInv'
<1> USE DEF TimePasses, pairVars, keyVars, familyVars, revocations
<1>1. TypeOK' /\ clock' >= clock
  BY DEF TokenInv, TypeOK
<1>2. Replays' /\ Signed'
  BY DEF TokenInv, Replays, Signed
<1>3. QED
  BY <1>1, <1>2, QuietKeeps

\* A restart forgets every family, and with it what is said of live pairs.
LEMMA TokenRestartKeeps == ASSUME TokenInv, Restart PROVE TokenInv'
<1> USE DEF Restart, pairVars
<1>1. TypeOK'
  BY ConstantsOK DEF TokenInv, TypeOK
<1>2. Issued' /\ Ledger' /\ Exchanges'
  BY DEF TokenInv, TypeOK, Issued, Ledger, Exchanges
<1>3. Replays' /\ Signed' /\ SessionKeepsUser' /\ ExchangedOnce'
  BY DEF TokenInv, Replays, Signed, SessionKeepsUser, ExchangedOnce
<1>4. QED
  BY <1>1, <1>2, <1>3 DEF TokenInv

LEMMA TokenStutterKeeps == TokenInv /\ UNCHANGED vars => TokenInv'
  BY DEF vars, pairVars, keyVars, familyVars, revocations, TokenInv, TypeOK, Issued, Ledger,
     Exchanges, Replays, Signed, SessionKeepsUser, ExchangedOnce

LEMMA TokenStep == TokenInv /\ [Next]_vars => TokenInv'
<1> SUFFICES ASSUME TokenInv, [Next]_vars PROVE TokenInv'
  OBVIOUS
<1>1. CASE UNCHANGED vars
  BY <1>1, TokenStutterKeeps
<1>2. CASE \E u \in Users, p \in Pairs : Login(u, p)
  BY <1>2, LoginKeeps
<1>3. CASE \E r, p \in Pairs : Refresh(r, p)
  BY <1>3, RefreshKeeps
<1>4. CASE \E r \in Pairs : Replay(r) \/ RevokeAccess(r) \/ RevokeRefresh(r)
  BY <1>4, ReplayKeeps, RevokeKeeps
<1>5. CASE \E u \in Users : revokeAllUserSessions(u)
  BY <1>5, RevokeKeeps
<1>6. CASE \E k \in Keys : rotateKey(k)
  BY <1>6, RotateKeeps
<1>7. CASE TimePasses \/ Restart
  BY <1>7, TokenTimeKeeps, TokenRestartKeeps
<1>8. QED
  BY <1>1, <1>2, <1>3, <1>4, <1>5, <1>6, <1>7 DEF Next

-----------------------------------------------------------------------------
(* The properties *)

\* The inductive invariant: the forest of pairs, the ledgers of the families,
\* and the dates of the keys.
THEOREM TokenInvHolds == Spec => []TokenInv
  BY TokensBegin, TokenStep, PTL DEF Spec

\* Every variable keeps its type.
THEOREM TokenTypeCorrect == Spec => []TypeOK
<1>1. TokenInv => TypeOK
  BY DEF TokenInv
<1>2. QED
  BY <1>1, TokenInvHolds, PTL

\* No refresh token is exchanged twice, even across restarts.
THEOREM ExchangedOnceCorrect == Spec => []ExchangedOnce
<1>1. TokenInv => ExchangedOnce
  BY DEF TokenInv
<1>2. QED
  BY <1>1, TokenInvHolds, PTL

\* At most one refresh token of a session works: the ledger leaves room for one.
THEOREM OneLiveRefreshTokenCorrect == Spec => []OneLiveRefreshToken
<1>1. TokenInv => OneLiveRefreshToken
  BY DEF TokenInv, Ledger, OneLiveRefreshToken, Exchangeable, RefreshVerifies
<1>2. QED
  BY <1>1, TokenInvHolds, PTL

\* A session keeps its user and its family through every exchange.
THEOREM SessionKeepsUserCorrect == Spec => []SessionKeepsUser
<1>1. TokenInv => SessionKeepsUser
  BY DEF TokenInv
<1>2. QED
  BY <1>1, TokenInvHolds, PTL

\* Rotating keys invalidates no access token before it expires, as long as the
\* grace period is at least the lifetime of an access token (ConstantsOK).
THEOREM RotationKeepsAccessCorrect == Spec => []RotationKeepsAccess
<1>1. TokenInv => RotationKeepsAccess
  <2>1. SUFFICES ASSUME TokenInv, NEW p \in issued, family[p] \in tokenFamilies, Fresh(p, AccessTtl)
                 PROVE  kid[p] \in VerificationKeys
    BY DEF RotationKeepsAccess, SignatureOK
  <2>2. CASE kid[p] = activeKey
    BY <2>2 DEF VerificationKeys
  <2>3. CASE retiredAt[kid[p]] # 0 /\ iat[p] <= retiredAt[kid[p]]
    <3>1. /\ clock \in Nat /\ iat[p] \in Nat /\ kid[p] \in Keys /\ retiredAt[kid[p]] \in Nat
          /\ clock < iat[p] + AccessTtl
      BY <2>1 DEF TokenInv, TypeOK, Fresh
    <3>2. clock - retiredAt[kid[p]] < Grace
      BY <2>3, <3>1, ConstantsOK
    <3>3. QED
      BY <2>3, <3>1, <3>2 DEF VerificationKeys
  <2>4. QED
    BY <2>1, <2>2, <2>3 DEF TokenInv, Signed
<1>2. QED
  BY <1>1, TokenInvHolds, PTL

\* After a replay nothing is issued in the family.
THEOREM ReplayEndsSessionCorrect == Spec => ReplayEndsSession
<1>1. TokenInv /\ [Next]_vars => [\A p \in issued' \ issued : family'[p] \notin replayed]_vars
  <2>1. SUFFICES ASSUME TokenInv, [Next]_vars, NEW p \in issued', p \notin issued
                 PROVE  family'[p] \notin replayed
    OBVIOUS
  <2>2. CASE UNCHANGED vars
    BY <2>1, <2>2 DEF vars, pairVars
  <2>3. ASSUME NEW u \in Users, NEW o \in Pairs, Login(u, o) PROVE family'[p] \notin replayed
    <3>1. p = o /\ family'[p] = p
      BY <2>1, <2>3 DEF Login, issueTokenPair, TokenInv, TypeOK
    <3>2. QED
      BY <2>1, <3>1 DEF TokenInv, Replays
  <2>4. ASSUME NEW r \in Pairs, NEW o \in Pairs, Refresh(r, o) PROVE family'[p] \notin replayed
    <3>1. p = o /\ family'[p] = family[r]
      BY <2>1, <2>4 DEF Refresh, issueTokenPair, TokenInv, TypeOK
    <3>2. QED
      BY <2>1, <2>4, <3>1 DEF Refresh, Exchangeable, TokenInv, Replays
  <2>5. CASE \/ \E r \in Pairs : Replay(r) \/ RevokeAccess(r) \/ RevokeRefresh(r)
             \/ \E u \in Users : revokeAllUserSessions(u)
             \/ \E k \in Keys : rotateKey(k)
             \/ TimePasses \/ Restart
    BY <2>1, <2>5 DEF Replay, RevokeAccess, RevokeRefresh, revokeAllUserSessions, rotateKey,
       TimePasses, Restart, pairVars
  <2>6. QED
    BY <2>1, <2>2, <2>3, <2>4, <2>5 DEF Next
<1>2. QED
  BY <1>1, TokenInvHolds, PTL DEF Spec, ReplayEndsSession

\* A refresh token works once, for any users, pairs, keys and lifetimes.
THEOREM RefreshTokensWorkOnceCorrect == Spec => []RefreshTokensWorkOnce
  BY ExchangedOnceCorrect, OneLiveRefreshTokenCorrect, PTL DEF RefreshTokensWorkOnce

=============================================================================
