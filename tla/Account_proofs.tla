---------------------------- MODULE Account_proofs ----------------------------
(***************************************************************************)
(* The inductive invariant of the administrator's account: of its signing  *)
(* secrets, of the password in cache and table, and of the file with the   *)
(* first password.  No bound of Account.tla matters to it.                 *)
(***************************************************************************)
EXTENDS Account, Integers, FiniteSetTheorems, TLAPS

Steps == {"idle", "arrived", "passed", "checked", "committed", "published", "written",
          "allowed", "wrong", "verified", "signing"}

CallRecord == [kind : {"none", "login", "logout", "password", "rename"}, at : Steps,
               knows : Nat, before : SUBSET Nat, secret : Nat]

User == [password : Nat, must : BOOLEAN, name : Int]

AcTyped ==
    /\ acDb \in [user : User, secret : Nat]
    /\ acUser \in User
    /\ acSecret \in Nat /\ acMade \in Nat /\ acSet \in Nat
    /\ acFile \in BOOLEAN /\ acPath \in BOOLEAN /\ acKept \in BOOLEAN
    /\ acLife \in {"down", "loading", "writing", "up"}
    /\ acCall \in [Calls -> CallRecord]
    /\ acIssued \subseteq Nat /\ acRevoked \subseteq Nat

\* A call has written its secret and has yet to publish it.
Pending(c) == acCall[c].at \in {"committed", "written"}

\* Secrets are made one after the other and the table has the last.  No token
\* is signed with one that is still to be published, so that whatever the
\* order of publication the cache only ever takes secrets that no token had.
Secrets ==
    /\ acDb.secret = acMade /\ acSecret <= acMade
    /\ acIssued \subseteq 1 .. acMade
    /\ acRevoked \subseteq acIssued /\ acSecret \notin acRevoked /\ acMade \notin acRevoked
    /\ acLife # "up" => acCall = [c \in Calls |-> Idle]
    /\ \A c \in Calls :
          /\ acCall[c].before \subseteq acIssued
          /\ Pending(c) => acCall[c].secret \in (1 .. acMade) \ (acIssued \cup {acSecret})
          /\ Pending(c) \/ acCall[c].at = "published" => acMade \notin acCall[c].before
          /\ acCall[c].at = "published" => acSecret \notin acCall[c].before
    /\ \A c, d \in Calls :
          Pending(c) /\ Pending(d) /\ acCall[c].secret = acCall[d].secret => c = d

Changing(places) == \E c \in Calls : acCall[c].at \in places

\* One change at a time is past its second check, and cache and table agree
\* but for the one that has been committed and not published.
Passwords ==
    /\ \A c, d \in Calls :
          {acCall[c].at, acCall[d].at} \subseteq {"checked", "committed", "published"} => c = d
    /\ \A c \in Calls : /\ acCall[c].at = "checked" => acCall[c].knows = acDb.user.password
                        /\ acCall[c].at \in {"committed", "published"} => ~acDb.user.must
    /\ acLife \in {"writing", "up"} /\ ~Changing({"committed"}) =>
          acUser.password = acDb.user.password /\ acUser.must = acDb.user.must

\* The file with the first password can be removed while its path is known,
\* and the path is known until the password has been changed.
FirstFile ==
    /\ acLife \in {"loading", "writing"} => acPath
    /\ acLife = "writing" => acDb.user.must
    /\ acLife = "up" /\ acFile /\ ~acKept => acPath
    /\ acLife = "up" /\ ~acDb.user.must /\ ~Changing({"committed", "published"}) => ~acPath

AcInv == AcTyped /\ Secrets /\ Passwords /\ FirstFile

\* Nothing is known of an account in the initial states.
LEMMA AcInitSafe == AcInit => AcInv
<1> SUFFICES ASSUME AcInit
             PROVE  AcInv
  OBVIOUS
<1>1. NoUser \in User /\ Idle \in CallRecord /\ Idle.at = "idle" /\ Idle.before = {}
  BY DEF NoUser, User, Idle, CallRecord, Steps
<1>2. AcTyped
  BY <1>1 DEF AcInit, AcTyped
<1>3. \A c \in Calls : acCall[c] = Idle
  BY DEF AcInit
<1> QED BY <1>1, <1>2, <1>3 DEF AcInit, AcInv, Secrets, Passwords, FirstFile, Pending, Changing

\* What a step of the account changes of its calls: one of them, or none.
OneCall(c, call) == /\ acCall' = [acCall EXCEPT ![c] = call]
                    /\ call \in CallRecord

\* The record of a call that goes on, and of one that returns.
LEMMA CallGoes ==
  ASSUME AcTyped, NEW c \in Calls
  PROVE  /\ acCall[c] \in CallRecord
         /\ \A place \in Steps : Goes(c, place) => OneCall(c, [acCall[c] EXCEPT !.at = place])
         /\ Returns(c) => OneCall(c, Idle)
         /\ Idle \in CallRecord /\ Idle.at = "idle" /\ Idle.before = {}
<1>1. Idle \in CallRecord /\ Idle.at = "idle" /\ Idle.before = {}
  BY DEF Idle, CallRecord, Steps
<1>2. acCall[c] \in CallRecord
  BY DEF AcTyped
<1>3. \A place \in Steps : [acCall[c] EXCEPT !.at = place] \in CallRecord
  BY <1>2 DEF CallRecord
<1>4. \A place \in Steps : Goes(c, place) => OneCall(c, [acCall[c] EXCEPT !.at = place])
  BY <1>3 DEF Goes, OneCall
<1>5. Returns(c) => OneCall(c, Idle)
  BY <1>1 DEF Returns, OneCall
<1> QED BY <1>1, <1>2, <1>4, <1>5

\* A call that goes to a place where it has no part in the invariants.
LEMMA PlainStep ==
  ASSUME AcInv, NEW c \in Calls, NEW call, OneCall(c, call),
         call.at \in {"idle", "arrived", "passed", "allowed", "wrong", "verified", "signing"},
         acCall[c].at \notin {"committed", "published", "written"},
         call.before \in {{}, acIssued, acCall[c].before}, acLife = "up",
         UNCHANGED <<acDb, acUser, acSecret, acPath, acFiles, acLife, acTokens, acMade, acSet>>
  PROVE  AcInv'
<1>1. \A d \in Calls : acCall'[d] = IF d = c THEN call ELSE acCall[d]
  BY DEF OneCall, AcInv, AcTyped
<1>2. AcTyped'
  BY DEF AcInv, AcTyped, OneCall, acFiles, acTokens
<1>3. Secrets'
  BY <1>1 DEF AcInv, AcTyped, Secrets, Pending, OneCall, acFiles, acTokens
<1>4. Passwords'
  BY <1>1 DEF AcInv, AcTyped, Passwords, Changing, acFiles, acTokens
<1>5. FirstFile'
  BY <1>1 DEF AcInv, AcTyped, FirstFile, Changing, acFiles, acTokens
<1> QED BY <1>2, <1>3, <1>4, <1>5 DEF AcInv


\* Only a process that is up has calls under way.
LEMMA LivesUp ==
  ASSUME AcInv, NEW c \in Calls, acCall[c].at # "idle"
  PROVE  acLife = "up"
  BY DEF AcInv, Secrets, Idle

\* The steps whose calls have no part in the invariants.
LEMMA PlainSteps ==
  ASSUME AcInv, NEW c \in Calls,
         \/ \E kind \in {"login", "logout", "password", "rename"} : Arrive(c, kind)
         \/ CheckFirst(c)
         \/ ChangeFails(c)
         \/ RotateFails(c)
         \/ LoginChecks(c)
         \/ LoginVerifies(c)
         \/ RecordFailure(c)
         \/ ResetFailures(c)
  PROVE  AcInv'
<1>1. AcTyped
  BY DEF AcInv
<1>2. acMade \in Nat /\ acUser.password \in Nat /\ acIssued \subseteq Nat
  BY <1>1 DEF AcTyped, User
<1>3. CASE \E kind \in {"login", "logout", "password", "rename"} : Arrive(c, kind)
  <2>1. PICK kind \in {"login", "logout", "password", "rename"} : Arrive(c, kind)
    BY <1>3
  <2>2. PICK known \in {acUser.password, 0} :
           acCall' = [acCall EXCEPT ![c] = [Idle EXCEPT !.kind = kind, !.at = "arrived",
                                                !.knows = known, !.before = acIssued]]
    BY <2>1 DEF Arrive
  <2> DEFINE call == [Idle EXCEPT !.kind = kind, !.at = "arrived", !.knows = known,
                                  !.before = acIssued]
  <2>7. known \in Nat
    BY <1>2
  <2>8. Idle \in CallRecord
    BY <1>1, CallGoes
  <2>3. call \in CallRecord /\ call.at = "arrived" /\ call.before = acIssued
    BY <1>2, <2>7, <2>8 DEF CallRecord, Steps
  <2>4. OneCall(c, call)
    BY <2>2, <2>3 DEF OneCall
  <2>5. acCall[c].at = "idle" /\ acLife = "up"
    BY <2>1 DEF Arrive, Idle
  <2>6. UNCHANGED <<acDb, acUser, acSecret, acPath, acFiles, acLife, acTokens, acMade, acSet>>
    BY <2>1 DEF Arrive, acTables, acCaches, acCounts
  <2> HIDE DEF call
  <2> QED BY <2>3, <2>4, <2>5, <2>6, PlainStep
<1>4. ASSUME NEW place \in {"passed", "allowed", "wrong", "verified", "signing", "idle"},
             acCall[c].at \notin {"idle", "committed", "published", "written"},
             Goes(c, place) \/ Returns(c),
             UNCHANGED <<acDb, acUser, acSecret, acPath, acFiles, acLife, acTokens, acMade, acSet>>
      PROVE  AcInv'
  <2>1. acLife = "up"
    BY <1>4, LivesUp
  <2>2. acCall[c] \in CallRecord /\ place \in Steps
    BY <1>1 DEF AcTyped, Steps
  <2>3. CASE Goes(c, place)
    <3> DEFINE call == [acCall[c] EXCEPT !.at = place]
    <3>1. OneCall(c, call)
      BY <1>1, <2>2, <2>3, CallGoes
    <3>2. call.at = place /\ call.before = acCall[c].before
      BY <2>2 DEF CallRecord
    <3> HIDE DEF call
    <3> QED BY <1>4, <2>1, <3>1, <3>2, PlainStep
  <2>4. CASE Returns(c)
    BY <1>1, <1>4, <2>1, <2>4, CallGoes, PlainStep
  <2> QED BY <1>4, <2>3, <2>4
<1>5. CASE CheckFirst(c)
  BY <1>4, <1>5 DEF CheckFirst, Is, acTables, acCaches, acCounts
<1>6. CASE ChangeFails(c) \/ RotateFails(c)
  BY <1>4, <1>6 DEF ChangeFails, RotateFails, Is, acTables, acCaches
<1>7. CASE LoginChecks(c)
  BY <1>4, <1>7 DEF LoginChecks, Is
<1>8. CASE LoginVerifies(c)
  <2>1. PICK place \in {"wrong", "verified"} : Goes(c, place)
    BY <1>8 DEF LoginVerifies
  <2> QED BY <1>4, <1>8, <2>1 DEF LoginVerifies, Is, acTables, acCaches, acCounts
<1>9. CASE RecordFailure(c)
  BY <1>4, <1>9 DEF RecordFailure, Is
<1>10. CASE ResetFailures(c)
  BY <1>4, <1>10 DEF ResetFailures, Is, acCaches
<1> QED BY <1>3, <1>5, <1>6, <1>7, <1>8, <1>9, <1>10

\* What the invariants speak of.
acSeen == <<acDb, acUser, acSecret, acPath, acFiles, acLife, acCall, acTokens, acMade, acSet>>

LEMMA AcStutter ==
  ASSUME AcInv, UNCHANGED acSeen
  PROVE  AcInv'
  BY DEF acSeen, acFiles, acTokens, AcInv, AcTyped, Secrets, Passwords, FirstFile, Pending, Changing

\* Start and end of the process.
LEMMA LifeSteps ==
  ASSUME AcInv, Load \/ LoadUser \/ CreateUser \/ WriteFirstPassword \/ ProcessEnds
  PROVE  AcInv'
<1>1. Idle \in CallRecord /\ Idle.at = "idle" /\ Idle.before = {} /\ NoUser \in User
  BY DEF AcInv, CallGoes, Idle, NoUser, User, CallRecord, Steps
<1>2. acLife # "up" => \A d \in Calls : acCall[d] = Idle
  BY DEF AcInv, Secrets
<1>3. CASE Load
  <2>1. AcTyped'
    BY <1>3 DEF Load, AcInv, AcTyped, acTables, acTokens, acCounts
  <2>2. Secrets'
    BY <1>2, <1>1, <1>3 DEF Load, AcInv, AcTyped, Secrets, Pending, acTables, acTokens, acCounts
  <2>3. Passwords'
    BY <1>2, <1>1, <1>3 DEF Load, AcInv, Passwords, Changing, acTables
  <2>4. FirstFile'
    BY <1>3 DEF Load, FirstFile
  <2> QED BY <2>1, <2>2, <2>3, <2>4 DEF AcInv
<1>4. CASE LoadUser
  <2>1. AcTyped'
    BY <1>4 DEF LoadUser, AcInv, AcTyped, User, acTables, acTokens
  <2>2. Secrets'
    BY <1>2, <1>1, <1>4 DEF LoadUser, AcInv, AcTyped, Secrets, Pending, acTables, acTokens
  <2>3. Passwords'
    BY <1>2, <1>1, <1>4 DEF LoadUser, AcInv, Passwords, Changing, acTables
  <2>4. FirstFile'
    BY <1>2, <1>1, <1>4 DEF LoadUser, AcInv, AcTyped, FirstFile, Changing, acTables
  <2> QED BY <2>1, <2>2, <2>3, <2>4 DEF AcInv
<1>5. CASE CreateUser
  <2>0. acUser' = [password |-> acSet + 1, must |-> TRUE, name |-> 1] /\ acUser' \in User
    BY <1>5 DEF CreateUser, AcInv, AcTyped, User
  <2>5. acDb' \in [user : User, secret : Nat]
    BY <1>5, <2>0 DEF CreateUser, AcInv, AcTyped
  <2>1. AcTyped'
    BY <1>5, <2>0, <2>5 DEF CreateUser, AcInv, AcTyped, acFiles, acTokens
  <2>2. Secrets'
    BY <1>2, <1>1, <1>5, <2>1
       DEF CreateUser, AcInv, AcTyped, Secrets, Pending, acTokens
  <2>3. Passwords'
    BY <1>2, <1>1, <1>5, <2>0 DEF CreateUser, AcInv, AcTyped, Passwords, Changing
  <2>4. FirstFile'
    BY <1>5, <2>0 DEF CreateUser, AcInv, AcTyped, FirstFile, Changing
  <2> QED BY <2>1, <2>2, <2>3, <2>4 DEF AcInv
<1>6. CASE WriteFirstPassword
  <2>1. AcTyped'
    BY <1>6 DEF WriteFirstPassword, AcInv, AcTyped, acTables, acCaches, acTokens, acCounts
  <2>2. Secrets'
    BY <1>2, <1>1, <1>6
       DEF WriteFirstPassword, AcInv, AcTyped, Secrets, Pending, acTables, acCaches,
           acTokens, acCounts
  <2>3. Passwords'
    BY <1>6 DEF WriteFirstPassword, AcInv, Passwords, Changing, acTables, acCaches
  <2>4. FirstFile'
    BY <1>6 DEF WriteFirstPassword, AcInv, FirstFile, Changing, acTables, acCaches
  <2> QED BY <2>1, <2>2, <2>3, <2>4 DEF AcInv
<1>7. CASE ProcessEnds
  <2>1. AcTyped'
    BY <1>1, <1>7 DEF ProcessEnds, AcInv, AcTyped, acTables, acFiles, acTokens
  <2>0. \A d \in Calls : acCall'[d] = Idle
    BY <1>7 DEF ProcessEnds
  <2>2. Secrets'
    BY <1>1, <1>7, <2>0 DEF ProcessEnds, AcInv, AcTyped, Secrets, Pending, acTables, acTokens
  <2>3. Passwords'
    BY <1>1, <1>7, <2>0 DEF ProcessEnds, Passwords
  <2>4. FirstFile'
    BY <1>7 DEF ProcessEnds, FirstFile
  <2> QED BY <2>1, <2>2, <2>3, <2>4 DEF AcInv
<1> QED BY <1>3, <1>4, <1>5, <1>6, <1>7

\* Auth has no secret to verify with, or a login none to sign with: one is made.
LEMMA TurnDownSafe ==
  ASSUME AcInv, TurnDown
  PROVE  AcInv'
<1>1. /\ acMade' = acMade + 1 /\ acSecret' = acMade + 1
      /\ acDb' = [acDb EXCEPT !.secret = acMade + 1]
      /\ UNCHANGED <<acUser, acPath, acFile, acKept, acLife, acCall, acIssued, acRevoked, acSet>>
  BY DEF TurnDown, MakeSecret, acFiles, acTokens
<1>2. acDb' \in [user : User, secret : Nat] /\ acDb'.user = acDb.user /\ acDb'.secret = acMade + 1
  BY <1>1 DEF AcInv, AcTyped
<1>3. AcTyped'
  BY <1>1, <1>2 DEF AcInv, AcTyped
<1>4. Secrets'
  BY <1>1, <1>2 DEF AcInv, AcTyped, Secrets, Pending
<1>5. Passwords'
  BY <1>1, <1>2 DEF AcInv, Passwords, Changing
<1>6. FirstFile'
  BY <1>1, <1>2 DEF AcInv, FirstFile, Changing
<1> QED BY <1>3, <1>4, <1>5, <1>6 DEF AcInv

\* The steps of a change of the password.
LEMMA CheckAgainSafe ==
  ASSUME AcInv, NEW c \in Calls, CheckAgain(c)
  PROVE  AcInv'
<1>1. acLife = "up"
  BY LivesUp DEF CheckAgain, Is
<1>2. UNCHANGED <<acDb, acUser, acSecret, acPath, acFiles, acLife, acTokens, acMade, acSet>>
  BY DEF CheckAgain, acTables, acCaches, acCounts
<1>3. CASE Returns(c)
  BY <1>1, <1>2, <1>3, CallGoes, PlainStep DEF CheckAgain, Is, AcInv
<1>4. CASE Goes(c, "checked")
  <2>1. \A d \in Calls : acCall'[d] = IF d = c THEN [acCall[c] EXCEPT !.at = "checked"]
                                              ELSE acCall[d]
    BY <1>4 DEF Goes, AcInv, AcTyped
  <2>2. /\ acCall'[c] \in CallRecord /\ acCall'[c].at = "checked"
        /\ acCall'[c].before = acCall[c].before /\ acCall'[c].knows = acCall[c].knows
    BY <2>1 DEF AcInv, AcTyped, CallRecord, Steps
  <2>3. \A d \in Calls : acCall[d].at \notin {"checked", "committed", "published"}
    BY DEF CheckAgain, UserLocked
  <2>4. (acCall[c].at = "passed" /\ acCall[c].knows = acUser.password) \/ acCall' = acCall
    BY <1>4, <2>1 DEF CheckAgain, Is, Returns, Goes, Idle, AcInv, AcTyped
  <2>5. AcTyped'
    BY <1>2, <1>4, <2>2 DEF AcInv, AcTyped, Goes, acFiles, acTokens
  <2>6. Secrets'
    BY <1>2, <1>1, <2>1, <2>2, <2>3 DEF AcInv, AcTyped, Secrets, Pending, acFiles, acTokens
  <2>7. Passwords'
    BY <1>2, <1>1, <2>1, <2>2, <2>3, <2>4 DEF AcInv, AcTyped, Passwords, Changing, acFiles, acTokens
  <2>8. FirstFile'
    BY <1>2, <1>1, <2>1, <2>2, <2>3 DEF AcInv, AcTyped, FirstFile, Changing, acFiles, acTokens
  <2> QED BY <2>5, <2>6, <2>7, <2>8 DEF AcInv
<1> QED BY <1>3, <1>4 DEF CheckAgain

LEMMA CommitSafe ==
  ASSUME AcInv, NEW c \in Calls, CommitChange(c)
  PROVE  AcInv'
<1>1. acLife = "up" /\ acCall[c].at = "checked"
  BY LivesUp DEF CommitChange, Is
<1> DEFINE call == [acCall[c] EXCEPT !.at = "committed", !.secret = acMade + 1]
<1>2. /\ call \in CallRecord /\ call.at = "committed" /\ call.secret = acMade + 1
      /\ call.before = acCall[c].before
  <2>1. acCall[c] \in CallRecord /\ acMade + 1 \in Nat
    BY DEF AcInv, AcTyped
  <2> QED BY <2>1 DEF CallRecord, Steps
<1>3. acCall' = [acCall EXCEPT ![c] = call]
  BY DEF CommitChange, AcInv, AcTyped
<1> HIDE DEF call
<1>4. \A d \in Calls : acCall'[d] = IF d = c THEN call ELSE acCall[d]
  BY <1>3 DEF AcInv, AcTyped
<1>5. /\ acMade' = acMade + 1 /\ acSet' = acSet + 1
      /\ acDb' = [user |-> [acDb.user EXCEPT !.password = acSet + 1, !.must = FALSE],
                  secret |-> acMade + 1]
      /\ UNCHANGED <<acUser, acSecret, acPath, acFile, acKept, acLife, acIssued, acRevoked>>
  BY DEF CommitChange, acCaches, acFiles, acTokens
<1>6. acDb' \in [user : User, secret : Nat] /\ acDb'.secret = acMade + 1 /\ ~acDb'.user.must
  <2>1. acDb.user \in User /\ acSet + 1 \in Nat /\ acMade + 1 \in Nat
    BY DEF AcInv, AcTyped
  <2> DEFINE user == [acDb.user EXCEPT !.password = acSet + 1, !.must = FALSE]
  <2>2. user \in User /\ ~user.must
    BY <2>1 DEF User
  <2>3. acDb' = [user |-> user, secret |-> acMade + 1]
    BY <1>5
  <2> HIDE DEF user
  <2> QED BY <2>1, <2>2, <2>3
<1>7. AcTyped'
  BY <1>2, <1>3, <1>5, <1>6 DEF AcInv, AcTyped
<1>8. Secrets'
  <2>1. /\ acDb'.secret = acMade' /\ acSecret' <= acMade' /\ acIssued' \subseteq 1 .. acMade'
        /\ acRevoked' \subseteq acIssued' /\ acSecret' \notin acRevoked'
        /\ acMade' \notin acRevoked' /\ acLife' = "up"
    BY <1>1, <1>5, <1>6 DEF AcInv, AcTyped, Secrets
  <2>2. \A d \in Calls :
          /\ acCall'[d].before \subseteq acIssued'
          /\ Pending(d)' => acCall'[d].secret \in (1 .. acMade') \ (acIssued' \cup {acSecret'})
          /\ Pending(d)' \/ acCall'[d].at = "published" => acMade' \notin acCall'[d].before
          /\ acCall'[d].at = "published" => acSecret' \notin acCall'[d].before
    BY <1>1, <1>2, <1>4, <1>5 DEF AcInv, AcTyped, Secrets, Pending
  <2>3. \A d, e \in Calls :
          Pending(d)' /\ Pending(e)' /\ acCall'[d].secret = acCall'[e].secret => d = e
    BY <1>1, <1>2, <1>4, <1>5 DEF AcInv, AcTyped, Secrets, Pending
  <2> QED BY <2>1, <2>2, <2>3 DEF Secrets
<1>9. Passwords'
  BY <1>1, <1>2, <1>4, <1>5, <1>6 DEF AcInv, AcTyped, Passwords, Changing
<1>10. FirstFile'
  BY <1>1, <1>2, <1>4, <1>5, <1>6 DEF AcInv, AcTyped, FirstFile, Changing
<1> QED BY <1>7, <1>8, <1>9, <1>10 DEF AcInv

LEMMA PublishSafe ==
  ASSUME AcInv, NEW c \in Calls, PublishChange(c)
  PROVE  AcInv'
<1>1. acLife = "up" /\ acCall[c].at = "committed" /\ acCall[c] \in CallRecord
  BY LivesUp DEF PublishChange, Is, AcInv, AcTyped
<1> DEFINE call == [acCall[c] EXCEPT !.at = "published"]
<1>2. call \in CallRecord /\ call.at = "published" /\ call.before = acCall[c].before
  BY <1>1 DEF CallRecord, Steps
<1>3. acCall' = [acCall EXCEPT ![c] = call]
  BY DEF PublishChange, Goes, AcInv, AcTyped
<1> HIDE DEF call
<1>4. \A d \in Calls : acCall'[d] = IF d = c THEN call ELSE acCall[d]
  BY <1>3 DEF AcInv, AcTyped
<1>5. /\ acUser' = [acUser EXCEPT !.password = acDb.user.password, !.must = FALSE]
      /\ acSecret' = acCall[c].secret
      /\ UNCHANGED <<acDb, acMade, acSet, acPath, acFile, acKept, acLife, acIssued, acRevoked>>
  BY DEF PublishChange, acTables, acFiles, acTokens, acCounts
<1>6. acUser' \in User /\ acUser'.password = acDb.user.password /\ acUser'.must = FALSE
  <2>1. acUser \in User /\ acDb.user.password \in Nat
    BY DEF AcInv, AcTyped, User
  <2> QED BY <1>5, <2>1 DEF User
<1>7. acSecret' \in (1 .. acMade) \ (acIssued \cup {acSecret})
  BY <1>1, <1>5 DEF AcInv, Secrets, Pending
<1>8. AcTyped'
  BY <1>2, <1>3, <1>5, <1>6, <1>7 DEF AcInv, AcTyped
<1>9. Secrets'
  <2>1. /\ acDb'.secret = acMade' /\ acSecret' <= acMade' /\ acIssued' \subseteq 1 .. acMade'
        /\ acRevoked' \subseteq acIssued' /\ acSecret' \notin acRevoked'
        /\ acMade' \notin acRevoked' /\ acLife' = "up"
    BY <1>1, <1>5, <1>7 DEF AcInv, AcTyped, Secrets
  <2>2. \A d \in Calls :
          /\ acCall'[d].before \subseteq acIssued'
          /\ Pending(d)' => acCall'[d].secret \in (1 .. acMade') \ (acIssued' \cup {acSecret'})
          /\ Pending(d)' \/ acCall'[d].at = "published" => acMade' \notin acCall'[d].before
          /\ acCall'[d].at = "published" => acSecret' \notin acCall'[d].before
    BY <1>1, <1>2, <1>4, <1>5, <1>7 DEF AcInv, AcTyped, Secrets, Pending
  <2>3. \A d, e \in Calls :
          Pending(d)' /\ Pending(e)' /\ acCall'[d].secret = acCall'[e].secret => d = e
    BY <1>1, <1>2, <1>4, <1>5 DEF AcInv, AcTyped, Secrets, Pending
  <2> QED BY <2>1, <2>2, <2>3 DEF Secrets
<1>10. Passwords'
  <2>1. \A d, e \in Calls :
          {acCall[d].at, acCall[e].at}' \subseteq {"checked", "committed", "published"} => d = e
    BY <1>1, <1>2, <1>4 DEF AcInv, Passwords
  <2>2. \A d \in Calls :
          /\ acCall'[d].at = "checked" => acCall'[d].knows = acDb'.user.password
          /\ acCall'[d].at \in {"committed", "published"} => ~acDb'.user.must
    BY <1>1, <1>2, <1>4, <1>5 DEF AcInv, Passwords
  <2>3. acDb.user.must = FALSE
    BY <1>1 DEF AcInv, AcTyped, Passwords, User
  <2>4. acUser'.password = acDb'.user.password /\ acUser'.must = acDb'.user.must
    BY <1>5, <1>6, <2>3
  <2> QED BY <2>1, <2>2, <2>4 DEF Passwords
<1>11. FirstFile'
  BY <1>1, <1>2, <1>4, <1>5 DEF AcInv, AcTyped, FirstFile, Changing
<1> QED BY <1>8, <1>9, <1>10, <1>11 DEF AcInv

LEMMA FinishSafe ==
  ASSUME AcInv, NEW c \in Calls, FinishChange(c)
  PROVE  AcInv'
<1>1. acLife = "up" /\ acCall[c].at = "published" /\ acCall[c] \in CallRecord
  BY LivesUp DEF FinishChange, Is, AcInv, AcTyped
<1>2. Idle \in CallRecord /\ Idle.at = "idle" /\ Idle.before = {}
  BY CallGoes DEF AcInv
<1>3. \A d \in Calls : acCall'[d] = IF d = c THEN Idle ELSE acCall[d]
  BY DEF FinishChange, Returns, AcInv, AcTyped
<1>4. /\ acRevoked' = acRevoked \cup acCall[c].before /\ acPath' = FALSE
      /\ UNCHANGED <<acDb, acUser, acSecret, acLife, acIssued, acMade, acSet>>
  BY DEF FinishChange, acTables
<1>5. \/ acKept' = TRUE /\ acFile' = acFile
      \/ acFile' = (acFile /\ ~acPath) /\ acKept' = acKept
  BY DEF FinishChange
<1>6. AcTyped'
  BY <1>1, <1>2, <1>4, <1>5 DEF FinishChange, Returns, AcInv, AcTyped, CallRecord
<1>7. Secrets'
  BY <1>1, <1>2, <1>3, <1>4 DEF AcInv, AcTyped, Secrets, Pending
<1>8. Passwords'
  BY <1>1, <1>2, <1>3, <1>4 DEF AcInv, AcTyped, Passwords, Changing
<1>9. FirstFile'
  BY <1>1, <1>2, <1>3, <1>4, <1>5 DEF AcInv, AcTyped, FirstFile, Changing
<1> QED BY <1>6, <1>7, <1>8, <1>9 DEF AcInv

\* A change of the name leaves passwords and secrets alone.
LEMMA RenameSafe ==
  ASSUME AcInv, NEW c \in Calls, Rename(c)
  PROVE  AcInv'
<1>1. acLife = "up" /\ acCall[c].at = "arrived" /\ ~Changing({"committed", "published", "checked"})
  BY LivesUp DEF Rename, Is, UserLocked, Changing
<1>2. Idle \in CallRecord /\ Idle.at = "idle" /\ Idle.before = {}
  BY CallGoes DEF AcInv
<1>3. /\ acCall' = [acCall EXCEPT ![c] = Idle]
      /\ UNCHANGED <<acSecret, acPath, acFile, acKept, acLife, acIssued, acRevoked, acMade, acSet>>
  BY DEF Rename, Returns, acFiles, acTokens
<1>4. \A d \in Calls : acCall'[d] = IF d = c THEN Idle ELSE acCall[d]
  BY <1>3 DEF AcInv, AcTyped
<1>5. /\ acUser' \in User
      /\ acUser'.password = acUser.password /\ acUser'.must = acUser.must
  <2>1. acUser' = acUser \/ acUser' = [acUser EXCEPT !.name = 3 - @]
    BY DEF Rename, AcInv, AcTyped
  <2>2. acUser \in User /\ 3 - acUser.name \in Int
    BY DEF AcInv, AcTyped, User
  <2> QED BY <2>1, <2>2 DEF User
<1>6. /\ acDb' \in [user : User, secret : Nat] /\ acDb'.secret = acDb.secret
      /\ acDb'.user.password = acDb.user.password /\ acDb'.user.must = acDb.user.must
  <2>1. acDb' = acDb \/ acDb' = [acDb EXCEPT !.user.name = acUser'.name]
    BY DEF Rename
  <2>2. acDb \in [user : User, secret : Nat] /\ acUser'.name \in Int
    BY <1>5 DEF AcInv, AcTyped, User
  <2> QED BY <2>1, <2>2 DEF User
<1>7. AcTyped'
  BY <1>2, <1>3, <1>5, <1>6 DEF AcInv, AcTyped
<1>8. Secrets'
  BY <1>1, <1>2, <1>3, <1>4, <1>6 DEF AcInv, AcTyped, Secrets, Pending
<1>9. Passwords'
  BY <1>1, <1>2, <1>3, <1>4, <1>5, <1>6 DEF AcInv, Passwords, Changing
<1>10. FirstFile'
  BY <1>1, <1>2, <1>3, <1>4, <1>6 DEF AcInv, FirstFile, Changing
<1> QED BY <1>7, <1>8, <1>9, <1>10 DEF AcInv

\* The steps of a logout.
LEMMA RotateWritesSafe ==
  ASSUME AcInv, NEW c \in Calls, RotateWrites(c)
  PROVE  AcInv'
<1>1. acLife = "up" /\ acCall[c].at = "arrived" /\ acCall[c] \in CallRecord /\ acMade + 1 \in Nat
  BY LivesUp DEF RotateWrites, Is, AcInv, AcTyped
<1> DEFINE call == [acCall[c] EXCEPT !.at = "written", !.secret = acMade + 1]
<1>2. /\ call \in CallRecord /\ call.at = "written" /\ call.secret = acMade + 1
      /\ call.before = acCall[c].before
  BY <1>1 DEF CallRecord, Steps
<1>3. acCall' = [acCall EXCEPT ![c] = call]
  BY DEF RotateWrites, AcInv, AcTyped
<1> HIDE DEF call
<1>4. \A d \in Calls : acCall'[d] = IF d = c THEN call ELSE acCall[d]
  BY <1>3 DEF AcInv, AcTyped
<1>5. /\ acMade' = acMade + 1 /\ acDb' = [acDb EXCEPT !.secret = acMade + 1]
      /\ UNCHANGED <<acUser, acSecret, acSet, acPath, acFile, acKept, acLife, acIssued, acRevoked>>
  BY DEF RotateWrites, acCaches, acFiles, acTokens
<1>6. /\ acDb' \in [user : User, secret : Nat] /\ acDb'.secret = acMade + 1
      /\ acDb'.user = acDb.user
  BY <1>1, <1>5 DEF AcInv, AcTyped
<1>7. AcTyped'
  BY <1>2, <1>3, <1>5, <1>6 DEF AcInv, AcTyped
<1>8. Secrets'
  <2>1. /\ acDb'.secret = acMade' /\ acSecret' <= acMade' /\ acIssued' \subseteq 1 .. acMade'
        /\ acRevoked' \subseteq acIssued' /\ acSecret' \notin acRevoked'
        /\ acMade' \notin acRevoked' /\ acLife' = "up"
    BY <1>1, <1>5, <1>6 DEF AcInv, AcTyped, Secrets
  <2>2. \A d \in Calls :
          /\ acCall'[d].before \subseteq acIssued'
          /\ Pending(d)' => acCall'[d].secret \in (1 .. acMade') \ (acIssued' \cup {acSecret'})
          /\ Pending(d)' \/ acCall'[d].at = "published" => acMade' \notin acCall'[d].before
          /\ acCall'[d].at = "published" => acSecret' \notin acCall'[d].before
    BY <1>1, <1>2, <1>4, <1>5 DEF AcInv, AcTyped, Secrets, Pending
  <2>3. \A d, e \in Calls :
          Pending(d)' /\ Pending(e)' /\ acCall'[d].secret = acCall'[e].secret => d = e
    BY <1>1, <1>2, <1>4, <1>5 DEF AcInv, AcTyped, Secrets, Pending
  <2> QED BY <2>1, <2>2, <2>3 DEF Secrets
<1>9. Passwords'
  BY <1>1, <1>2, <1>4, <1>5, <1>6 DEF AcInv, AcTyped, Passwords, Changing
<1>10. FirstFile'
  BY <1>1, <1>2, <1>4, <1>5, <1>6 DEF AcInv, AcTyped, FirstFile, Changing
<1> QED BY <1>7, <1>8, <1>9, <1>10 DEF AcInv

LEMMA RotatePublishesSafe ==
  ASSUME AcInv, NEW c \in Calls, RotatePublishes(c)
  PROVE  AcInv'
<1>1. acLife = "up" /\ acCall[c].at = "written" /\ acCall[c] \in CallRecord
  BY LivesUp DEF RotatePublishes, Is, AcInv, AcTyped
<1>2. Idle \in CallRecord /\ Idle.at = "idle" /\ Idle.before = {}
  BY CallGoes DEF AcInv
<1>3. /\ acCall' = [acCall EXCEPT ![c] = Idle]
      /\ acSecret' = acCall[c].secret /\ acRevoked' = acRevoked \cup acCall[c].before
      /\ UNCHANGED <<acDb, acUser, acPath, acFile, acKept, acLife, acIssued, acMade, acSet>>
  BY DEF RotatePublishes, Returns, acTables, acFiles, acCounts
<1>4. \A d \in Calls : acCall'[d] = IF d = c THEN Idle ELSE acCall[d]
  BY <1>3 DEF AcInv, AcTyped
<1>5. acSecret' \in (1 .. acMade) \ (acIssued \cup {acSecret})
  BY <1>1, <1>3 DEF AcInv, Secrets, Pending
<1>6. AcTyped'
  BY <1>1, <1>2, <1>3, <1>5 DEF AcInv, AcTyped, CallRecord
<1>7. Secrets'
  <2>1. /\ acDb'.secret = acMade' /\ acSecret' <= acMade' /\ acIssued' \subseteq 1 .. acMade'
        /\ acRevoked' \subseteq acIssued' /\ acSecret' \notin acRevoked'
        /\ acMade' \notin acRevoked' /\ acLife' = "up"
    <3>1. acCall[c].before \subseteq acIssued /\ acMade \notin acCall[c].before
      BY <1>1 DEF AcInv, Secrets, Pending
    <3>2. /\ acDb.secret = acMade /\ acIssued \subseteq 1 .. acMade /\ acRevoked \subseteq acIssued
          /\ acMade \notin acRevoked /\ acMade \in Nat
      BY DEF AcInv, AcTyped, Secrets
    <3>3. acRevoked' \subseteq acIssued /\ acMade \notin acRevoked'
      BY <1>3, <3>1, <3>2
    <3>4. acSecret' <= acMade /\ acSecret' \notin acIssued
      BY <1>5, <3>2
    <3> QED BY <1>1, <1>3, <3>2, <3>3, <3>4
  <2>2. \A d \in Calls :
          /\ acCall'[d].before \subseteq acIssued'
          /\ Pending(d)' => acCall'[d].secret \in (1 .. acMade') \ (acIssued' \cup {acSecret'})
          /\ Pending(d)' \/ acCall'[d].at = "published" => acMade' \notin acCall'[d].before
          /\ acCall'[d].at = "published" => acSecret' \notin acCall'[d].before
    BY <1>1, <1>2, <1>3, <1>4, <1>5 DEF AcInv, AcTyped, Secrets, Pending
  <2>3. \A d, e \in Calls :
          Pending(d)' /\ Pending(e)' /\ acCall'[d].secret = acCall'[e].secret => d = e
    BY <1>1, <1>2, <1>4 DEF AcInv, AcTyped, Secrets, Pending
  <2> QED BY <2>1, <2>2, <2>3 DEF Secrets
<1>8. Passwords'
  BY <1>1, <1>2, <1>3, <1>4 DEF AcInv, AcTyped, Passwords, Changing
<1>9. FirstFile'
  BY <1>1, <1>2, <1>3, <1>4 DEF AcInv, AcTyped, FirstFile, Changing
<1> QED BY <1>6, <1>7, <1>8, <1>9 DEF AcInv

\* A login signs with the secret in the cache, or with one that it makes.
LEMMA IssueSafe ==
  ASSUME AcInv, NEW c \in Calls, IssueToken(c)
  PROVE  AcInv'
<1>1. acLife = "up" /\ acCall[c].at = "signing" /\ acCall[c] \in CallRecord /\ acMade + 1 \in Nat
  BY LivesUp DEF IssueToken, Is, AcInv, AcTyped
<1>2. Idle \in CallRecord /\ Idle.at = "idle" /\ Idle.before = {}
  BY CallGoes DEF AcInv
<1>3. /\ acCall' = [acCall EXCEPT ![c] = Idle]
      /\ acIssued' = acIssued \cup {acSecret'}
      /\ UNCHANGED <<acUser, acPath, acFile, acKept, acLife, acRevoked, acSet>>
  BY DEF IssueToken, Returns, acFiles
<1>4. \A d \in Calls : acCall'[d] = IF d = c THEN Idle ELSE acCall[d]
  BY <1>3 DEF AcInv, AcTyped
<1>5. \/ acSecret \in 1 .. acMade /\ acMade' = acMade /\ acDb' = acDb /\ acSecret' = acSecret
      \/ /\ acMade' = acMade + 1 /\ acSecret' = acMade + 1
         /\ acDb' = [acDb EXCEPT !.secret = acMade + 1]
  BY DEF IssueToken, MakeSecret, AcInv, AcTyped, Secrets
<1>6. /\ acDb' \in [user : User, secret : Nat] /\ acDb'.secret = acMade' /\ acDb'.user = acDb.user
  BY <1>1, <1>5 DEF AcInv, AcTyped, Secrets
<1>7. acSecret' \in 1 .. acMade' /\ acMade' \in Nat
  BY <1>1, <1>5 DEF AcInv, AcTyped
<1>8. AcTyped'
  BY <1>2, <1>3, <1>6, <1>7 DEF AcInv, AcTyped
<1>9. Secrets'
  <2>1. /\ acDb'.secret = acMade' /\ acSecret' <= acMade' /\ acIssued' \subseteq 1 .. acMade'
        /\ acRevoked' \subseteq acIssued' /\ acSecret' \notin acRevoked'
        /\ acMade' \notin acRevoked' /\ acLife' = "up"
    BY <1>1, <1>3, <1>5, <1>6, <1>7 DEF AcInv, AcTyped, Secrets
  <2>2. \A d \in Calls :
          /\ acCall'[d].before \subseteq acIssued'
          /\ Pending(d)' => acCall'[d].secret \in (1 .. acMade') \ (acIssued' \cup {acSecret'})
          /\ Pending(d)' \/ acCall'[d].at = "published" => acMade' \notin acCall'[d].before
          /\ acCall'[d].at = "published" => acSecret' \notin acCall'[d].before
    BY <1>1, <1>2, <1>3, <1>4, <1>5 DEF AcInv, AcTyped, Secrets, Pending
  <2>3. \A d, e \in Calls :
          Pending(d)' /\ Pending(e)' /\ acCall'[d].secret = acCall'[e].secret => d = e
    BY <1>1, <1>2, <1>4 DEF AcInv, AcTyped, Secrets, Pending
  <2> QED BY <2>1, <2>2, <2>3 DEF Secrets
<1>10. Passwords'
  BY <1>1, <1>2, <1>3, <1>4, <1>6 DEF AcInv, AcTyped, Passwords, Changing
<1>11. FirstFile'
  BY <1>1, <1>2, <1>3, <1>4, <1>6 DEF AcInv, AcTyped, FirstFile, Changing
<1> QED BY <1>8, <1>9, <1>10, <1>11 DEF AcInv

LEMMA AcStep == AcInv /\ AcNext => AcInv'
<1> SUFFICES ASSUME AcInv, AcNext
             PROVE  AcInv'
  OBVIOUS
<1>1. CASE AcTick
  BY <1>1, AcStutter DEF AcTick, acSeen, acTables, acCaches, acCounts
<1>2. CASE Load \/ LoadUser \/ CreateUser \/ WriteFirstPassword \/ ProcessEnds
  BY <1>2, LifeSteps
<1>3. CASE TurnDown
  BY <1>3, TurnDownSafe
<1>4. ASSUME NEW c \in Calls,
             \/ \E kind \in {"login", "logout", "password", "rename"} : Arrive(c, kind)
             \/ CheckFirst(c) \/ CheckAgain(c) \/ CommitChange(c) \/ ChangeFails(c)
             \/ PublishChange(c) \/ FinishChange(c) \/ Rename(c)
             \/ RotateWrites(c) \/ RotateFails(c) \/ RotatePublishes(c)
             \/ LoginChecks(c) \/ LoginVerifies(c) \/ RecordFailure(c) \/ ResetFailures(c)
             \/ IssueToken(c)
      PROVE  AcInv'
  BY <1>4, PlainSteps, CheckAgainSafe, CommitSafe, PublishSafe, FinishSafe, RenameSafe,
     RotateWritesSafe, RotatePublishesSafe, IssueSafe
<1> QED BY <1>1, <1>2, <1>3, <1>4 DEF AcNext

-----------------------------------------------------------------------------
(* The limit of failed logins.                                             *)

\* The logins that were let in and have not had their answer yet.
Flying == {c \in Calls : acCall[c].at \in {"allowed", "wrong"}}

FailTyped == acTime \in Nat /\ acFails \in [1..MaxHour -> Nat]

\* One login is let in while the failures are too few, and the others together with it: each
\* may still add one.
FailInv ==
    /\ FailTyped
    /\ IsFiniteSet(OnRecord(acFails))
    /\ Failures(acFails) + Cardinality(Flying) <= MaxFails + Cardinality(Calls) - 1

\* Logins under way are calls, and so finitely many.
LEMMA FlyingFinite ==
  /\ IsFiniteSet(Flying) /\ Cardinality(Flying) \in Nat
  /\ Cardinality(Flying) <= Cardinality(Calls)
  /\ Cardinality(Calls) \in Nat /\ Cardinality(Calls) > 0 /\ MaxFails \in Nat
<1>1. Flying \subseteq Calls
  BY DEF Flying
<1>2. IsFiniteSet(Calls) /\ Calls # {}
  BY AccountAssumption
<1>3. Cardinality(Calls) # 0 /\ Cardinality(Calls) \in Nat
  BY <1>2, FS_EmptySet, FS_CardinalityType
<1>4. IsFiniteSet(Flying) /\ Cardinality(Flying) <= Cardinality(Calls)
  BY <1>1, <1>2, FS_Subset
<1>5. Cardinality(Flying) \in Nat
  BY <1>4, FS_CardinalityType
<1> QED BY <1>3, <1>4, <1>5, AccountAssumption

\* There are none in the initial states.
LEMMA FailInitSafe == AcInit => FailInv
<1> SUFFICES ASSUME AcInit
             PROVE  FailInv
  OBVIOUS
<1>1. Flying = {}
  BY DEF AcInit, Flying, Idle
<1>2. FailTyped
  BY DEF AcInit, FailTyped
<1>3. OnRecord(acFails) = {}
  BY DEF AcInit, OnRecord, Recently
<1>4. Failures(acFails) = 0 /\ Cardinality(Flying) = 0 /\ IsFiniteSet(OnRecord(acFails))
  BY <1>1, <1>3, FS_EmptySet DEF Failures
<1> QED BY <1>2, <1>4, FlyingFinite DEF FailInv

\* Fewer failures on record, and fewer logins that may fail.
LEMMA FewerFail ==
  ASSUME FailInv, FailTyped', OnRecord(acFails)' \subseteq OnRecord(acFails),
         Flying' \subseteq Flying
  PROVE  FailInv'
<1>1. /\ IsFiniteSet(OnRecord(acFails)')
      /\ Cardinality(OnRecord(acFails)') <= Cardinality(OnRecord(acFails))
  BY FS_Subset DEF FailInv
<1>2. Cardinality(Flying') <= Cardinality(Flying) /\ Cardinality(Flying') \in Nat
  BY FlyingFinite, FS_Subset, FS_CardinalityType
<1>3. Cardinality(OnRecord(acFails)) \in Nat /\ Cardinality(OnRecord(acFails)') \in Nat
  BY <1>1, FS_CardinalityType DEF FailInv
<1>4. Cardinality(OnRecord(acFails)) + Cardinality(Flying) <= MaxFails + Cardinality(Calls) - 1
  BY DEF FailInv, Failures
<1>5. Cardinality(OnRecord(acFails)') + Cardinality(Flying') <= MaxFails + Cardinality(Calls) - 1
  BY <1>1, <1>2, <1>3, <1>4, FlyingFinite
<1> QED BY <1>1, <1>5 DEF FailInv, Failures

\* Sweeping deletes what no longer counts.
LEMMA SweptCounts ==
  ASSUME FailTyped
  PROVE  Swept \in [1..MaxHour -> Nat] /\ OnRecord(Swept) = OnRecord(acFails)
<1>1. Swept \in [1..MaxHour -> Nat]
  BY DEF FailTyped, Swept
<1>2. \A t \in Recently : Swept[t] = acFails[t]
  BY DEF Recently, Swept
<1> QED BY <1>1, <1>2 DEF OnRecord

\* A call that returns, or goes to any other place than that of a login that may fail.
LEMMA Lands ==
  ASSUME AcTyped, NEW c \in Calls, NEW call, acCall' = [acCall EXCEPT ![c] = call],
         call.at \notin {"allowed", "wrong"}
  PROVE  Flying' = Flying \ {c}
<1>1. \A d \in Calls : acCall'[d] = IF d = c THEN call ELSE acCall[d]
  BY DEF AcTyped
<1> QED BY <1>1 DEF Flying

\* The same by the operators of the actions.
LEMMA GoesOrReturns ==
  ASSUME AcTyped, NEW c \in Calls
  PROVE  /\ \A place : place \notin {"allowed", "wrong"} /\ Goes(c, place) => Flying' = Flying \ {c}
         /\ Returns(c) => Flying' = Flying \ {c}
<1>1. ASSUME NEW place, place \notin {"allowed", "wrong"}, Goes(c, place)
      PROVE  Flying' = Flying \ {c}
  <2>1. acCall[c] \in CallRecord
    BY DEF AcTyped
  <2>2. [acCall[c] EXCEPT !.at = place].at = place
    BY <2>1 DEF CallRecord
  <2>3. acCall' = [acCall EXCEPT ![c] = [acCall[c] EXCEPT !.at = place]]
    BY <1>1 DEF Goes, AcTyped
  <2> QED BY <1>1, <2>2, <2>3, Lands
<1>2. ASSUME Returns(c)
      PROVE  Flying' = Flying \ {c}
  BY <1>2, Lands DEF Returns, Idle
<1> QED BY <1>1, <1>2

\* A step that neither reads nor writes the failures, and lets no login in.
LEMMA OthersFail ==
  ASSUME FailInv, UNCHANGED <<acTime, acFails>>, Flying' \subseteq Flying
  PROVE  FailInv'
<1>1. FailTyped' /\ OnRecord(acFails)' = OnRecord(acFails)
  BY DEF FailInv, FailTyped, OnRecord, Recently, Gone
<1> QED BY <1>1, FewerFail

\* The clock, and the start and the end of the process.
LEMMA LifeFails ==
  ASSUME AcTyped, FailInv,
         AcTick \/ Load \/ LoadUser \/ CreateUser \/ WriteFirstPassword \/ ProcessEnds \/ TurnDown
  PROVE  FailInv'
<1>1. CASE AcTick
  <2>1. FailTyped' /\ acFails' = acFails
    BY <1>1 DEF AcTick, acTables, FailInv, FailTyped
  <2>2. Recently' \subseteq Recently
    BY <1>1, AccountAssumption DEF AcTick, FailInv, FailTyped, Recently, Gone
  <2>3. OnRecord(acFails)' \subseteq OnRecord(acFails)
    BY <2>1, <2>2 DEF OnRecord
  <2>4. Flying' = Flying
    BY <1>1 DEF AcTick, Flying
  <2> QED BY <2>1, <2>3, <2>4, FewerFail
<1>2. CASE Load \/ LoadUser \/ CreateUser \/ WriteFirstPassword \/ TurnDown
  <2>1. UNCHANGED <<acTime, acFails, acCall>>
    BY <1>2 DEF Load, LoadUser, CreateUser, WriteFirstPassword, TurnDown, acTables
  <2>2. Flying' = Flying
    BY <2>1 DEF Flying
  <2> QED BY <2>1, <2>2, OthersFail
<1>3. CASE ProcessEnds
  <2>1. UNCHANGED <<acTime, acFails>> /\ \A c \in Calls : acCall'[c] = Idle
    BY <1>3 DEF ProcessEnds, acTables
  <2>2. Flying' = {}
    BY <2>1 DEF Flying, Idle
  <2> QED BY <2>1, <2>2, OthersFail
<1> QED BY <1>1, <1>2, <1>3

\* The steps of a call that have no part in the failures.
LEMMA CallsFail ==
  ASSUME AcTyped, FailInv, NEW c \in Calls,
         \/ \E kind \in {"login", "logout", "password", "rename"} : Arrive(c, kind)
         \/ CheckFirst(c) \/ CheckAgain(c) \/ CommitChange(c) \/ ChangeFails(c)
         \/ PublishChange(c) \/ FinishChange(c) \/ Rename(c)
         \/ RotateWrites(c) \/ RotateFails(c) \/ RotatePublishes(c) \/ IssueToken(c)
  PROVE  FailInv'
<1>1. UNCHANGED <<acTime, acFails>>
  BY DEF Arrive, CheckFirst, CheckAgain, CommitChange, ChangeFails, PublishChange, FinishChange,
         Rename, RotateWrites, RotateFails, RotatePublishes, IssueToken, acTables
<1>2. acCall[c] \in CallRecord
  BY DEF AcTyped
<1>3. Flying' = Flying \ {c}
  <2>1. CASE \E kind \in {"login", "logout", "password", "rename"} : Arrive(c, kind)
    <3>1. PICK kind, known :
             acCall' = [acCall EXCEPT ![c] = [Idle EXCEPT !.kind = kind, !.at = "arrived",
                                                 !.knows = known, !.before = acIssued]]
      BY <2>1 DEF Arrive
    <3> QED BY <3>1, Lands DEF Idle
  <2>2. CASE CommitChange(c)
    <3> DEFINE call == [acCall[c] EXCEPT !.at = "committed", !.secret = acMade']
    <3>1. acCall' = [acCall EXCEPT ![c] = call]
      BY <2>2 DEF CommitChange, AcTyped
    <3>2. call.at = "committed"
      BY <1>2 DEF CallRecord
    <3> QED BY <3>1, <3>2, Lands
  <2>3. CASE RotateWrites(c)
    <3> DEFINE call == [acCall[c] EXCEPT !.at = "written", !.secret = acMade']
    <3>1. acCall' = [acCall EXCEPT ![c] = call]
      BY <2>3 DEF RotateWrites, AcTyped
    <3>2. call.at = "written"
      BY <1>2 DEF CallRecord
    <3> QED BY <3>1, <3>2, Lands
  <2>4. CASE CheckFirst(c) \/ CheckAgain(c) \/ PublishChange(c)
    <3>1. Returns(c) \/ \E place \in {"passed", "checked", "published"} : Goes(c, place)
      BY <2>4 DEF CheckFirst, CheckAgain, PublishChange
    <3> QED BY <3>1, GoesOrReturns
  <2>5. CASE ChangeFails(c) \/ FinishChange(c) \/ Rename(c) \/ RotateFails(c)
             \/ RotatePublishes(c) \/ IssueToken(c)
    BY <2>5, GoesOrReturns
       DEF ChangeFails, FinishChange, Rename, RotateFails, RotatePublishes, IssueToken
  <2> QED BY <2>1, <2>2, <2>3, <2>4, <2>5
<1> QED BY <1>1, <1>3, OthersFail

\* A login is let in while the failures are too few.
LEMMA CheckFails ==
  ASSUME AcTyped, FailInv, NEW c \in Calls, LoginChecks(c)
  PROVE  FailInv'
<1>1. FailTyped' /\ OnRecord(acFails)' = OnRecord(acFails)
  <2>1. acTime' = acTime /\ acFails' = Swept
    BY DEF LoginChecks
  <2>2. OnRecord(acFails)' = OnRecord(Swept)
    BY <2>1 DEF OnRecord, Recently, Gone
  <2> QED BY <2>1, <2>2, SweptCounts DEF FailInv, FailTyped
<1>2. CASE Returns(c)
  BY <1>1, <1>2, GoesOrReturns, FewerFail
<1>3. CASE Failures(acFails') < MaxFails
  <2>1. Failures(acFails') = Cardinality(OnRecord(acFails))
    <3>1. OnRecord(acFails') = OnRecord(acFails)
      BY SweptCounts DEF LoginChecks, FailInv
    <3> QED BY <3>1 DEF Failures
  <2>2. Cardinality(OnRecord(acFails)) \in Nat
    BY FS_CardinalityType DEF FailInv
  <2>3. Cardinality(OnRecord(acFails)) < MaxFails
    BY <1>3, <2>1
  <2>4. Flying' \subseteq Calls
    BY DEF Flying
  <2>5. Cardinality(Flying') \in Nat /\ Cardinality(Flying') <= Cardinality(Calls)
    BY <2>4, AccountAssumption, FS_Subset, FS_CardinalityType
  <2>6. Cardinality(OnRecord(acFails)) + Cardinality(Flying') <= MaxFails + Cardinality(Calls) - 1
    BY <2>2, <2>3, <2>5, FlyingFinite
  <2> QED BY <1>1, <2>6 DEF FailInv, Failures
<1> QED BY <1>2, <1>3 DEF LoginChecks

\* A failure takes the place of the login that failed, if it is written down.
LEMMA RecordFails ==
  ASSUME AcTyped, FailInv, NEW c \in Calls, RecordFailure(c)
  PROVE  FailInv'
<1>1. Flying' = Flying \ {c} /\ c \in Flying /\ acTime' = acTime
  BY GoesOrReturns DEF RecordFailure, Is, Flying
<1>2. Swept \in [1..MaxHour -> Nat] /\ OnRecord(Swept) = OnRecord(acFails)
  BY SweptCounts DEF FailInv
<1>3. OnRecord(acFails)' = OnRecord(acFails')
  BY <1>1 DEF OnRecord, Recently, Gone
<1>4. CASE acFails' = Swept
  BY <1>1, <1>2, <1>3, <1>4, FewerFail DEF FailInv, FailTyped
<1>5. CASE acFails' = [Swept EXCEPT ![acTime] = @ + 1]
  <2>1. PICK row : row = <<acTime, Swept[acTime] + 1>>
    OBVIOUS
  <2>2. FailTyped'
    <3>1. \A t \in 1..MaxHour : acFails'[t] \in Nat
      BY <1>2, <1>5
    <3>2. acFails' \in [1..MaxHour -> Nat]
      BY <1>2, <1>5, <3>1
    <3> QED BY <1>1, <3>2 DEF FailInv, FailTyped
  <2>3. OnRecord(acFails') \subseteq OnRecord(acFails) \cup {row}
    <3>1. ASSUME NEW t \in Recently, NEW n \in 1..acFails'[t]
          PROVE  <<t, n>> \in OnRecord(Swept) \cup {row}
      <4>1. t \in 1..MaxHour
        BY DEF Recently
      <4>2. CASE n \in 1..Swept[t]
        BY <4>2 DEF OnRecord
      <4>3. CASE n \notin 1..Swept[t]
        <5>1. t = acTime
          BY <1>2, <1>5, <4>1, <4>3
        <5>2. acFails'[t] = Swept[t] + 1 /\ Swept[t] \in Nat
          BY <1>2, <1>5, <4>1, <5>1
        <5>3. n = Swept[t] + 1
          BY <4>3, <5>2
        <5> QED BY <2>1, <5>1, <5>3
      <4> QED BY <4>2, <4>3
    <3> QED BY <1>2, <3>1 DEF OnRecord
  <2>4. /\ IsFiniteSet(OnRecord(acFails) \cup {row})
        /\ Cardinality(OnRecord(acFails) \cup {row}) <= Cardinality(OnRecord(acFails)) + 1
        /\ Cardinality(OnRecord(acFails) \cup {row}) \in Nat
        /\ Cardinality(OnRecord(acFails)) \in Nat
    <3>1. IsFiniteSet(OnRecord(acFails)) /\ Cardinality(OnRecord(acFails)) \in Nat
      BY FS_CardinalityType DEF FailInv
    <3>2. /\ IsFiniteSet(OnRecord(acFails) \cup {row})
          /\ Cardinality(OnRecord(acFails) \cup {row}) \in
                {Cardinality(OnRecord(acFails)), Cardinality(OnRecord(acFails)) + 1}
      BY <3>1, FS_AddElement
    <3> QED BY <3>1, <3>2
  <2>5. /\ IsFiniteSet(OnRecord(acFails')) /\ Cardinality(OnRecord(acFails')) \in Nat
        /\ Cardinality(OnRecord(acFails')) <= Cardinality(OnRecord(acFails) \cup {row})
    BY <2>3, <2>4, FS_Subset, FS_CardinalityType
  <2>6. Cardinality(Flying') = Cardinality(Flying) - 1
    BY <1>1, FlyingFinite, FS_RemoveElement
  <2>7. Cardinality(OnRecord(acFails)) + Cardinality(Flying) <= MaxFails + Cardinality(Calls) - 1
    BY DEF FailInv, Failures
  <2>8. Cardinality(OnRecord(acFails')) + Cardinality(Flying') <= MaxFails + Cardinality(Calls) - 1
    BY <2>4, <2>5, <2>6, <2>7, FlyingFinite
  <2> QED BY <1>3, <2>2, <2>5, <2>8 DEF FailInv, Failures
<1> QED BY <1>4, <1>5 DEF RecordFailure

\* The other steps of a login.
LEMMA LoginFails ==
  ASSUME AcTyped, FailInv, NEW c \in Calls, LoginVerifies(c) \/ ResetFailures(c)
  PROVE  FailInv'
<1>1. CASE LoginVerifies(c)
  <2>1. PICK place : Goes(c, place) /\ UNCHANGED <<acTime, acFails>> /\ c \in Flying
    BY <1>1 DEF LoginVerifies, acTables, Is, Flying
  <2>2. \A d \in Calls \ {c} : acCall'[d] = acCall[d]
    BY <2>1 DEF Goes, AcTyped
  <2>3. Flying' \subseteq Flying
    BY <2>1, <2>2 DEF Flying
  <2> QED BY <2>1, <2>3, OthersFail
<1>2. CASE ResetFailures(c)
  <2>1. Flying' = Flying \ {c} /\ acTime' = acTime
    BY <1>2, GoesOrReturns DEF ResetFailures
  <2>2. CASE acFails' = [t \in 1..MaxHour |-> 0]
    <3>1. FailTyped' /\ OnRecord(acFails)' = {}
      BY <2>1, <2>2 DEF FailInv, FailTyped, OnRecord, Recently
    <3> QED BY <2>1, <3>1, FewerFail
  <2>3. CASE acFails' = acFails
    BY <2>1, <2>3, OthersFail
  <2> QED BY <1>2, <2>2, <2>3 DEF ResetFailures
<1> QED BY <1>1, <1>2

\* Every step keeps the limit.
LEMMA FailStep == AcTyped /\ FailInv /\ AcNext => FailInv'
  BY LifeFails, CallsFail, CheckFails, RecordFails, LoginFails DEF AcNext

LEMMA FailStutter == FailInv /\ UNCHANGED <<acTime, acFails, acCall>> => FailInv'
  BY OthersFail DEF Flying
=============================================================================
