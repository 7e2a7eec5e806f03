------------------------------- MODULE Account -------------------------------
(***************************************************************************)
(* The one administrator: the row of its user and the signing secret of    *)
(* its tokens, the caches of both, the file with the first password, and   *)
(* the table of failed logins.  A change of the password holds userMu, a   *)
(* rotation of the secret holds jwtSecretMu, and both write the secret.    *)
(* The process may end between any two steps and is started again.         *)
(***************************************************************************)
EXTENDS Naturals, FiniteSets

CONSTANTS
    Calls,          \* calls of the panel under way at one time
    MaxFails,       \* loginMaxFailures
    FailWindow,     \* loginFailWindow, in ticks
    SweepEvery,     \* a quarter of it
    MaxHour,        \* bound of the clock
    MaxSecrets,     \* bound: secrets ever made
    MaxPasswords,   \* bound: passwords ever set
    MaxMishaps      \* bound: writes and removals that fail, and ends of the process

ASSUME AccountAssumption ==
    /\ IsFiniteSet(Calls) /\ Calls # {}
    /\ {MaxFails, FailWindow, SweepEvery, MaxHour} \subseteq Nat

VARIABLES
    acTime,     \* the clock
    acDb,       \* the tables: the user, if there is one, and the secret, 0 for none
    acUser,     \* userCache
    acSecret,   \* the secret in settingCache, 0 for none
    acFile,     \* the file with the first password exists
    acPath,     \* initialPasswordFilePath is set
    acKept,     \* the file could not be removed in this life of the process
    acLife,     \* the process: "down", "loading" (InitCache done), "writing" (its user is
                \* created, the file is not written), "up"
    acCall,     \* per call: its kind and step, the password it knows, the tokens before it
    acFails,    \* login_attempts: per hour the failures on record, of one address
    acSwept,    \* lastSweep, 0 for never
    acIssued,   \* secrets that tokens have been signed with
    acRevoked,  \* those whose tokens a finished change or logout was to revoke
    acMade,     \* secrets made so far
    acSet,      \* passwords set so far
    acMishaps

acTables == <<acDb, acFails>>
acCaches == <<acUser, acSecret, acPath, acSwept>>
acFiles == <<acFile, acKept>>
acTokens == <<acIssued, acRevoked>>
acCounts == <<acMade, acSet, acMishaps>>
acVars == <<acTime, acTables, acCaches, acFiles, acLife, acCall, acTokens, acCounts>>

NoUser == [password |-> 0, must |-> FALSE, name |-> 0]
Idle == [kind |-> "none", at |-> "idle", knows |-> 0, before |-> {}, secret |-> 0]

AcInit ==
    /\ acTime = 1
    /\ acDb = [user |-> NoUser, secret |-> 0]
    /\ acUser = NoUser
    /\ acSecret = 0
    /\ acFile = FALSE
    /\ acPath = FALSE
    /\ acKept = FALSE
    /\ acLife = "down"
    /\ acCall = [c \in Calls |-> Idle]
    /\ acFails = [t \in 1..MaxHour |-> 0]
    /\ acSwept = 0
    /\ acIssued = {}
    /\ acRevoked = {}
    /\ acMade = 0
    /\ acSet = 0
    /\ acMishaps = 0

MayMishap == acMishaps < MaxMishaps /\ acMishaps' = acMishaps + 1

AcTick ==
    /\ acTime < MaxHour
    /\ acTime' = acTime + 1
    /\ UNCHANGED <<acTables, acCaches, acFiles, acLife, acCall, acTokens, acCounts>>

(***************************** start and end *******************************)

\* InitCache; nothing of an earlier life is in memory.
Load ==
    /\ acLife = "down"
    /\ acLife' = "loading"
    /\ acSecret' = acDb.secret
    /\ acPath' = TRUE
    /\ acKept' = FALSE
    /\ UNCHANGED <<acTime, acTables, acUser, acSwept, acFile, acCall, acTokens, acCounts>>

\* UserInit with a user: the file of a password that was changed is removed, if it can be.
LoadUser ==
    /\ acLife = "loading"
    /\ acDb.user # NoUser
    /\ acUser' = acDb.user
    /\ acLife' = "up"
    /\ acPath' = acDb.user.must
    /\ \/ ~acDb.user.must /\ acFile /\ MayMishap /\ acKept' = TRUE /\ UNCHANGED acFile
       \/ acFile' = (acFile /\ acDb.user.must) /\ UNCHANGED <<acKept, acMishaps>>
    /\ UNCHANGED <<acTime, acTables, acSecret, acSwept, acCall, acTokens, acMade, acSet>>

\* UserInit without one: the row comes first, ...
CreateUser ==
    /\ acLife = "loading"
    /\ acDb.user = NoUser
    /\ acSet' = acSet + 1
    /\ acUser' = [password |-> acSet', must |-> TRUE, name |-> 1]
    /\ acDb' = [acDb EXCEPT !.user = acUser']
    /\ acLife' = "writing"
    /\ UNCHANGED <<acTime, acFails, acSecret, acPath, acSwept, acFiles, acCall, acTokens,
                   acMade, acMishaps>>

\* ... then the file; if that fails, the start does.
WriteFirstPassword ==
    /\ acLife = "writing"
    /\ acFile' = TRUE
    /\ acLife' = "up"
    /\ UNCHANGED <<acTime, acTables, acCaches, acKept, acCall, acTokens, acCounts>>

\* The process ends: its calls never return.
ProcessEnds ==
    /\ acLife # "down"
    /\ MayMishap
    /\ acLife' = "down"
    /\ acUser' = NoUser
    /\ acSecret' = 0
    /\ acPath' = FALSE
    /\ acSwept' = 0
    /\ acCall' = [c \in Calls |-> Idle]
    /\ UNCHANGED <<acTime, acTables, acFiles, acTokens, acMade, acSet>>

(********************************* calls ***********************************)

Is(c, kind, place) == acCall[c].kind = kind /\ acCall[c].at = place
Goes(c, place) == acCall' = [acCall EXCEPT ![c].at = place]
Returns(c) == acCall' = [acCall EXCEPT ![c] = Idle]

\* The locks: userMu is held from the second check to the end of the change, jwtSecretMu
\* while a rotation has written the table and not yet the cache.
UserLocked == \E c \in Calls : acCall[c].at \in {"checked", "committed", "published"}
SecretLocked == \E c \in Calls : Is(c, "logout", "written")

\* AuthJWTSecretGet, which verifies and signs tokens, makes a secret if there is none: in the
\* table, and in the cache.
MakeSecret ==
    /\ acMade < MaxSecrets
    /\ acMade' = acMade + 1
    /\ acDb' = [acDb EXCEPT !.secret = acMade']
    /\ acSecret' = acMade'

\* Auth turns a token down that was signed by no secret of this table.
TurnDown ==
    /\ acLife = "up"
    /\ ~SecretLocked
    /\ acSecret = 0
    /\ MakeSecret
    /\ UNCHANGED <<acTime, acFails, acUser, acPath, acSwept, acFiles, acLife, acCall, acTokens,
                   acSet, acMishaps>>

\* Auth: a token signed with the secret in the cache, and before the first password has
\* been changed only the calls that change it or log out.
Authorized(kind) ==
    /\ ~UserLocked
    /\ ~SecretLocked
    /\ acSecret \in acIssued
    /\ acUser.must => kind # "rename"

Arrive(c, kind) ==
    /\ acLife = "up"
    /\ acCall[c] = Idle
    /\ kind # "login" => Authorized(kind)
    /\ \E known \in {acUser.password, 0} :
          acCall' = [acCall EXCEPT ![c] = [Idle EXCEPT !.kind = kind, !.at = "arrived",
                                              !.knows = known, !.before = acIssued]]
    /\ UNCHANGED <<acTime, acTables, acCaches, acFiles, acLife, acTokens, acCounts>>

\* The first check of UserChangePassword, under the read lock.
CheckFirst(c) ==
    /\ Is(c, "password", "arrived")
    /\ ~UserLocked
    /\ IF acCall[c].knows = acUser.password THEN Goes(c, "passed") ELSE Returns(c)
    /\ UNCHANGED <<acTime, acTables, acCaches, acFiles, acLife, acTokens, acCounts>>

\* Mutated: the password is not compared again under the write lock.
CheckOnce(c) ==
    /\ Is(c, "password", "passed")
    /\ ~UserLocked
    /\ Goes(c, "checked")
    /\ UNCHANGED <<acTime, acTables, acCaches, acFiles, acLife, acTokens, acCounts>>

\* The second, under the write lock that is now kept.
CheckAgain(c) ==
    /\ Is(c, "password", "passed")
    /\ ~UserLocked
    /\ IF acCall[c].knows = acUser.password THEN Goes(c, "checked") ELSE Returns(c)
    /\ UNCHANGED <<acTime, acTables, acCaches, acFiles, acLife, acTokens, acCounts>>

\* The transaction writes user and secret, or neither.
CommitChange(c) ==
    /\ Is(c, "password", "checked")
    /\ acMade < MaxSecrets
    /\ acSet < MaxPasswords
    /\ acMade' = acMade + 1
    /\ acSet' = acSet + 1
    /\ acDb' = [user |-> [acDb.user EXCEPT !.password = acSet', !.must = FALSE],
                secret |-> acMade']
    /\ acCall' = [acCall EXCEPT ![c].at = "committed", ![c].secret = acMade']
    /\ UNCHANGED <<acTime, acFails, acCaches, acFiles, acLife, acTokens, acMishaps>>

ChangeFails(c) ==
    /\ Is(c, "password", "checked")
    /\ MayMishap
    /\ Returns(c)
    /\ UNCHANGED <<acTime, acTables, acCaches, acFiles, acLife, acTokens, acMade, acSet>>

\* The caches take what this call wrote, whatever the table of the secret holds by now.
PublishChange(c) ==
    /\ Is(c, "password", "committed")
    /\ acUser' = [acUser EXCEPT !.password = acDb.user.password, !.must = FALSE]
    /\ acSecret' = acCall[c].secret
    /\ Goes(c, "published")
    /\ UNCHANGED <<acTime, acTables, acPath, acSwept, acFiles, acLife, acTokens, acCounts>>

\* The path is forgotten before the file is removed; a failure still reports success.
FinishChange(c) ==
    /\ Is(c, "password", "published")
    /\ acPath' = FALSE
    /\ \/ acPath /\ acFile /\ MayMishap /\ acKept' = TRUE /\ UNCHANGED acFile
       \/ acFile' = (acFile /\ ~acPath) /\ UNCHANGED <<acKept, acMishaps>>
    /\ acRevoked' = acRevoked \cup acCall[c].before
    /\ Returns(c)
    /\ UNCHANGED <<acTime, acTables, acUser, acSecret, acSwept, acLife, acIssued, acMade, acSet>>

\* UserChangeUsername under the write lock.  The update is given a pointer to the cache:
\* the new name is in the cache whether or not the transaction succeeds.
Rename(c) ==
    /\ Is(c, "rename", "arrived")
    /\ ~UserLocked
    /\ IF acCall[c].knows # acUser.password
       THEN UNCHANGED <<acUser, acDb, acMishaps>>
       ELSE /\ acUser' = [acUser EXCEPT !.name = 3 - @]
            /\ \/ acDb' = [acDb EXCEPT !.user.name = acUser'.name] /\ UNCHANGED acMishaps
               \/ MayMishap /\ UNCHANGED acDb
    /\ Returns(c)
    /\ UNCHANGED <<acTime, acFails, acSecret, acPath, acSwept, acFiles, acLife, acTokens,
                   acMade, acSet>>

\* AuthJWTRotateSecret: the table ...
RotateWrites(c) ==
    /\ Is(c, "logout", "arrived")
    /\ ~SecretLocked
    /\ acMade < MaxSecrets
    /\ acMade' = acMade + 1
    /\ acDb' = [acDb EXCEPT !.secret = acMade']
    /\ acCall' = [acCall EXCEPT ![c].at = "written", ![c].secret = acMade']
    /\ UNCHANGED <<acTime, acFails, acCaches, acFiles, acLife, acTokens, acSet, acMishaps>>

RotateFails(c) ==
    /\ Is(c, "logout", "arrived")
    /\ ~SecretLocked
    /\ MayMishap
    /\ Returns(c)
    /\ UNCHANGED <<acTime, acTables, acCaches, acFiles, acLife, acTokens, acMade, acSet>>

\* ... and then the cache.
RotatePublishes(c) ==
    /\ Is(c, "logout", "written")
    /\ acSecret' = acCall[c].secret
    /\ acRevoked' = acRevoked \cup acCall[c].before
    /\ Returns(c)
    /\ UNCHANGED <<acTime, acTables, acUser, acPath, acSwept, acFiles, acLife, acIssued,
                   acCounts>>

(********************************** logins *********************************)

\* sweepIfNeeded: what has left the window is deleted, not more often than SweepEvery.
Due == acSwept = 0 \/ acTime - acSwept >= SweepEvery
Gone(t) == t + FailWindow <= acTime
Swept == [t \in 1..MaxHour |-> IF Due /\ Gone(t) THEN 0 ELSE acFails[t]]

Recently == {t \in 1..MaxHour : ~Gone(t)}

\* The failures on record that have not left the window, told apart by their hour.
OnRecord(fails) == UNION {{t} \X (1..fails[t]) : t \in Recently}
Failures(fails) == Cardinality(OnRecord(fails))

\* check: refused while the window holds too many failures, or if the table is not read.
LoginChecks(c) ==
    /\ Is(c, "login", "arrived")
    /\ acFails' = Swept
    /\ acSwept' = IF Due THEN acTime ELSE acSwept
    /\ \/ Failures(acFails') < MaxFails /\ Goes(c, "allowed") /\ UNCHANGED acMishaps
       \/ Failures(acFails') >= MaxFails /\ Returns(c) /\ UNCHANGED acMishaps
       \/ MayMishap /\ Returns(c)
    /\ UNCHANGED <<acTime, acDb, acUser, acSecret, acPath, acFiles, acLife, acTokens, acMade,
                   acSet>>

\* UserVerify under the read lock, with the name on record and the password the call knows.
Verified(c) == acCall[c].knows = acUser.password /\ acDb.user.name = acUser.name

LoginVerifies(c) ==
    /\ Is(c, "login", "allowed")
    /\ ~UserLocked
    /\ Goes(c, IF Verified(c) THEN "verified" ELSE "wrong")
    /\ UNCHANGED <<acTime, acTables, acCaches, acFiles, acLife, acTokens, acCounts>>

\* recordFailure; a row that cannot be written is only logged.
RecordFailure(c) ==
    /\ Is(c, "login", "wrong")
    /\ acSwept' = IF Due THEN acTime ELSE acSwept
    /\ \/ acFails' = [Swept EXCEPT ![acTime] = @ + 1] /\ UNCHANGED acMishaps
       \/ acFails' = Swept /\ MayMishap
    /\ Returns(c)
    /\ UNCHANGED <<acTime, acDb, acUser, acSecret, acPath, acFiles, acLife, acTokens, acMade,
                   acSet>>

\* reset, whose failure is only logged.
ResetFailures(c) ==
    /\ Is(c, "login", "verified")
    /\ \/ acFails' = [t \in 1..MaxHour |-> 0] /\ UNCHANGED acMishaps
       \/ MayMishap /\ UNCHANGED acFails
    /\ Goes(c, "signing")
    /\ UNCHANGED <<acTime, acDb, acCaches, acFiles, acLife, acTokens, acMade, acSet>>

\* GenerateJWTToken.
IssueToken(c) ==
    /\ Is(c, "login", "signing")
    /\ ~SecretLocked
    /\ IF acSecret = 0 THEN MakeSecret ELSE UNCHANGED <<acMade, acDb, acSecret>>
    /\ acIssued' = acIssued \cup {acSecret'}
    /\ Returns(c)
    /\ UNCHANGED <<acTime, acFails, acUser, acPath, acSwept, acFiles, acLife, acRevoked, acSet,
                   acMishaps>>

AcNext ==
    \/ AcTick
    \/ Load
    \/ LoadUser
    \/ CreateUser
    \/ WriteFirstPassword
    \/ ProcessEnds
    \/ TurnDown
    \/ \E c \in Calls :
          \/ \E kind \in {"login", "logout", "password", "rename"} : Arrive(c, kind)
          \/ CheckFirst(c)
          \/ CheckAgain(c)
          \/ CommitChange(c)
          \/ ChangeFails(c)
          \/ PublishChange(c)
          \/ FinishChange(c)
          \/ Rename(c)
          \/ RotateWrites(c)
          \/ RotateFails(c)
          \/ RotatePublishes(c)
          \/ LoginChecks(c)
          \/ LoginVerifies(c)
          \/ RecordFailure(c)
          \/ ResetFailures(c)
          \/ IssueToken(c)

\* Tokens that existed when a logout or a change of the password began are good for nothing
\* once it has returned, in this life of the process and after a restart, although the two
\* kinds of calls write the secret under different locks (op/user.go:168, op/authsecret.go:40).
RevokedStayOut == acRevoked \cap {acSecret, acDb.secret} = {}

\* Of two changes that knew the same password, one is made: whoever is about to write knows
\* the password of the table (op/user.go:142).
OnePerPassword ==
    \A c \in Calls : Is(c, "password", "checked") => acCall[c].knows = acDb.user.password

\* Outside a change the cache has the password of the table, whatever failed.
PasswordsAgree ==
    acLife = "up" /\ ~UserLocked =>
        acUser.password = acDb.user.password /\ acUser.must = acDb.user.must

\* The file with the first password does not outlive the password, unless its removal fails.
FirstPasswordGone ==
    acLife = "up" /\ ~UserLocked /\ ~acDb.user.must => ~acFile \/ acKept

\* Logins that were let in together may all fail, and no more than those.
FailuresBounded == Failures(acFails) <= MaxFails + Cardinality(Calls) - 1

AccountSafe ==
    /\ RevokedStayOut
    /\ OnePerPassword
    /\ PasswordsAgree
    /\ FirstPasswordGone
    /\ FailuresBounded
=============================================================================
