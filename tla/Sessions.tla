-------------------------------- MODULE Sessions --------------------------------
(***************************************************************************)
(* Signing in (auth.rs, totp.rs) and what ends it: the password is         *)
(* checked, a user with a second factor gets a challenge and answers it    *)
(* with a code, and a session is inserted, each in a statement of its own. *)
(* Passwords, secrets and recovery codes are numbers that grow; every      *)
(* request holds what it read.  Cookies, CSRF tokens, Turnstile and the    *)
(* limit of attempts per address are left out.                             *)
(***************************************************************************)
EXTENDS Integers, FiniteSets

CONSTANTS
  Members,        \* users
  SignIns,        \* requests
  RecoveryCodes,  \* each secret comes with these
  MaxAttempts,    \* wrong codes a challenge takes: 6 in the code
  SessionStarts   \* users and bounds to start from

(* The users to start from.  Secrets are made at random: no two are alike. *)
SoundLogins(logins) ==
  /\ logins \in [Members -> [enabled : BOOLEAN, password : 0 .. 9, secret : 0 .. 9, pending : 0 .. 9,
                            spare : SUBSET RecoveryCodes]]
  /\ \A m \in Members : logins[m].pending # 0 => logins[m].pending # logins[m].secret
  /\ \A m, n \in Members :
       m # n => {logins[m].secret, logins[m].pending} \cap {logins[n].secret, logins[n].pending} \subseteq {0}
ASSUME SessionAssumption ==
  /\ IsFiniteSet(SignIns) /\ MaxAttempts \in Nat
  /\ \A start \in SessionStarts : SoundLogins(start.logins)

VARIABLES
  login,        \* users: enabled, password, secret (0: none), pending, spare recovery codes
  challenge,    \* totp_login_challenges: [who, attempts, live, password]
  session,      \* auth_sessions: [who, password, factor, proof, late]
  nextToken,    \* for challenges and sessions
  lastSecret,   \* the last password or secret made up
  signIn,       \* the requests
  booting,      \* the administrator whose sessions db::connect is about to remove: {} or {m}
  verified,     \* secrets that a code of theirs has confirmed (history)
  raced,        \* users whose second factor two requests wrote at once (history)
  cutOff,       \* users whose sessions' removal was cut off (history)
  tries,        \* wrong codes tried on a challenge (history)
  sessionBudget

sessionVars == <<login, challenge, session, nextToken, lastSecret, signIn, booting, verified, raced, cutOff, tries, sessionBudget>>

NoCode == [kind |-> "wrong", of |-> 0, code |-> "none"]
NoSignIn == [op |-> "login", pc |-> "idle", who |-> "", session |-> 0, password |-> 0, secret |-> 0, pending |-> 0,
             code |-> NoCode, challenge |-> 0, left |-> {}, seen |-> {}]

SessionInit ==
  /\ \E start \in SessionStarts : login = start.logins /\ sessionBudget = start.budget
  /\ lastSecret = 9
  /\ challenge = <<>> /\ session = <<>> /\ nextToken = 1 /\ booting = {}
  /\ signIn = [h \in SignIns |-> NoSignIn]
  /\ verified = {login[m].secret : m \in Members} /\ raced = {} /\ cutOff = {} /\ tries = <<>>

SpendSession(what) == sessionBudget[what] > 0 /\ sessionBudget' = [sessionBudget EXCEPT ![what] = @ - 1]
SetLogin(m, row) == login' = [login EXCEPT ![m] = row]
Stands(h, pc) == booting = {} /\ signIn[h].pc = pc
GoOn(h, row) == signIn' = [signIn EXCEPT ![h] = row]
Turns(h, pc) == GoOn(h, [signIn[h] EXCEPT !.pc = pc])
SessionsOf(m) == {s \in DOMAIN session : session[s].who = m}
Without(table, gone) == [k \in DOMAIN table \ gone |-> table[k]]
ChallengesOf(m) == {c \in DOMAIN challenge : challenge[c].who = m}

SignInHistory == UNCHANGED <<verified, raced, cutOff, tries>>
SignInTables == UNCHANGED <<login, challenge, session, nextToken, lastSecret>>

(* authenticate: whose session it is, and the user is enabled.             *)
Authentic(s) == s \in DOMAIN session /\ login[session[s].who].enabled

-----------------------------------------------------------------------------
(*                               Signing in                                *)

(* login, with the right password.                                         *)
SignsIn(h, m) ==
  /\ Stands(h, "idle") /\ SpendSession("logins") /\ login[m].enabled
  /\ GoOn(h, [NoSignIn EXCEPT !.pc = IF login[m].secret # 0 THEN "clear" ELSE "session", !.who = m,
                              !.password = login[m].password, !.secret = login[m].secret])
  /\ UNCHANGED booting /\ SignInTables /\ SignInHistory

(* totp::begin_login                                                       *)
ClearChallenges(h) ==
  /\ Stands(h, "clear")
  /\ challenge' = Without(challenge, ChallengesOf(signIn[h].who) \cup {c \in DOMAIN challenge : ~challenge[c].live})
  /\ Turns(h, "challenge")
  /\ UNCHANGED <<login, session, nextToken, lastSecret, booting, sessionBudget>> /\ SignInHistory

InsertChallenge(h) ==
  /\ Stands(h, "challenge")
  /\ challenge' = [c \in DOMAIN challenge \cup {nextToken} |->
       IF c = nextToken THEN [who |-> signIn[h].who, attempts |-> 0, live |-> TRUE, password |-> signIn[h].password]
       ELSE challenge[c]]
  /\ tries' = [c \in DOMAIN tries \cup {nextToken} |-> IF c = nextToken THEN 0 ELSE tries[c]]
  /\ nextToken' = nextToken + 1
  /\ Turns(h, "idle")
  /\ UNCHANGED <<login, session, lastSecret, booting, verified, raced, cutOff, sessionBudget>>

(* Variant: a challenge takes one wrong code more.                         *)
TakesOneMore(c) == c \in DOMAIN challenge /\ challenge[c].live /\ challenge[c].attempts <= MaxAttempts
Takes(c) == c \in DOMAIN challenge /\ challenge[c].live /\ challenge[c].attempts < MaxAttempts

(* complete_login                                                          *)
AnswersChallenge(h, c, code) ==
  /\ Stands(h, "idle") /\ SpendSession("answers") /\ Takes(c)
  /\ GoOn(h, [NoSignIn EXCEPT !.op = "second", !.pc = "verify", !.who = challenge[c].who, !.challenge = c,
                              !.password = challenge[c].password, !.code = code])
  /\ UNCHANGED booting /\ SignInTables /\ SignInHistory

CodeRight(m, code) == login[m].secret # 0 /\ code.kind = "totp" /\ code.of = login[m].secret
SpareCode(m, code) ==
  login[m].secret # 0 /\ code.kind = "recovery" /\ code.of = login[m].secret /\ code.code \in login[m].spare

(* verify_user_code reads the secret and the recovery codes, and writes    *)
(* back the codes that are left.                                           *)
VerifyAnswer(h) ==
  LET q == signIn[h] IN
  /\ Stands(h, "verify")
  /\ GoOn(h, [q EXCEPT !.pc = CASE CodeRight(q.who, q.code) -> "delete"
                                [] SpareCode(q.who, q.code) -> "spend"
                                [] OTHER -> "count",
                       !.secret = login[q.who].secret, !.seen = login[q.who].spare,
                       !.left = login[q.who].spare \ {q.code.code}])
  /\ tries' = IF CodeRight(q.who, q.code) \/ SpareCode(q.who, q.code) THEN tries ELSE [tries EXCEPT ![q.challenge] = @ + 1]
  /\ UNCHANGED <<booting, verified, raced, cutOff, sessionBudget>> /\ SignInTables

SpendRecovery(h) ==
  LET q == signIn[h] IN
  /\ Stands(h, "spend")
  /\ SetLogin(q.who, [login[q.who] EXCEPT !.spare = q.left])
  /\ raced' = IF login[q.who].spare # q.seen \/ login[q.who].secret # q.secret THEN raced \cup {q.who} ELSE raced
  /\ Turns(h, "delete")
  /\ UNCHANGED <<challenge, session, nextToken, lastSecret, booting, verified, cutOff, tries, sessionBudget>>

CountAttempt(h) ==
  LET c == signIn[h].challenge IN
  /\ Stands(h, "count")
  /\ challenge' = IF c \in DOMAIN challenge THEN [challenge EXCEPT ![c].attempts = @ + 1] ELSE challenge
  /\ Turns(h, "idle")
  /\ UNCHANGED <<login, session, nextToken, lastSecret, booting, sessionBudget>> /\ SignInHistory

DeleteChallenges(h) ==
  /\ Stands(h, "delete")
  /\ challenge' = Without(challenge, ChallengesOf(signIn[h].who))
  /\ Turns(h, IF signIn[h].op = "second" THEN "user" ELSE "idle")
  /\ UNCHANGED <<login, session, nextToken, lastSecret, booting, sessionBudget>> /\ SignInHistory

ReadUser(h) ==
  /\ Stands(h, "user")
  /\ Turns(h, IF login[signIn[h].who].enabled THEN "session" ELSE "idle")
  /\ UNCHANGED <<booting, sessionBudget>> /\ SignInTables /\ SignInHistory

(* create_session_response.  "late": the password is not the one any more. *)
CreateSession(h) ==
  LET q == signIn[h] IN
  /\ Stands(h, "session")
  /\ session' = [s \in DOMAIN session \cup {nextToken} |->
       IF s = nextToken THEN [who |-> q.who, password |-> q.password, factor |-> q.secret, proof |-> q.code,
                              late |-> login[q.who].password # q.password]
       ELSE session[s]]
  /\ nextToken' = nextToken + 1
  /\ Turns(h, "idle")
  /\ UNCHANGED <<login, challenge, lastSecret, booting, sessionBudget>> /\ SignInHistory

-----------------------------------------------------------------------------
(*                     What a user changes in a session                    *)

(* verify_current_password; the request goes on with "pc".                 *)
Begins(h, s, op, pc) ==
  /\ Stands(h, "idle") /\ SpendSession("changes") /\ Authentic(s)
  /\ GoOn(h, [NoSignIn EXCEPT !.op = op, !.pc = pc, !.who = session[s].who, !.session = s,
                              !.secret = login[session[s].who].secret, !.pending = login[session[s].who].pending])
  /\ UNCHANGED booting /\ SignInTables /\ SignInHistory

ChangePassword(h, s) == Begins(h, s, "password", "update")

(* setup: a new secret that waits to be confirmed.                         *)
Setup(h, s) == Begins(h, s, "setup", "pend")

(* enable: with a code of the secret that waits.                           *)
Enable(h, s) ==
  Begins(h, s, "enable", "enable") /\ login[session[s].who].pending # 0

(* disable: with a code of the secret in force.                            *)
Disable(h, s) == Begins(h, s, "disable", "disable") /\ login[session[s].who].secret # 0

UpdatePassword(h) ==
  LET q == signIn[h] IN
  /\ Stands(h, "update")
  /\ SetLogin(q.who, [login[q.who] EXCEPT !.password = lastSecret + 1]) /\ lastSecret' = lastSecret + 1
  /\ session' = [s \in DOMAIN session |-> IF s = q.session THEN [session[s] EXCEPT !.password = lastSecret + 1] ELSE session[s]]
  /\ Turns(h, "revoke")
  /\ UNCHANGED <<challenge, nextToken, booting, sessionBudget>> /\ SignInHistory

RevokeOthers(h) ==
  /\ Stands(h, "revoke")
  /\ session' = Without(session, SessionsOf(signIn[h].who) \ {signIn[h].session})
  /\ Turns(h, "idle")
  /\ UNCHANGED <<login, challenge, nextToken, lastSecret, booting, sessionBudget>> /\ SignInHistory

StorePending(h) ==
  LET m == signIn[h].who IN
  /\ Stands(h, "pend")
  /\ SetLogin(m, [login[m] EXCEPT !.pending = lastSecret + 1]) /\ lastSecret' = lastSecret + 1
  /\ Turns(h, "idle")
  /\ UNCHANGED <<challenge, session, nextToken, booting, sessionBudget>> /\ SignInHistory

(* Whatever waits now becomes the secret, if only nothing.                 *)
StoreSecret(h) ==
  LET q == signIn[h] IN
  /\ Stands(h, "enable")
  /\ SetLogin(q.who, [login[q.who] EXCEPT !.secret = login[q.who].pending, !.pending = 0, !.spare = RecoveryCodes])
  /\ verified' = verified \cup {q.pending}
  /\ raced' = IF login[q.who].pending # q.pending THEN raced \cup {q.who} ELSE raced
  /\ Turns(h, "idle")
  /\ UNCHANGED <<challenge, session, nextToken, lastSecret, booting, cutOff, tries, sessionBudget>>

ForgetSecret(h) ==
  LET m == signIn[h].who IN
  /\ Stands(h, "disable")
  /\ SetLogin(m, [login[m] EXCEPT !.secret = 0, !.pending = 0, !.spare = {}])
  /\ raced' = IF login[m].secret # signIn[h].secret THEN raced \cup {m} ELSE raced
  /\ Turns(h, "delete")
  /\ UNCHANGED <<challenge, session, nextToken, lastSecret, booting, verified, cutOff, tries, sessionBudget>>

Logout(s) ==
  /\ booting = {} /\ SpendSession("edits") /\ Authentic(s)
  /\ session' = Without(session, {s})
  /\ UNCHANGED <<login, challenge, nextToken, lastSecret, signIn, booting>> /\ SignInHistory

(* Requests that end before they count their code.                         *)
Uncounted(ended) ==
  [c \in DOMAIN tries |-> tries[c] - Cardinality({h \in ended : signIn[h].pc = "count" /\ signIn[h].challenge = c})]

(* The handler is dropped with its connection.                             *)
SignInDropped(h) ==
  /\ signIn[h].pc # "idle" /\ SpendSession("drops")
  /\ Turns(h, "idle")
  /\ cutOff' = IF signIn[h].pc = "revoke" THEN cutOff \cup {signIn[h].who} ELSE cutOff
  /\ tries' = Uncounted({h})
  /\ UNCHANGED <<booting, verified, raced>> /\ SignInTables

-----------------------------------------------------------------------------
(*                  Resets, administrators and restarts                    *)

(* reset_password, in one transaction.                                     *)
ResetsPassword(m) ==
  /\ booting = {} /\ SpendSession("edits") /\ login[m].enabled
  /\ SetLogin(m, [login[m] EXCEPT !.password = lastSecret + 1]) /\ lastSecret' = lastSecret + 1
  /\ session' = Without(session, SessionsOf(m))
  /\ UNCHANGED <<challenge, nextToken, signIn, booting>> /\ SignInHistory

(* Variant: the sessions go only with a user who is turned off.            *)
RevokesIfDisabled(enabled, newPassword) == ~enabled
RevokesSessions(enabled, newPassword) == ~enabled \/ newPassword

(* update_user, and batch_users and soft_delete_user, which disable.       *)
AdminEdits(m, enabled, newPassword) ==
  LET made == lastSecret + 1 IN
  /\ booting = {} /\ SpendSession("edits")
  /\ enabled # login[m].enabled \/ newPassword
  /\ SetLogin(m, [login[m] EXCEPT !.enabled = enabled, !.password = IF newPassword THEN made ELSE @])
  /\ lastSecret' = made
  /\ session' = IF RevokesSessions(enabled, newPassword) THEN Without(session, SessionsOf(m)) ELSE session
  /\ UNCHANGED <<challenge, nextToken, signIn, booting>> /\ SignInHistory

(* db::connect: with other credentials in the environment it updates the   *)
(* administrator and then removes his sessions; a second stop in between   *)
(* finds the credentials as they should be.                                *)
Restart(m, changed) ==
  /\ SpendSession("restarts")
  /\ signIn' = [h \in SignIns |-> NoSignIn]
  /\ cutOff' = cutOff \cup {signIn[h].who : h \in {g \in SignIns : signIn[g].pc = "revoke"}}
                      \cup booting
  /\ IF changed
     THEN SetLogin(m, [login[m] EXCEPT !.password = lastSecret + 1, !.enabled = TRUE]) /\ lastSecret' = lastSecret + 1
     ELSE UNCHANGED <<login, lastSecret>>
  /\ booting' = IF changed THEN {m} ELSE {}
  /\ tries' = Uncounted(SignIns)
  /\ UNCHANGED <<challenge, session, nextToken, verified, raced>>

Boot(m) ==
  /\ m \in booting
  /\ session' = Without(session, SessionsOf(m)) /\ booting' = {}
  /\ UNCHANGED <<login, challenge, nextToken, lastSecret, signIn, sessionBudget>> /\ SignInHistory

(* Five minutes for a challenge, session_hours for a session.              *)
SignInExpires ==
  /\ SpendSession("edits")
  /\ \/ \E c \in DOMAIN challenge :
          challenge[c].live /\ challenge' = [challenge EXCEPT ![c].live = FALSE] /\ UNCHANGED session
     \/ \E s \in DOMAIN session : session' = Without(session, {s}) /\ UNCHANGED challenge
  /\ UNCHANGED <<login, nextToken, lastSecret, signIn, booting>> /\ SignInHistory

CodesFor(m) ==
  {NoCode, [kind |-> "totp", of |-> login[m].secret, code |-> "none"]}
  \cup {[kind |-> "recovery", of |-> login[m].secret, code |-> r] : r \in RecoveryCodes}

(* The administrator of the environment is any one of Members.             *)
SessionNext ==
  \/ \E h \in SignIns :
       \/ \E m \in Members : SignsIn(h, m)
       \/ ClearChallenges(h) \/ InsertChallenge(h) \/ VerifyAnswer(h) \/ SpendRecovery(h) \/ CountAttempt(h)
       \/ DeleteChallenges(h) \/ ReadUser(h) \/ CreateSession(h)
       \/ \E c \in DOMAIN challenge : \E code \in CodesFor(challenge[c].who) : AnswersChallenge(h, c, code)
       \/ \E s \in DOMAIN session : ChangePassword(h, s) \/ Setup(h, s) \/ Enable(h, s) \/ Disable(h, s)
       \/ UpdatePassword(h) \/ RevokeOthers(h) \/ StorePending(h) \/ StoreSecret(h) \/ ForgetSecret(h) \/ SignInDropped(h)
  \/ \E s \in DOMAIN session : Logout(s)
  \/ \E m \in Members :
       \/ ResetsPassword(m) \/ Boot(m)
       \/ \E enabled, newPassword \in BOOLEAN : AdminEdits(m, enabled, newPassword)
       \/ \E changed \in BOOLEAN : Restart(m, changed)
  \/ SignInExpires

SessionSpec == SessionInit /\ [][SessionNext]_sessionVars

-----------------------------------------------------------------------------
(*                              Properties                                 *)

SessionTypeOK ==
  /\ \A m \in Members : login[m].spare \subseteq RecoveryCodes /\ login[m].password \in 0 .. lastSecret
                        /\ login[m].secret \in 0 .. lastSecret /\ login[m].pending \in 0 .. lastSecret
  /\ DOMAIN session \subseteq 1 .. nextToken - 1 /\ DOMAIN challenge \subseteq DOMAIN tries
  /\ booting \subseteq Members /\ (\A m, n \in booting : m = n) /\ raced \subseteq Members /\ cutOff \subseteq Members

(* A session was opened with the password its user has now, unless the     *)
(* login was under way when the password changed, or the statement that    *)
(* ends the older sessions is still to come or was cut off.                *)
SessionsFollowPassword ==
  \A s \in DOMAIN session :
    LET m == session[s].who IN
    \/ session[s].password = login[m].password \/ session[s].late \/ m \in cutOff \cup booting
    \/ \E h \in SignIns : signIn[h].pc = "revoke" /\ signIn[h].who = m

(* Who had a second factor when his password, or his answer, was read has  *)
(* proved it, by a code of the secret or a recovery code that came with it.*)
SecondFactorProved ==
  \A s \in DOMAIN session : session[s].factor # 0 => session[s].proof.kind # "wrong" /\ session[s].proof.of = session[s].factor

(* A recovery code opens one session, unless two requests wrote the codes  *)
(* at once.                                                                *)
RecoveryOnce ==
  \A s, t \in DOMAIN session :
    s # t /\ session[s].proof.kind = "recovery" /\ session[s].proof = session[t].proof => session[s].who \in raced

(* The secret in force has been confirmed with a code of its own, unless   *)
(* another one took its place in the meantime.                             *)
SecretWasConfirmed == \A m \in Members : login[m].secret \in verified \cup {0} \/ m \in raced

(* A challenge takes MaxAttempts wrong codes and one more for each request that *)
(* looked before another one counted; those cut off are not counted.       *)
AttemptsBounded == \A c \in DOMAIN tries : tries[c] <= MaxAttempts + Cardinality(SignIns) - 1

SessionsSafe ==
  /\ SessionTypeOK /\ SessionsFollowPassword /\ SecondFactorProved /\ RecoveryOnce /\ SecretWasConfirmed
  /\ AttemptsBounded

(* Only its user's disabling, or two requests at once, take a second       *)
(* factor away.                                                            *)
FactorStays ==
  [][\A m \in Members : login[m].secret # 0 /\ login'[m].secret = 0 =>
       m \in raced' \/ \E h \in SignIns : signIn[h].pc = "disable" /\ signIn[h].who = m]_sessionVars
=================================================================================
