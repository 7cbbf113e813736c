----------------------------- MODULE EmailAddresses -----------------------------
(***************************************************************************)
(* The e-mail addresses of users (auth.rs, user.rs, admin_users.rs) and    *)
(* the codes that are mailed to them (mail.rs): to register, to choose a   *)
(* new password, and to change one's address.  A request checks, writes    *)
(* its code and mails it in separate steps; mail may arrive although its   *)
(* delivery is reported as failed, and late.  Passwords and sessions are   *)
(* left out: whoever enters a code has read the message it came with.      *)
(*                                                                         *)
(* A code is the number of its row in auth_challenges (register, reset) or *)
(* profile_email_changes (change), here one table.  An address is {} or    *)
(* the set of itself.                                                      *)
(***************************************************************************)
EXTENDS Integers, FiniteSets

CONSTANTS
  People,      \* users there are or may be
  Addresses,
  Requests,    \* handlers that mail a code
  EmailStarts  \* users and bounds to start from

(* The users to start from: no code has reached anybody yet.               *)
SoundPeople(people) ==
  /\ people \in [People -> [there : BOOLEAN, gone : BOOLEAN, enabled : BOOLEAN, verified : BOOLEAN, admin : BOOLEAN,
                            email : {{}} \cup {{a} : a \in Addresses}]]
  /\ \A u \in People : people[u].verified => people[u].admin
ASSUME EmailAssumption == \A start \in EmailStarts : SoundPeople(start.people)

VARIABLES
  person,    \* users: there, gone, enabled, email, verified; admin: an administrator said so (history)
  codeRow,   \* the codes: [purpose, address, who, used, fresh, live]
  nextCode,  \* AUTOINCREMENT
  request,   \* the handlers
  mailed,    \* messages that arrived: [code, purpose, address, fresh, before] (history)
  entered,   \* codes that were accepted (history)
  emailBudget

emailVars == <<person, codeRow, nextCode, request, mailed, entered, emailBudget>>

Purposes == {"register", "reset", "change"}
NoPerson == [there |-> FALSE, gone |-> FALSE, enabled |-> FALSE, email |-> {}, verified |-> FALSE, admin |-> FALSE]
NoRequest == [pc |-> "idle", purpose |-> "register", address |-> "", who |-> "", code |-> 0, fresh |-> {}]

EmailInit ==
  /\ \E start \in EmailStarts : person = start.people /\ emailBudget = start.budget
  /\ codeRow = <<>> /\ nextCode = 1 /\ mailed = {} /\ entered = {}
  /\ request = [r \in Requests |-> NoRequest]

SpendEmail(what) == emailBudget[what] > 0 /\ emailBudget' = [emailBudget EXCEPT ![what] = @ - 1]
OnRecord == DOMAIN codeRow

(* The unique index on users(email).                                       *)
NewPerson(u) == ~person[u].there /\ ~person[u].gone
OwnersOf(address) == {u \in People : person[u].there /\ person[u].email = {address}}
Free(address, u) == OwnersOf(address) \subseteq {u}

(* Rows a new code replaces, and those its cooldown looks at.              *)
SameKey(row, purpose, address, u) ==
  row.purpose = purpose /\ IF purpose = "change" THEN row.who = u ELSE row.address = address
(* Variant: a code that has been used no longer counts.                    *)
RecentUnused(purpose, address, u) ==
  {c \in OnRecord : /\ codeRow[c].purpose = purpose /\ codeRow[c].fresh /\ ~codeRow[c].used
                    /\ codeRow[c].address = address \/ (purpose = "change" /\ codeRow[c].who = u)}

Recent(purpose, address, u) ==
  {c \in OnRecord : /\ codeRow[c].purpose = purpose /\ codeRow[c].fresh
                    /\ codeRow[c].address = address \/ (purpose = "change" /\ codeRow[c].who = u)}

Step(r, pc) == request' = [request EXCEPT ![r].pc = pc]
NothingElse == UNCHANGED <<person, codeRow, nextCode, mailed, entered, emailBudget>>

-----------------------------------------------------------------------------
(*                         A request for a code                            *)

(* send_verification_code looks for a user with the address,               *)
(* forgot_password for an enabled one, and request_email_change for        *)
(* another user that has it.                                               *)
MayAsk(purpose, address, u) ==
  CASE purpose = "register" -> OwnersOf(address) = {}
    [] purpose = "reset" -> \E v \in OwnersOf(address) : person[v].enabled
    [] OTHER -> person[u].there /\ person[u].enabled /\ person[u].email # {address} /\ Free(address, u)

AsksForCode(r, purpose, address, u) ==
  /\ request[r].pc = "idle" /\ SpendEmail("requests") /\ MayAsk(purpose, address, u)
  /\ request' = [request EXCEPT ![r] = [NoRequest EXCEPT !.pc = "cooldown", !.purpose = purpose,
                                                         !.address = address,
                                                         !.who = IF purpose = "change" THEN u ELSE ""]]
  /\ UNCHANGED <<entered, person, codeRow, nextCode, mailed>>

(* enforce_challenge_cooldown.  "fresh": the young codes there were.      *)
CheckCooldown(r) ==
  LET q == request[r] IN
  /\ q.pc = "cooldown"
  /\ request' = [request EXCEPT ![r].pc = IF Recent(q.purpose, q.address, q.who) = {} THEN "replace" ELSE "idle",
                                ![r].fresh = {c \in OnRecord : codeRow[c].fresh}]
  /\ NothingElse

(* replace_challenge                                                       *)
ReplaceCode(r) ==
  LET q == request[r]
      kept == {c \in OnRecord : codeRow[c].used \/ ~SameKey(codeRow[c], q.purpose, q.address, q.who)} IN
  /\ q.pc = "replace"
  /\ codeRow' = [c \in kept \cup {nextCode} |->
       IF c \in kept THEN codeRow[c]
       ELSE [purpose |-> q.purpose, address |-> q.address, who |-> q.who, used |-> FALSE, fresh |-> TRUE, live |-> TRUE]]
  /\ nextCode' = nextCode + 1
  /\ request' = [request EXCEPT ![r].pc = "deliver", ![r].code = nextCode]
  /\ UNCHANGED <<entered, person, mailed, emailBudget>>

Message(r) == [code |-> request[r].code, purpose |-> request[r].purpose, address |-> request[r].address,
               fresh |-> TRUE, before |-> request[r].fresh]

(* deliver_mail: accepted by the mail server or the webhook, or refused;   *)
(* when the answer is lost the message may be on its way all the same.     *)
Deliver(r, arrives, reported) ==
  /\ request[r].pc = "deliver" /\ (reported => arrives)
  /\ mailed' = IF arrives THEN mailed \cup {Message(r)} ELSE mailed
  /\ Step(r, IF reported THEN "idle" ELSE "withdraw")
  /\ UNCHANGED <<entered, person, codeRow, nextCode, emailBudget>>

(* Variant: every code for the address is withdrawn.                       *)
WithdrawnByAddress(r) == {c \in OnRecord : codeRow[c].address = request[r].address}
Withdrawn(r) == {request[r].code}

Withdraw(r) ==
  /\ request[r].pc = "withdraw"
  /\ codeRow' = [c \in OnRecord \ Withdrawn(r) |-> codeRow[c]]
  /\ Step(r, "idle")
  /\ UNCHANGED <<entered, person, nextCode, mailed, emailBudget>>

(* The client goes away; a message may already have been handed over.      *)
MailerDropped(r, arrives) ==
  /\ request[r].pc # "idle" /\ SpendEmail("drops")
  /\ (arrives => request[r].pc = "deliver")
  /\ mailed' = IF arrives THEN mailed \cup {Message(r)} ELSE mailed
  /\ Step(r, "idle")
  /\ UNCHANGED <<entered, person, codeRow, nextCode>>

-----------------------------------------------------------------------------
(*                           A code is entered                             *)

(* Variant: the address need not be the one the code was mailed to.        *)
AcceptsAnyAddress(c, purpose, address, u) ==
  c \in OnRecord /\ codeRow[c].purpose = purpose /\ ~codeRow[c].used /\ codeRow[c].live
  /\ (purpose = "change" => codeRow[c].who = u)

(* The condition of the UPDATE that uses a code up.                        *)
Accepts(c, purpose, address, u) ==
  c \in OnRecord /\ codeRow[c].purpose = purpose /\ ~codeRow[c].used /\ codeRow[c].live
  /\ codeRow[c].address = address /\ (purpose = "change" => codeRow[c].who = u)

UseUp(c) == codeRow' = [codeRow EXCEPT ![c].used = TRUE] /\ entered' = entered \cup {c}
Known(c) == \E m \in mailed : m.code = c

(* register: a transaction that uses the code up and inserts the user.     *)
Register(u, address, c) ==
  /\ SpendEmail("entries") /\ Known(c)
  /\ NewPerson(u) /\ Accepts(c, "register", address, u) /\ OwnersOf(address) = {}
  /\ UseUp(c)
  /\ person' = [person EXCEPT ![u] = [NoPerson EXCEPT !.there = TRUE, !.enabled = TRUE, !.email = {address}, !.verified = TRUE]]
  /\ UNCHANGED <<nextCode, request, mailed>>

(* The same while email_verification_enabled is off.                       *)
RegisterUnverified(u, address) ==
  /\ SpendEmail("entries") /\ NewPerson(u) /\ OwnersOf(address) = {}
  /\ person' = [person EXCEPT ![u] = [NoPerson EXCEPT !.there = TRUE, !.enabled = TRUE, !.email = {address}]]
  /\ UNCHANGED <<entered, codeRow, nextCode, request, mailed>>

(* reset_password, in a transaction, of the user who has the address now.  *)
ResetPassword(address, c) ==
  /\ SpendEmail("entries") /\ Known(c)
  /\ Accepts(c, "reset", address, "") /\ \E u \in OwnersOf(address) : person[u].enabled
  /\ UseUp(c)
  /\ UNCHANGED <<person, nextCode, request, mailed>>

(* confirm_email_change: nobody else has the address, by the check before  *)
(* the transaction or by the index in it; a user who is not enabled uses   *)
(* the code up for nothing.                                                *)
ConfirmChange(u, address, c) ==
  /\ SpendEmail("entries") /\ Known(c)
  /\ person[u].there /\ (person[u].enabled => Free(address, u)) /\ Accepts(c, "change", address, u)
  /\ UseUp(c)
  /\ person' = IF person[u].enabled
               THEN [person EXCEPT ![u].email = {address}, ![u].verified = TRUE, ![u].admin = FALSE] ELSE person
  /\ UNCHANGED <<nextCode, request, mailed>>

(* remove_email                                                            *)
RemoveEmail(u) ==
  /\ SpendEmail("edits") /\ person[u].there /\ person[u].enabled
  /\ person' = [person EXCEPT ![u].email = {}, ![u].verified = FALSE]
  /\ codeRow' = [c \in {d \in OnRecord : ~(codeRow[d].purpose = "change" /\ codeRow[d].who = u)} |-> codeRow[c]]
  /\ UNCHANGED <<entered, nextCode, request, mailed>>

-----------------------------------------------------------------------------
(*                     Administrators, and the clock                       *)

AdminCreates(u, email) ==
  /\ SpendEmail("edits") /\ NewPerson(u) /\ \A a \in email : OwnersOf(a) = {}
  /\ person' = [person EXCEPT ![u] = [there |-> TRUE, gone |-> FALSE, enabled |-> TRUE, email |-> email, verified |-> email # {}, admin |-> TRUE]]
  /\ UNCHANGED <<entered, codeRow, nextCode, request, mailed>>

(* update_user: the address and whether it is verified, either alone or    *)
(* whether the user is enabled; a pending change stays.                    *)
AdminUpdates(u, row) ==
  /\ SpendEmail("edits") /\ person[u].there
  /\ row.there /\ row.admin /\ \A a \in row.email : Free(a, u)
  /\ \/ row.enabled = person[u].enabled
     \/ row.email = person[u].email /\ row.verified = person[u].verified
  /\ person' = [person EXCEPT ![u] = [row EXCEPT !.admin = person[u].admin \/ row.email # person[u].email
                                                              \/ row.verified # person[u].verified]]
  /\ UNCHANGED <<entered, codeRow, nextCode, request, mailed>>

(* soft_delete_user: the row stays without its address.                    *)
AdminDeletes(u) ==
  /\ SpendEmail("edits") /\ person[u].there
  /\ person' = [person EXCEPT ![u].enabled = FALSE, ![u].email = {}, ![u].verified = FALSE, ![u].there = FALSE, ![u].gone = TRUE]
  /\ UNCHANGED <<entered, codeRow, nextCode, request, mailed>>

(* Sixty seconds pass; later the codes expire.                             *)
MinutePasses ==
  /\ SpendEmail("minutes")
  /\ codeRow' = [c \in OnRecord |-> [codeRow[c] EXCEPT !.fresh = FALSE]]
  /\ mailed' = {[m EXCEPT !.fresh = FALSE] : m \in mailed}
  /\ UNCHANGED <<entered, person, nextCode, request>>

MailedCodeExpires(c) ==
  /\ ~codeRow[c].fresh /\ codeRow[c].live
  /\ codeRow' = [codeRow EXCEPT ![c].live = FALSE]
  /\ UNCHANGED <<entered, person, nextCode, request, mailed, emailBudget>>

EmailNext ==
  \/ \E r \in Requests :
       \/ \E a \in Addresses :
            \/ AsksForCode(r, "register", a, "") \/ AsksForCode(r, "reset", a, "")
            \/ \E u \in People : AsksForCode(r, "change", a, u)
       \/ CheckCooldown(r) \/ ReplaceCode(r) \/ Withdraw(r)
       \/ \E arrives \in BOOLEAN : MailerDropped(r, arrives) \/ \E reported \in BOOLEAN : Deliver(r, arrives, reported)
  \/ \E u \in People, a \in Addresses :
       RegisterUnverified(u, a) \/ \E c \in OnRecord : Register(u, a, c) \/ ConfirmChange(u, a, c)
  \/ \E a \in Addresses, c \in OnRecord : ResetPassword(a, c)
  \/ \E u \in People :
       \/ RemoveEmail(u) \/ AdminDeletes(u)
       \/ \E email \in {{}} \cup {{a} : a \in Addresses} :
            \/ AdminCreates(u, email)
            \/ \E enabled, verified \in BOOLEAN :
                 AdminUpdates(u, [there |-> TRUE, gone |-> FALSE, enabled |-> enabled, email |-> email, verified |-> verified, admin |-> TRUE])
  \/ MinutePasses \/ \E c \in OnRecord : MailedCodeExpires(c)

EmailSpec == EmailInit /\ [][EmailNext]_emailVars

-----------------------------------------------------------------------------
(*                              Properties                                 *)

EmailTypeOK ==
  /\ \A u \in People : person[u].email \subseteq Addresses /\ Cardinality(person[u].email) <= 1
  /\ OnRecord \subseteq 1 .. nextCode - 1 /\ \A c \in OnRecord : codeRow[c].purpose \in Purposes
  /\ \A r \in Requests : request[r].pc \in {"idle", "cooldown", "replace", "deliver", "withdraw"}

(* An address counts as verified only if its owner has had a message at it *)
(* and entered the code it came with, or an administrator said so.         *)
VerifiedWasReached ==
  \A u \in People : person[u].verified /\ ~person[u].admin =>
    \E m \in mailed : m.code \in entered /\ person[u].email = {m.address}

(* Of the codes that can still be used only the last one counts.           *)
OneCodeCounts ==
  \A c, d \in OnRecord :
    ~codeRow[c].used /\ ~codeRow[d].used /\ codeRow[c].purpose = codeRow[d].purpose
    /\ SameKey(codeRow[c], codeRow[d].purpose, codeRow[d].address, codeRow[d].who) => c = d

(* Two messages of one purpose reach an address within a minute only if    *)
(* the second was asked for before the first one's code was there, or when *)
(* that had been taken back.                                               *)
OneMessageAMinute ==
  \A m, n \in mailed :
    m.code < n.code /\ m.fresh /\ n.fresh /\ m.purpose = n.purpose /\ m.address = n.address => m.code \notin n.before

AddressesSafe == EmailTypeOK /\ VerifiedWasReached /\ OneCodeCounts /\ OneMessageAMinute

(* A code leaves the table only because of a newer one of its kind, its    *)
(* own failed delivery, or its user, who has given up his address.         *)
CodesStayUsable ==
  [][\A c \in OnRecord : c \notin DOMAIN codeRow' =>
       \/ \E d \in DOMAIN codeRow' \ OnRecord : SameKey(codeRow[c], codeRow'[d].purpose, codeRow'[d].address, codeRow'[d].who)
       \/ \E r \in Requests : request[r].pc = "withdraw" /\ request[r].code = c
       \/ \E u \in People : codeRow[c].who = u /\ codeRow[c].purpose = "change" /\ person'[u].email = {}]_emailVars
=================================================================================
