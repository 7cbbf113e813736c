----------------------------- MODULE ConsoleProofs -----------------------------
(***************************************************************************)
(* What the console promises, for any number of users, requests and rows.  *)
(* Each part has an invariant of its own; the parts share no variable.     *)
(* What batches keep on disk and at a provider is in FilesProofs.          *)
(***************************************************************************)
EXTENDS Console, FilesProofs

-----------------------------------------------------------------------------
(*                       Addresses and mailed codes                        *)

PersonRows ==
  [there : BOOLEAN, gone : BOOLEAN, enabled : BOOLEAN, verified : BOOLEAN, admin : BOOLEAN,
   email : {{}} \cup {{a} : a \in Addresses}]
MailedCodeRows ==
  [purpose : Purposes, address : Addresses \cup {""}, who : People \cup {""}, used : BOOLEAN, fresh : BOOLEAN,
   live : BOOLEAN]
AskRows ==
  [pc : {"idle", "cooldown", "replace", "deliver", "withdraw"}, purpose : Purposes, address : Addresses \cup {""},
   who : People \cup {""}, code : Nat, fresh : SUBSET Nat]
MessageRows ==
  [code : Nat, purpose : Purposes, address : Addresses \cup {""}, fresh : BOOLEAN, before : SUBSET Nat]

EmailTypes ==
  /\ person \in [People -> PersonRows] /\ nextCode \in Nat \ {0}
  /\ OnRecord \subseteq 1 .. nextCode - 1 /\ codeRow \in [OnRecord -> MailedCodeRows]
  /\ request \in [Requests -> AskRows] /\ mailed \subseteq MessageRows

\* What a code is for, as its row, its message or the request that mails it says.
Mailing1(r) == request[r].pc \in {"deliver", "withdraw"}
RowFor(c, purpose, address) == c \in OnRecord /\ codeRow[c].purpose = purpose /\ codeRow[c].address = address
MessageFor(c, purpose, address) == \E m \in mailed : m.code = c /\ m.purpose = purpose /\ m.address = address
RequestFor(c, purpose, address) ==
  \E r \in Requests : Mailing1(r) /\ request[r].code = c /\ request[r].purpose = purpose /\ request[r].address = address
IsFor(c, purpose, address) == RowFor(c, purpose, address) \/ MessageFor(c, purpose, address) \/ RequestFor(c, purpose, address)

\* Numbers are not used again, so that a code is for one thing ever.
CodesForOne ==
  /\ \A c, p, a : IsFor(c, p, a) => c \in 1 .. nextCode - 1
  /\ \A c, p, a, o, b : IsFor(c, p, a) /\ IsFor(c, o, b) => p = o /\ a = b

\* None of the young codes a request has seen is for what it asks for.
LooksClear(codes, purpose, address) == codes \subseteq 1 .. nextCode - 1 /\ \A c \in codes : ~IsFor(c, purpose, address)
CooldownSeen ==
  /\ \A r \in Requests : \A codes, p, a :
       (Mailing1(r) \/ request[r].pc = "replace")
       /\ request[r].fresh = codes /\ request[r].purpose = p /\ request[r].address = a => LooksClear(codes, p, a)
  /\ \A m \in mailed : LooksClear(m.before, m.purpose, m.address)

EmailInv == EmailTypes /\ CodesForOne /\ CooldownSeen /\ VerifiedWasReached /\ OneCodeCounts

LEMMA EmailSteps ==
  ASSUME [EmailNext]_emailVars
  PROVE  \/ UNCHANGED emailVars
         \/ \E r \in Requests, p \in Purposes, a \in Addresses, u \in People \cup {""} : AsksForCode(r, p, a, u)
         \/ \E r \in Requests : CheckCooldown(r) \/ ReplaceCode(r) \/ Withdraw(r)
         \/ \E r \in Requests, arrives \in BOOLEAN : MailerDropped(r, arrives)
         \/ \E r \in Requests, arrives, reported \in BOOLEAN : Deliver(r, arrives, reported)
         \/ \E u \in People, a \in Addresses : RegisterUnverified(u, a)
         \/ \E u \in People, a \in Addresses, c \in OnRecord : Register(u, a, c) \/ ConfirmChange(u, a, c)
         \/ \E a \in Addresses, c \in OnRecord : ResetPassword(a, c)
         \/ \E u \in People : RemoveEmail(u) \/ AdminDeletes(u)
         \/ \E u \in People, email \in {{}} \cup {{a} : a \in Addresses} : AdminCreates(u, email)
         \/ \E u \in People, row \in PersonRows : AdminUpdates(u, row)
         \/ MinutePasses
         \/ \E c \in OnRecord : MailedCodeExpires(c)
BY DEF Purposes, PersonRows, EmailNext

LEMMA EmailInitInv == EmailInit => EmailInv
<1> SUFFICES ASSUME EmailInit PROVE EmailInv OBVIOUS
<1>1. PICK start \in EmailStarts : person = start.people BY DEF EmailInit
<1>2. SoundPeople(person) BY <1>1, EmailAssumption
<1>3. /\ OnRecord = {} /\ nextCode = 1 /\ mailed = {} /\ request = [r \in Requests |-> NoRequest]
  BY DEF EmailInit, OnRecord
<1>4. NoRequest \in AskRows /\ NoRequest.pc = "idle" BY DEF NoRequest, AskRows, Purposes
<1>5. codeRow \in [OnRecord -> MailedCodeRows] BY DEF EmailInit, OnRecord
<1>6. EmailTypes BY <1>2, <1>3, <1>4, <1>5 DEF EmailTypes, SoundPeople, PersonRows
<1>7. \A c, p, a : ~IsFor(c, p, a) BY <1>3, <1>4 DEF IsFor, RowFor, MessageFor, RequestFor, Mailing1
<1>8. CodesForOne /\ CooldownSeen BY <1>3, <1>4, <1>7 DEF CodesForOne, CooldownSeen, Mailing1
<1>9. VerifiedWasReached /\ OneCodeCounts BY <1>2, <1>3 DEF VerifiedWasReached, OneCodeCounts, SoundPeople
<1> QED BY <1>6, <1>8, <1>9 DEF EmailInv

-----------------------------------------------------------------------------
(*                        What steps do to the tables                      *)

\* A row stays for what it is, and used, or is the one a request puts there.
RowKept(c) ==
  /\ c \in OnRecord /\ codeRow'[c].purpose = codeRow[c].purpose /\ codeRow'[c].address = codeRow[c].address
  /\ codeRow'[c].who = codeRow[c].who /\ (codeRow[c].used => codeRow'[c].used)
PutBy(r, c) ==
  /\ ReplaceCode(r) /\ c = nextCode /\ nextCode' = nextCode + 1 /\ codeRow'[c].purpose = request[r].purpose
  /\ codeRow'[c].address = request[r].address /\ codeRow'[c].who = request[r].who

LEMMA RowsMove ==
  ASSUME EmailTypes, [EmailNext]_emailVars
  PROVE  /\ nextCode' \in Nat \ {0} /\ nextCode <= nextCode'
         /\ DOMAIN codeRow' \subseteq 1 .. nextCode' - 1 /\ codeRow' \in [DOMAIN codeRow' -> MailedCodeRows]
         /\ \A c \in DOMAIN codeRow' : RowKept(c) \/ \E r \in Requests : PutBy(r, c)
<1> DEFINE Goal ==
      /\ nextCode' \in Nat \ {0} /\ nextCode <= nextCode'
      /\ DOMAIN codeRow' \subseteq 1 .. nextCode' - 1 /\ codeRow' \in [DOMAIN codeRow' -> MailedCodeRows]
      /\ \A c \in DOMAIN codeRow' : RowKept(c) \/ \E r \in Requests : PutBy(r, c)
<1>1. nextCode \in Nat \ {0} /\ DOMAIN codeRow \subseteq 1 .. nextCode - 1 /\ codeRow \in [DOMAIN codeRow -> MailedCodeRows]
  BY DEF EmailTypes, OnRecord
<1>2. ASSUME UNCHANGED <<codeRow, nextCode>> PROVE Goal BY <1>1, <1>2 DEF RowKept, OnRecord
<1>3. ASSUME NEW S \in SUBSET OnRecord, codeRow' = [c \in S |-> codeRow[c]], UNCHANGED nextCode PROVE Goal
  BY <1>1, <1>3 DEF RowKept, OnRecord
<1>4. ASSUME NEW c \in OnRecord, UNCHANGED nextCode,
             codeRow' = [codeRow EXCEPT ![c].used = TRUE] \/ codeRow' = [codeRow EXCEPT ![c].live = FALSE]
      PROVE  Goal
  <2>1. codeRow[c] \in MailedCodeRows BY <1>1, <1>4 DEF OnRecord
  <2>2. [codeRow[c] EXCEPT !.used = TRUE] \in MailedCodeRows /\ [codeRow[c] EXCEPT !.live = FALSE] \in MailedCodeRows
    BY <2>1 DEF MailedCodeRows
  <2>3. DOMAIN codeRow' = DOMAIN codeRow /\ codeRow' \in [DOMAIN codeRow -> MailedCodeRows]
    BY <1>1, <1>4, <2>2 DEF OnRecord
  <2>4. ASSUME NEW d \in OnRecord PROVE RowKept(d)
    <3>1. CASE d # c BY <1>1, <1>4, <3>1 DEF RowKept, OnRecord
    <3>2. CASE d = c
      <4>1. codeRow'[d] = [codeRow[c] EXCEPT !.used = TRUE] \/ codeRow'[d] = [codeRow[c] EXCEPT !.live = FALSE]
        BY <1>1, <1>4, <3>2 DEF OnRecord
      <4> QED BY <2>1, <3>2, <4>1 DEF RowKept, MailedCodeRows
    <3> QED BY <3>1, <3>2
  <2> QED BY <1>1, <1>4, <2>3, <2>4 DEF OnRecord
<1>5. ASSUME codeRow' = [c \in OnRecord |-> [codeRow[c] EXCEPT !.fresh = FALSE]], UNCHANGED nextCode PROVE Goal
  <2>1. \A row \in MailedCodeRows :
          LET new == [row EXCEPT !.fresh = FALSE] IN
          new \in MailedCodeRows /\ new.purpose = row.purpose /\ new.address = row.address /\ new.who = row.who /\ new.used = row.used
    BY DEF MailedCodeRows
  <2>2. \A c \in OnRecord : codeRow[c] \in MailedCodeRows BY <1>1 DEF OnRecord
  <2>3. DOMAIN codeRow' = DOMAIN codeRow /\ \A c \in OnRecord : codeRow'[c] = [codeRow[c] EXCEPT !.fresh = FALSE]
    BY <1>5 DEF OnRecord
  <2>4. codeRow' \in [DOMAIN codeRow' -> MailedCodeRows]
    <3>1. \A c \in OnRecord : codeRow'[c] \in MailedCodeRows BY <2>1, <2>2, <2>3
    <3>2. codeRow' \in [OnRecord -> MailedCodeRows] BY <1>5, <2>1, <2>2
    <3>3. DOMAIN codeRow' = OnRecord BY <3>2
    <3> QED BY <3>2, <3>3
  <2>5. ASSUME NEW c \in OnRecord PROVE RowKept(c)
    <3>1. codeRow'[c] = [codeRow[c] EXCEPT !.fresh = FALSE] BY <2>3
    <3> QED BY <2>2, <3>1 DEF RowKept, MailedCodeRows
  <2> QED BY <1>1, <1>5, <2>3, <2>4, <2>5 DEF OnRecord
<1>6. ASSUME NEW r \in Requests, ReplaceCode(r) PROVE Goal
  <2> DEFINE q == request[r]
             staying == {c \in OnRecord : codeRow[c].used \/ ~SameKey(codeRow[c], q.purpose, q.address, q.who)}
             new == [purpose |-> q.purpose, address |-> q.address, who |-> q.who, used |-> FALSE, fresh |-> TRUE, live |-> TRUE]
  <2>1. request[r] \in AskRows BY DEF EmailTypes
  <2>2. new \in MailedCodeRows BY <2>1 DEF MailedCodeRows, AskRows
  <2>3. codeRow' = [c \in staying \cup {nextCode} |-> IF c \in staying THEN codeRow[c] ELSE new] /\ nextCode' = nextCode + 1
    BY <1>6 DEF ReplaceCode
  <2>4. staying \subseteq OnRecord /\ nextCode \notin staying BY <1>1 DEF OnRecord
  <2>5. new.purpose = request[r].purpose /\ new.address = request[r].address /\ new.who = request[r].who OBVIOUS
  <2> HIDE DEF staying, new
  <2>6. DOMAIN codeRow' = staying \cup {nextCode} /\ codeRow'[nextCode] = new /\ \A c \in staying : codeRow'[c] = codeRow[c]
    BY <2>3, <2>4
  <2>7. codeRow' \in [DOMAIN codeRow' -> MailedCodeRows] BY <1>1, <2>2, <2>3, <2>4 DEF OnRecord
  <2>8. \A c \in staying : RowKept(c) BY <2>4, <2>6 DEF RowKept
  <2>9. PutBy(r, nextCode) BY <1>6, <2>3, <2>5, <2>6 DEF PutBy
  <2> QED BY <1>1, <2>3, <2>4, <2>6, <2>7, <2>8, <2>9 DEF OnRecord
<1> HIDE DEF Goal
<1>7. Goal
  <2>1. CASE UNCHANGED emailVars BY <1>2, <2>1 DEF emailVars
  <2>2. CASE \E r \in Requests, p \in Purposes, a \in Addresses, u \in People \cup {""} : AsksForCode(r, p, a, u)
    BY <1>2, <2>2 DEF AsksForCode
  <2>3. CASE \E r \in Requests : CheckCooldown(r) \/ Withdraw(r) BY <2>3, <1>2, <1>3 DEF CheckCooldown, Withdraw, NothingElse
  <2>4. CASE \E r \in Requests : ReplaceCode(r) BY <1>6, <2>4
  <2>5. CASE \E r \in Requests, arrives \in BOOLEAN : MailerDropped(r, arrives) BY <1>2, <2>5 DEF MailerDropped
  <2>6. CASE \E r \in Requests, arrives, reported \in BOOLEAN : Deliver(r, arrives, reported) BY <1>2, <2>6 DEF Deliver
  <2>7. CASE \E u \in People, a \in Addresses : RegisterUnverified(u, a) BY <1>2, <2>7 DEF RegisterUnverified
  <2>8. CASE \E u \in People, a \in Addresses, c \in OnRecord : Register(u, a, c) \/ ConfirmChange(u, a, c)
    BY <1>4, <2>8 DEF Register, ConfirmChange, UseUp
  <2>9. CASE \E a \in Addresses, c \in OnRecord : ResetPassword(a, c) BY <1>4, <2>9 DEF ResetPassword, UseUp
  <2>10. CASE \E u \in People : RemoveEmail(u) \/ AdminDeletes(u) BY <2>10, <1>2, <1>3 DEF RemoveEmail, AdminDeletes
  <2>11. CASE \E u \in People, email \in {{}} \cup {{a} : a \in Addresses} : AdminCreates(u, email)
    BY <1>2, <2>11 DEF AdminCreates
  <2>12. CASE \E u \in People, row \in PersonRows : AdminUpdates(u, row) BY <1>2, <2>12 DEF AdminUpdates
  <2>13. CASE MinutePasses BY <1>5, <2>13 DEF MinutePasses
  <2>14. CASE \E c \in OnRecord : MailedCodeExpires(c) BY <1>4, <2>14 DEF MailedCodeExpires
  <2> QED BY <2>1, <2>2, <2>3, <2>4, <2>5, <2>6, <2>7, <2>8, <2>9, <2>10, <2>11, <2>12, <2>13, <2>14, EmailSteps
<1> QED BY <1>7 DEF Goal

\* A request goes on with what it has, or has looked up and replaced a code.
RequestGoesOn(r) ==
  /\ request'[r].purpose = request[r].purpose /\ request'[r].address = request[r].address
  /\ request'[r].who = request[r].who /\ request'[r].code = request[r].code /\ request'[r].fresh = request[r].fresh
RequestMoves(r) ==
  \/ ~Mailing1(r)' /\ request'[r].pc # "replace"
  \/ RequestGoesOn(r) /\ request'[r].pc = request[r].pc
  \/ RequestGoesOn(r) /\ Mailing1(r) /\ Mailing1(r)'
  \/ /\ CheckCooldown(r) /\ request'[r].pc = "replace" /\ request'[r].purpose = request[r].purpose
     /\ request'[r].address = request[r].address /\ request'[r].who = request[r].who
     /\ request'[r].fresh = {c \in OnRecord : codeRow[c].fresh} /\ Recent(request[r].purpose, request[r].address, request[r].who) = {}
  \/ /\ ReplaceCode(r) /\ Mailing1(r)' /\ request'[r].purpose = request[r].purpose /\ request'[r].address = request[r].address
     /\ request'[r].who = request[r].who /\ request'[r].code = nextCode /\ request'[r].fresh = request[r].fresh

LEMMA RequestsMove ==
  ASSUME EmailTypes, [EmailNext]_emailVars
  PROVE  request' \in [Requests -> AskRows] /\ \A r \in Requests : RequestMoves(r)
<1> DEFINE Goal == request' \in [Requests -> AskRows] /\ \A r \in Requests : RequestMoves(r)
<1>1. request \in [Requests -> AskRows] BY DEF EmailTypes
<1>2. ASSUME UNCHANGED request PROVE Goal BY <1>1, <1>2 DEF RequestMoves, RequestGoesOn
<1>3. ASSUME NEW r \in Requests, NEW row \in AskRows, request' = [request EXCEPT ![r] = row], RequestMoves(r) PROVE Goal
  BY <1>1, <1>3 DEF RequestMoves, RequestGoesOn
<1>4. ASSUME NEW r \in Requests, NEW pc \in {"idle", "withdraw"}, Step(r, pc), pc = "idle" \/ Mailing1(r) PROVE Goal
  <2>1. request[r] \in AskRows BY <1>1
  <2>2. [request[r] EXCEPT !.pc = pc] \in AskRows BY <2>1 DEF AskRows
  <2>3. request' = [request EXCEPT ![r] = [request[r] EXCEPT !.pc = pc]] BY <1>4 DEF Step
  <2>4. request'[r] = [request[r] EXCEPT !.pc = pc] BY <1>1, <2>3
  <2>5. RequestMoves(r) BY <1>4, <2>1, <2>4 DEF RequestMoves, RequestGoesOn, Mailing1, AskRows
  <2> QED BY <1>3, <2>2, <2>3, <2>5
<1>5. ASSUME NEW r \in Requests, NEW p \in Purposes, NEW a \in Addresses, NEW u \in People \cup {""}, AsksForCode(r, p, a, u)
      PROVE  Goal
  BY <1>5, <1>1, <1>3 DEF NoRequest, AskRows, AsksForCode, RequestMoves, Mailing1
<1>6. ASSUME NEW r \in Requests, CheckCooldown(r) PROVE Goal
  <2> DEFINE q == request[r]
             clear == Recent(q.purpose, q.address, q.who) = {}
             row == [request[r] EXCEPT !.pc = IF clear THEN "replace" ELSE "idle", !.fresh = {c \in OnRecord : codeRow[c].fresh}]
  <2>1. request[r] \in AskRows BY <1>1
  <2>2. {c \in OnRecord : codeRow[c].fresh} \in SUBSET Nat
    <3>1. 1 .. nextCode - 1 \subseteq Nat BY DEF EmailTypes
    <3> QED BY <3>1 DEF EmailTypes
  <2>3. row \in AskRows BY <2>1, <2>2 DEF AskRows
  <2>4. request' = [request EXCEPT ![r] = row] BY <1>6 DEF CheckCooldown
  <2>5. row.pc = (IF clear THEN "replace" ELSE "idle") /\ row.fresh = {c \in OnRecord : codeRow[c].fresh}
        /\ row.purpose = request[r].purpose /\ row.address = request[r].address /\ row.who = request[r].who
    BY <2>1 DEF AskRows
  <2> HIDE DEF row
  <2>6. request'[r] = row BY <1>1, <2>4
  <2>7. RequestMoves(r) BY <1>6, <2>5, <2>6 DEF RequestMoves, Mailing1
  <2> QED BY <1>3, <2>3, <2>4, <2>7
<1>7. ASSUME NEW r \in Requests, ReplaceCode(r) PROVE Goal
  <2> DEFINE row == [request[r] EXCEPT !.pc = "deliver", !.code = nextCode]
  <2>1. request[r] \in AskRows /\ nextCode \in Nat BY <1>1 DEF EmailTypes
  <2>2. row \in AskRows BY <2>1 DEF AskRows
  <2>3. request' = [request EXCEPT ![r] = row] BY <1>7 DEF ReplaceCode
  <2>4. row.pc = "deliver" /\ row.code = nextCode /\ row.fresh = request[r].fresh
        /\ row.purpose = request[r].purpose /\ row.address = request[r].address /\ row.who = request[r].who
    BY <2>1 DEF AskRows
  <2> HIDE DEF row
  <2>5. request'[r] = row BY <1>1, <2>3
  <2>6. RequestMoves(r) BY <1>7, <2>4, <2>5 DEF RequestMoves, Mailing1
  <2> QED BY <1>3, <2>2, <2>3, <2>6
<1> HIDE DEF Goal
<1>8. Goal
  <2>1. CASE UNCHANGED emailVars BY <1>2, <2>1 DEF emailVars
  <2>2. CASE \E r \in Requests, p \in Purposes, a \in Addresses, u \in People \cup {""} : AsksForCode(r, p, a, u)
    BY <1>5, <2>2
  <2>3. CASE \E r \in Requests : CheckCooldown(r) \/ ReplaceCode(r) BY <1>6, <1>7, <2>3
  <2>4. CASE \E r \in Requests : Withdraw(r) BY <1>4, <2>4 DEF Withdraw
  <2>5. CASE \E r \in Requests, arrives \in BOOLEAN : MailerDropped(r, arrives) BY <1>4, <2>5 DEF MailerDropped
  <2>6. CASE \E r \in Requests, arrives, reported \in BOOLEAN : Deliver(r, arrives, reported)
    BY <2>6, <1>4 DEF Deliver, Mailing1
  <2>7. CASE \/ \E u \in People, a \in Addresses : RegisterUnverified(u, a)
             \/ \E u \in People, a \in Addresses, c \in OnRecord : Register(u, a, c) \/ ConfirmChange(u, a, c)
             \/ \E a \in Addresses, c \in OnRecord : ResetPassword(a, c)
    BY ZenonT(60), <1>2, <2>7 DEF RegisterUnverified, Register, ConfirmChange, ResetPassword
  <2>8. CASE \/ \E u \in People : RemoveEmail(u) \/ AdminDeletes(u)
             \/ \E u \in People, email \in {{}} \cup {{a} : a \in Addresses} : AdminCreates(u, email)
             \/ \E u \in People, row \in PersonRows : AdminUpdates(u, row)
             \/ MinutePasses \/ \E c \in OnRecord : MailedCodeExpires(c)
    BY <1>2, <2>8 DEF RemoveEmail, AdminDeletes, AdminCreates, AdminUpdates, MinutePasses, MailedCodeExpires
  <2> QED BY <2>1, <2>2, <2>3, <2>4, <2>5, <2>6, <2>7, <2>8, EmailSteps
<1> QED BY <1>8 DEF Goal

\* A message that has arrived stays, and a new one is what its request mails.
AsBefore(m, n) == m.code = n.code /\ m.purpose = n.purpose /\ m.address = n.address /\ m.before = n.before
MailedBy(r, m) ==
  /\ request[r].pc = "deliver" /\ m.code = request[r].code /\ m.purpose = request[r].purpose
  /\ m.address = request[r].address /\ m.before = request[r].fresh

LEMMA MessagesMove ==
  ASSUME EmailTypes, [EmailNext]_emailVars
  PROVE  /\ mailed' \subseteq MessageRows
         /\ \A m \in mailed' : (\E n \in mailed : AsBefore(m, n)) \/ \E r \in Requests : MailedBy(r, m)
         /\ \A n \in mailed : \E m \in mailed' : AsBefore(m, n)
         /\ entered \subseteq entered'
<1> DEFINE Goal ==
      /\ mailed' \subseteq MessageRows
      /\ \A m \in mailed' : (\E n \in mailed : AsBefore(m, n)) \/ \E r \in Requests : MailedBy(r, m)
      /\ \A n \in mailed : \E m \in mailed' : AsBefore(m, n)
      /\ entered \subseteq entered'
<1>1. mailed \subseteq MessageRows BY DEF EmailTypes
<1>2. ASSUME UNCHANGED mailed, entered \subseteq entered' PROVE Goal BY <1>1, <1>2 DEF AsBefore
<1>3. ASSUME NEW r \in Requests, request[r].pc = "deliver", mailed' = mailed \cup {Message(r)}, UNCHANGED entered PROVE Goal
  <2>1. request[r] \in AskRows BY DEF EmailTypes
  <2>2. Message(r) \in MessageRows /\ MailedBy(r, Message(r)) BY <1>3, <2>1 DEF AskRows, MessageRows, MailedBy, Message
  <2> QED BY <1>1, <1>3, <2>2 DEF AsBefore
<1>4. ASSUME MinutePasses PROVE Goal
  <2>1. \A m \in mailed : [m EXCEPT !.fresh = FALSE] \in MessageRows /\ AsBefore([m EXCEPT !.fresh = FALSE], m)
    BY <1>1 DEF MessageRows, AsBefore
  <2> QED BY <1>4, <2>1 DEF MinutePasses
<1> HIDE DEF Goal
<1>5. Goal
  <2>1. CASE UNCHANGED emailVars BY SMTT(30), <1>2, <2>1 DEF emailVars
  <2>2. CASE \/ \E r \in Requests, p \in Purposes, a \in Addresses, u \in People \cup {""} : AsksForCode(r, p, a, u)
             \/ \E r \in Requests : CheckCooldown(r) \/ ReplaceCode(r) \/ Withdraw(r)
    BY <1>2, <2>2 DEF AsksForCode, CheckCooldown, ReplaceCode, Withdraw, NothingElse
  <2>3. CASE \E r \in Requests, arrives \in BOOLEAN : MailerDropped(r, arrives) BY <1>2, <1>3, <2>3 DEF MailerDropped
  <2>4. CASE \E r \in Requests, arrives, reported \in BOOLEAN : Deliver(r, arrives, reported) BY <1>2, <1>3, <2>4 DEF Deliver
  <2>5. CASE \/ \E u \in People, a \in Addresses : RegisterUnverified(u, a)
             \/ \E u \in People, a \in Addresses, c \in OnRecord : Register(u, a, c) \/ ConfirmChange(u, a, c)
             \/ \E a \in Addresses, c \in OnRecord : ResetPassword(a, c)
    <3>1. \A u, a : RegisterUnverified(u, a) => UNCHANGED mailed /\ entered \subseteq entered' BY DEF RegisterUnverified
    <3>2. \A u, a, c : Register(u, a, c) \/ ConfirmChange(u, a, c) => UNCHANGED mailed /\ entered \subseteq entered' BY DEF Register, ConfirmChange, UseUp
    <3>3. \A a, c : ResetPassword(a, c) => UNCHANGED mailed /\ entered \subseteq entered' BY DEF ResetPassword, UseUp
    <3>4. UNCHANGED mailed /\ entered \subseteq entered' BY SMTT(30), <2>5, <3>1, <3>2, <3>3
    <3> QED BY <1>2, <3>4
  <2>6. CASE \/ \E u \in People : RemoveEmail(u) \/ AdminDeletes(u)
             \/ \E u \in People, email \in {{}} \cup {{a} : a \in Addresses} : AdminCreates(u, email)
             \/ \E u \in People, row \in PersonRows : AdminUpdates(u, row)
             \/ \E c \in OnRecord : MailedCodeExpires(c)
    BY <1>2, <2>6 DEF RemoveEmail, AdminDeletes, AdminCreates, AdminUpdates, MailedCodeExpires
  <2>7. CASE MinutePasses BY <1>4, <2>7
  <2> QED BY <2>1, <2>2, <2>3, <2>4, <2>5, <2>6, <2>7, EmailSteps
<1> QED BY <1>5 DEF Goal

\* What a code is for it was for already, or it is a new one.
LEMMA PurposesMove ==
  ASSUME EmailTypes, [EmailNext]_emailVars, NEW c, NEW p, NEW a, IsFor(c, p, a)'
  PROVE  \/ IsFor(c, p, a)
         \/ /\ nextCode' = nextCode + 1 /\ c = nextCode
            /\ \E r \in Requests : ReplaceCode(r) /\ request[r].purpose = p /\ request[r].address = a
<1>1. CASE RowFor(c, p, a)' BY <1>1, RowsMove DEF RowFor, OnRecord, RowKept, PutBy, IsFor
<1>2. ASSUME NEW r \in Requests, request[r].pc = "deliver", request[r].code = c, request[r].purpose = p, request[r].address = a
      PROVE  IsFor(c, p, a)
  BY <1>2 DEF IsFor, RequestFor, Mailing1
<1>3. CASE MessageFor(c, p, a)' BY <1>3, MessagesMove, <1>2 DEF MessageFor, AsBefore, IsFor, MailedBy
<1>4. CASE RequestFor(c, p, a)'
  BY <1>4, RequestsMove DEF RequestFor, RequestGoesOn, IsFor, Mailing1, ReplaceCode, RequestMoves
<1> QED BY <1>1, <1>3, <1>4 DEF IsFor

LEMMA CodesForOneStep ==
  ASSUME EmailTypes, CodesForOne, [EmailNext]_emailVars
  PROVE  CodesForOne'
<1>1. nextCode \in Nat \ {0} /\ nextCode' \in Nat \ {0} /\ nextCode <= nextCode' BY RowsMove DEF EmailTypes
<1>2. ASSUME NEW c, NEW p, NEW a, IsFor(c, p, a)' PROVE c \in 1 .. nextCode' - 1
  BY <1>1, <1>2, PurposesMove DEF CodesForOne
<1>3. ASSUME NEW c, NEW p, NEW a, NEW o, NEW b, IsFor(c, p, a)', IsFor(c, o, b)' PROVE p = o /\ a = b
  <2>1. ASSUME NEW r \in Requests, NEW s \in Requests, ReplaceCode(r), ReplaceCode(s) PROVE r = s
    <3>1. request \in [Requests -> AskRows] BY DEF EmailTypes
    <3>2. request' = [request EXCEPT ![r].pc = "deliver", ![r].code = nextCode] BY <2>1 DEF ReplaceCode
    <3>3. request' = [request EXCEPT ![s].pc = "deliver", ![s].code = nextCode] BY <2>1 DEF ReplaceCode
    <3>4. request[r].pc = "replace" BY <2>1 DEF ReplaceCode
    <3>5. request'[r].pc = "deliver" BY <3>1, <3>2 DEF AskRows
    <3>6. s # r => request'[r] = request[r] BY <3>1, <3>3
    <3> QED BY <3>4, <3>5, <3>6
  <2>2. CASE c = nextCode BY <1>1, <2>2, <1>3, PurposesMove, <2>1 DEF CodesForOne
  <2>3. CASE c # nextCode BY <1>3, <2>3, PurposesMove DEF CodesForOne
  <2> QED BY <2>2, <2>3
<1> QED BY <1>2, <1>3 DEF CodesForOne

LEMMA EarlierNumbers == \A m, n \in Nat : m <= n => 1 .. m - 1 \subseteq 1 .. n - 1
OBVIOUS

LEMMA CooldownStep ==
  ASSUME EmailTypes, CodesForOne, CooldownSeen, [EmailNext]_emailVars
  PROVE  CooldownSeen'
<1>1. nextCode \in Nat \ {0} /\ nextCode' \in Nat \ {0} /\ nextCode <= nextCode' BY RowsMove DEF EmailTypes
<1>2. ASSUME NEW codes, NEW p, NEW a, LooksClear(codes, p, a) PROVE LooksClear(codes, p, a)'
  <2>1. codes \subseteq 1 .. nextCode - 1 /\ \A c \in codes : ~IsFor(c, p, a) BY <1>2 DEF LooksClear
  <2>2. ASSUME NEW c \in codes PROVE ~IsFor(c, p, a)' BY <1>1, <2>1, PurposesMove
  <2>3. codes \subseteq 1 .. nextCode' - 1 BY <1>1, <2>1, EarlierNumbers
  <2> QED BY <2>2, <2>3 DEF LooksClear
<1>3. ASSUME NEW r \in Requests, NEW codes, NEW p, NEW a, Mailing1(r)' \/ request'[r].pc = "replace",
             request'[r].fresh = codes, request'[r].purpose = p, request'[r].address = a
      PROVE  LooksClear(codes, p, a)
  <2>1. RequestMoves(r) BY RequestsMove
  <2>2. CASE RequestGoesOn(r) /\ (Mailing1(r) \/ request[r].pc = "replace")
    BY <1>3, <2>2 DEF RequestGoesOn, CooldownSeen
  <2>3. CASE ReplaceCode(r) /\ request'[r].purpose = request[r].purpose /\ request'[r].address = request[r].address
             /\ request'[r].fresh = request[r].fresh
    BY <1>3, <2>3 DEF ReplaceCode, CooldownSeen
  <2>4. CASE /\ request'[r].purpose = request[r].purpose /\ request'[r].address = request[r].address
             /\ request'[r].fresh = {c \in OnRecord : codeRow[c].fresh}
             /\ Recent(request[r].purpose, request[r].address, request[r].who) = {}
    <3>1. codes = {c \in OnRecord : codeRow[c].fresh} /\ codes \subseteq 1 .. nextCode - 1 BY <1>3, <2>4 DEF EmailTypes
    <3>2. ASSUME NEW c \in codes PROVE ~IsFor(c, p, a)
      <4>1. IsFor(c, codeRow[c].purpose, codeRow[c].address) BY <3>1 DEF IsFor, RowFor
      <4>2. codeRow[c].purpose # p \/ codeRow[c].address # a BY <1>3, <2>4, <3>1 DEF Recent
      <4> QED BY <4>1, <4>2 DEF CodesForOne
    <3> QED BY <3>1, <3>2 DEF LooksClear
  <2> QED BY <1>3, <2>1, <2>2, <2>3, <2>4 DEF RequestMoves, Mailing1
<1>4. ASSUME NEW m \in mailed' PROVE LooksClear(m.before, m.purpose, m.address)
  BY MessagesMove DEF AsBefore, MailedBy, CooldownSeen, Mailing1
<1> QED BY <1>2, <1>3, <1>4 DEF CooldownSeen

LEMMA OneCodeStep ==
  ASSUME EmailTypes, OneCodeCounts, [EmailNext]_emailVars
  PROVE  OneCodeCounts'
<1> DEFINE Same(c, d) ==
      ~codeRow[c].used /\ ~codeRow[d].used /\ codeRow[c].purpose = codeRow[d].purpose
      /\ SameKey(codeRow[c], codeRow[d].purpose, codeRow[d].address, codeRow[d].who)
<1>1. \A c \in DOMAIN codeRow' : RowKept(c) \/ \E r \in Requests : PutBy(r, c) BY RowsMove
<1>2. ASSUME NEW c, NEW d, RowKept(c), RowKept(d), Same(c, d)' PROVE c = d BY <1>2 DEF RowKept, SameKey, OneCodeCounts
<1>3. ASSUME NEW r \in Requests, NEW c, NEW d, PutBy(r, c), RowKept(d), d \in DOMAIN codeRow', Same(c, d)' \/ Same(d, c)'
      PROVE  c = d
  <2> DEFINE q == request[r]
             staying == {e \in OnRecord : codeRow[e].used \/ ~SameKey(codeRow[e], q.purpose, q.address, q.who)}
  <2>1. DOMAIN codeRow' = staying \cup {nextCode} BY <1>3 DEF PutBy, ReplaceCode
  <2>2. CASE d \in staying BY <1>3, <2>2 DEF RowKept, SameKey, PutBy
  <2>3. CASE d = nextCode BY <1>3, <2>3 DEF PutBy
  <2> QED BY SMTT(30), <1>3, <2>1, <2>2, <2>3
<1>4. ASSUME NEW c \in DOMAIN codeRow', NEW d \in DOMAIN codeRow', Same(c, d)' PROVE c = d
  BY <1>2, <1>4, <1>3, <1>1 DEF PutBy
<1> QED BY <1>4 DEF OneCodeCounts, OnRecord, SameKey

\* A person's address is verified as before, or because of a message or an
\* administrator.
PersonMoves(u) ==
  \/ ~person'[u].verified \/ person'[u].admin
  \/ person'[u].verified = person[u].verified /\ person'[u].admin = person[u].admin /\ person'[u].email = person[u].email
  \/ \E c \in OnRecord : Known(c) /\ c \in entered' /\ person'[u].email = {codeRow[c].address}

LEMMA PeopleMove ==
  ASSUME EmailTypes, [EmailNext]_emailVars
  PROVE  person' \in [People -> PersonRows] /\ \A u \in People : PersonMoves(u)
<1> DEFINE Goal == person' \in [People -> PersonRows] /\ \A u \in People : PersonMoves(u)
<1>1. person \in [People -> PersonRows] BY DEF EmailTypes
<1>2. ASSUME UNCHANGED person PROVE Goal BY <1>1, <1>2 DEF PersonMoves
<1>3. ASSUME NEW u \in People, NEW row \in PersonRows, person' = [person EXCEPT ![u] = row], PersonMoves(u) PROVE Goal
  BY <1>1, <1>3 DEF PersonMoves
<1>4. ASSUME NEW u \in People, NEW a \in Addresses, RegisterUnverified(u, a) PROVE Goal
  BY <1>4, <1>1, <1>3 DEF NoPerson, PersonRows, RegisterUnverified, PersonMoves
<1>5. ASSUME NEW u \in People, NEW a \in Addresses, NEW c \in OnRecord, Register(u, a, c) PROVE Goal
  BY <1>5, <1>1, <1>3 DEF NoPerson, PersonRows, Register, UseUp, Accepts, PersonMoves
<1>6. ASSUME NEW u \in People, NEW a \in Addresses, NEW c \in OnRecord, ConfirmChange(u, a, c) PROVE Goal
  <2>1. CASE ~person[u].enabled BY <1>2, <1>6, <2>1 DEF ConfirmChange
  <2>2. CASE person[u].enabled
    <3> DEFINE row == [person[u] EXCEPT !.email = {a}, !.verified = TRUE, !.admin = FALSE]
    <3>1. person[u] \in PersonRows BY <1>1
    <3>2. row \in PersonRows /\ row.email = {a} BY <3>1 DEF PersonRows
    <3>3. person' = [person EXCEPT ![u] = row] /\ Known(c) /\ c \in entered' /\ codeRow[c].address = a
      BY <1>1, <1>6, <2>2 DEF ConfirmChange, UseUp, Accepts
    <3> HIDE DEF row
    <3>4. PersonMoves(u) BY <1>1, <3>2, <3>3 DEF PersonMoves
    <3> QED BY <1>3, <3>2, <3>3, <3>4
  <2> QED BY <2>1, <2>2
<1>7. ASSUME NEW u \in People, RemoveEmail(u) \/ AdminDeletes(u) PROVE Goal
  BY SMTT(30), <1>1, <1>7, <1>3 DEF PersonRows, RemoveEmail, AdminDeletes, PersonMoves
<1>8. ASSUME NEW u \in People, NEW email \in {{}} \cup {{a} : a \in Addresses}, AdminCreates(u, email) PROVE Goal
  BY <1>8, <1>1, <1>3 DEF PersonRows, AdminCreates, PersonMoves
<1>9. ASSUME NEW u \in People, NEW row \in PersonRows, AdminUpdates(u, row) PROVE Goal
  BY <1>1, <1>9, <1>3 DEF PersonRows, AdminUpdates, PersonMoves
<1> HIDE DEF Goal
<1>10. Goal
  <2>1. CASE UNCHANGED emailVars BY SMTT(30), <1>2, <2>1 DEF emailVars
  <2>2. CASE \/ \E r \in Requests, p \in Purposes, a \in Addresses, u \in People \cup {""} : AsksForCode(r, p, a, u)
             \/ \E r \in Requests : CheckCooldown(r) \/ ReplaceCode(r) \/ Withdraw(r)
             \/ \E r \in Requests, arrives \in BOOLEAN : MailerDropped(r, arrives)
             \/ \E r \in Requests, arrives, reported \in BOOLEAN : Deliver(r, arrives, reported)
    BY <1>2, <2>2 DEF AsksForCode, CheckCooldown, ReplaceCode, Withdraw, NothingElse, MailerDropped, Deliver
  <2>3. CASE \/ \E a \in Addresses, c \in OnRecord : ResetPassword(a, c)
             \/ MinutePasses \/ \E c \in OnRecord : MailedCodeExpires(c)
    BY <1>2, <2>3 DEF ResetPassword, MinutePasses, MailedCodeExpires
  <2>4. CASE \E u \in People, a \in Addresses : RegisterUnverified(u, a) BY <1>4, <2>4
  <2>5. CASE \E u \in People, a \in Addresses, c \in OnRecord : Register(u, a, c) \/ ConfirmChange(u, a, c)
    BY <1>5, <1>6, <2>5
  <2>6. CASE \E u \in People : RemoveEmail(u) \/ AdminDeletes(u) BY <1>7, <2>6
  <2>7. CASE \E u \in People, email \in {{}} \cup {{a} : a \in Addresses} : AdminCreates(u, email) BY <1>8, <2>7
  <2>8. CASE \E u \in People, row \in PersonRows : AdminUpdates(u, row) BY <1>9, <2>8
  <2> QED BY <2>1, <2>2, <2>3, <2>4, <2>5, <2>6, <2>7, <2>8, EmailSteps
<1> QED BY <1>10 DEF Goal

LEMMA VerifiedStep ==
  ASSUME EmailTypes, CodesForOne, VerifiedWasReached, [EmailNext]_emailVars
  PROVE  VerifiedWasReached'
<1> SUFFICES ASSUME NEW u \in People, person'[u].verified, ~person'[u].admin
             PROVE  \E m \in mailed' : m.code \in entered' /\ person'[u].email = {m.address}
  BY DEF VerifiedWasReached
<1>1. (\A n \in mailed : \E m \in mailed' : AsBefore(m, n)) /\ entered \subseteq entered' BY MessagesMove
<1>2. \E n \in mailed : n.code \in entered' /\ person'[u].email = {n.address}
  <2>1. CASE person'[u].verified = person[u].verified /\ person'[u].admin = person[u].admin /\ person'[u].email = person[u].email
    BY <1>1, <2>1 DEF VerifiedWasReached
  <2>2. CASE \E c \in OnRecord : Known(c) /\ c \in entered' /\ person'[u].email = {codeRow[c].address}
    <3>1. PICK c \in OnRecord : Known(c) /\ c \in entered' /\ person'[u].email = {codeRow[c].address} BY <2>2
    <3>2. PICK n \in mailed : n.code = c BY <3>1 DEF Known
    <3>3. IsFor(c, codeRow[c].purpose, codeRow[c].address) /\ IsFor(c, n.purpose, n.address)
      BY <3>2 DEF IsFor, RowFor, MessageFor
    <3> QED BY <3>1, <3>2, <3>3 DEF CodesForOne
  <2> QED BY <2>1, <2>2, PeopleMove DEF PersonMoves
<1> QED BY <1>1, <1>2 DEF AsBefore

-----------------------------------------------------------------------------
(*                        Addresses are correct                            *)

LEMMA EmailInvStep ==
  ASSUME EmailInv, [EmailNext]_emailVars
  PROVE  EmailInv'
<1>1. EmailTypes' BY RowsMove, RequestsMove, MessagesMove, PeopleMove DEF EmailInv, EmailTypes, OnRecord
<1> QED BY <1>1, CodesForOneStep, CooldownStep, VerifiedStep, OneCodeStep DEF EmailInv

LEMMA EmailInvSafe == EmailInv => AddressesSafe
<1> SUFFICES ASSUME EmailInv PROVE AddressesSafe OBVIOUS
<1>1. EmailTypeOK
  <2>1. \A u \in People : person[u].email \in {{}} \cup {{a} : a \in Addresses} BY DEF EmailInv, EmailTypes, PersonRows
  <2>2. \A a : Cardinality({a}) = 1 BY FS_Singleton
  <2>3. \A u \in People : person[u].email \subseteq Addresses /\ Cardinality(person[u].email) <= 1
    <3> TAKE u \in People
    <3>1. CASE person[u].email = {} BY <3>1, FS_EmptySet
    <3>2. CASE \E a \in Addresses : person[u].email = {a} BY <2>2, <3>2
    <3> QED BY <2>1, <3>1, <3>2
  <2>4. OnRecord \subseteq 1 .. nextCode - 1 /\ \A c \in OnRecord : codeRow[c].purpose \in Purposes
    BY DEF EmailInv, EmailTypes, MailedCodeRows
  <2>5. \A r \in Requests : request[r].pc \in {"idle", "cooldown", "replace", "deliver", "withdraw"}
    BY DEF EmailInv, EmailTypes, AskRows
  <2> QED BY <2>3, <2>4, <2>5 DEF EmailTypeOK
<1>2. OneMessageAMinute BY DEF OneMessageAMinute, IsFor, MessageFor, EmailInv, CooldownSeen, LooksClear
<1> QED BY <1>1, <1>2 DEF EmailInv, AddressesSafe

\* For any users, addresses, requests and starts: an address that counts as
\* verified was reached, or an administrator said so; of the codes that can be
\* used only the last of a kind is there; two messages of one purpose reach an
\* address within a minute only if they were asked for side by side (auth.rs,
\* user.rs, admin_users.rs, mail.rs).
THEOREM AddressesCorrect == EmailSpec => []AddressesSafe
<1>1. EmailInit => EmailInv BY EmailInitInv
<1>2. EmailInv /\ [EmailNext]_emailVars => EmailInv' BY EmailInvStep
<1>3. EmailInv => AddressesSafe BY EmailInvSafe
<1> QED BY <1>1, <1>2, <1>3, PTL DEF EmailSpec

LEMMA CodeLeaves ==
  ASSUME EmailTypes, [EmailNext]_emailVars, NEW c \in OnRecord, c \notin DOMAIN codeRow'
  PROVE  \/ \E d \in DOMAIN codeRow' \ OnRecord : SameKey(codeRow[c], codeRow'[d].purpose, codeRow'[d].address, codeRow'[d].who)
         \/ \E r \in Requests : request[r].pc = "withdraw" /\ request[r].code = c
         \/ \E u \in People : codeRow[c].who = u /\ codeRow[c].purpose = "change" /\ person'[u].email = {}
<1>1. CASE \E r \in Requests : ReplaceCode(r)
  <2>1. PICK r \in Requests : ReplaceCode(r) BY <1>1
  <2> DEFINE q == request[r]
             staying == {e \in OnRecord : codeRow[e].used \/ ~SameKey(codeRow[e], q.purpose, q.address, q.who)}
  <2>2. DOMAIN codeRow' = staying \cup {nextCode} BY <2>1 DEF ReplaceCode
  <2>3. SameKey(codeRow[c], q.purpose, q.address, q.who) BY <2>2
  <2>4. nextCode \notin OnRecord /\ nextCode \in DOMAIN codeRow' BY <2>2 DEF EmailTypes
  <2>5. \E s \in Requests : PutBy(s, nextCode) BY <2>4, RowsMove DEF RowKept
  <2>6. PutBy(r, nextCode) BY <2>1, <2>4 DEF ReplaceCode, PutBy
  <2> QED BY <2>3, <2>4, <2>6 DEF PutBy
<1>2. CASE \E r \in Requests : Withdraw(r) BY <1>2 DEF Withdraw, Withdrawn
<1>3. CASE \E u \in People : RemoveEmail(u) BY <1>3 DEF RemoveEmail, EmailTypes, PersonRows
<1>4. ASSUME OnRecord \subseteq DOMAIN codeRow' PROVE FALSE BY <1>4
<1>5. CASE \/ UNCHANGED emailVars
           \/ \E r \in Requests, p \in Purposes, a \in Addresses, u \in People \cup {""} : AsksForCode(r, p, a, u)
           \/ \E r \in Requests : CheckCooldown(r)
           \/ \E r \in Requests, arrives \in BOOLEAN : MailerDropped(r, arrives)
           \/ \E r \in Requests, arrives, reported \in BOOLEAN : Deliver(r, arrives, reported)
           \/ \E u \in People, a \in Addresses : RegisterUnverified(u, a)
  <2>1. UNCHANGED codeRow
    BY ZenonT(60), <1>5 DEF emailVars, AsksForCode, CheckCooldown, NothingElse, MailerDropped, Deliver, RegisterUnverified
  <2> QED BY SMTT(30), <1>4, <2>1 DEF OnRecord
<1>6. CASE \/ \E u \in People : AdminDeletes(u)
           \/ \E u \in People, email \in {{}} \cup {{a} : a \in Addresses} : AdminCreates(u, email)
           \/ \E u \in People, row \in PersonRows : AdminUpdates(u, row)
  BY <1>6, <1>4 DEF AdminDeletes, AdminCreates, AdminUpdates, OnRecord
<1>7. CASE \/ \E u \in People, a \in Addresses, d \in OnRecord : Register(u, a, d) \/ ConfirmChange(u, a, d)
           \/ \E a \in Addresses, d \in OnRecord : ResetPassword(a, d)
           \/ \E d \in OnRecord : MailedCodeExpires(d)
  <2>1. \E d \in OnRecord : codeRow' = [codeRow EXCEPT ![d].used = TRUE] \/ codeRow' = [codeRow EXCEPT ![d].live = FALSE]
    BY ZenonT(60), <1>7 DEF Register, ConfirmChange, ResetPassword, MailedCodeExpires, UseUp
  <2>2. DOMAIN codeRow' = DOMAIN codeRow BY <2>1
  <2> QED BY SMTT(30), <1>4, <2>2 DEF OnRecord
<1>8. CASE MinutePasses BY <1>8, <1>4 DEF MinutePasses
<1> QED BY <1>1, <1>2, <1>3, <1>5, <1>6, <1>7, <1>8, EmailSteps

\* For any users, addresses and requests: a code leaves the table only for a
\* newer one of its kind, by its own failed delivery, or with its user's address
\* (mail.rs, user.rs).
THEOREM CodesStay == EmailSpec => CodesStayUsable
<1>1. EmailInit => EmailInv BY EmailInitInv
<1>2. EmailInv /\ [EmailNext]_emailVars => EmailInv' BY EmailInvStep
<1> DEFINE Stays ==
  \A c \in OnRecord : c \notin DOMAIN codeRow' =>
       \/ \E d \in DOMAIN codeRow' \ OnRecord : SameKey(codeRow[c], codeRow'[d].purpose, codeRow'[d].address, codeRow'[d].who)
       \/ \E r \in Requests : request[r].pc = "withdraw" /\ request[r].code = c
       \/ \E u \in People : codeRow[c].who = u /\ codeRow[c].purpose = "change" /\ person'[u].email = {}
<1>3. EmailInv /\ [EmailNext]_emailVars => [Stays]_emailVars BY CodeLeaves DEF EmailInv
<1> HIDE DEF Stays
<1>4. EmailSpec => [][Stays]_emailVars BY <1>1, <1>2, <1>3, PTL DEF EmailSpec
<1> QED BY <1>4 DEF CodesStayUsable, Stays

-----------------------------------------------------------------------------
(*                     Signing in: what the rows hold                      *)

CodeRows == [kind : {"wrong", "totp", "recovery"}, of : Nat, code : RecoveryCodes \cup {"none"}]
LoginRows(limit) ==
  [enabled : BOOLEAN, password : 0 .. limit, secret : 0 .. limit, pending : 0 .. limit, spare : SUBSET RecoveryCodes]
SessionRows == [who : Members, password : Nat, factor : Nat, proof : CodeRows, late : BOOLEAN]
ChallengeRows == [who : Members, attempts : Nat, live : BOOLEAN, password : Nat]
SignInPlaces == {"idle", "clear", "challenge", "verify", "spend", "count", "delete", "user", "session",
                 "update", "revoke", "pend", "enable", "disable"}
SignInRows ==
  [op : {"login", "second", "password", "setup", "enable", "disable"}, pc : SignInPlaces, who : Members \cup {""},
   session : Nat, password : Nat, secret : Nat, pending : Nat, code : CodeRows, challenge : Nat,
   left : SUBSET RecoveryCodes, seen : SUBSET RecoveryCodes]

\* The tables, and what is made up anew is greater than all there is.
SessionTables ==
  /\ lastSecret \in Nat /\ nextToken \in Nat \ {0}
  /\ login \in [Members -> LoginRows(lastSecret)]
  /\ DOMAIN session \subseteq 1 .. nextToken - 1 /\ session \in [DOMAIN session -> SessionRows]
  /\ DOMAIN challenge \subseteq DOMAIN tries /\ challenge \in [DOMAIN challenge -> ChallengeRows]
  /\ DOMAIN tries \subseteq 1 .. nextToken - 1 /\ tries \in [DOMAIN tries -> Int]
  /\ booting \subseteq Members /\ (\A m, n \in booting : m = n)
  /\ raced \subseteq Members /\ cutOff \subseteq Members

\* A request that goes on knows whose it is, which session or challenge it came
\* with, and where it may be.
RequestHolds(h) ==
  signIn[h].pc # "idle" =>
    /\ signIn[h].who \in Members
    /\ signIn[h].session < nextToken
    /\ signIn[h].session \in DOMAIN session => session[signIn[h].session].who = signIn[h].who
    /\ signIn[h].pc \in {"verify", "spend", "count", "user"} => signIn[h].op = "second"
    /\ signIn[h].pc = "session" => signIn[h].op \in {"login", "second"}
    /\ signIn[h].pc \in {"verify", "count"} => signIn[h].challenge \in DOMAIN tries
    /\ signIn[h].pc = "enable" => signIn[h].pending # 0
    /\ signIn[h].pc = "disable" => signIn[h].op = "disable"
    /\ signIn[h].op = "login" => signIn[h].code.kind = "wrong"

RequestsHold == signIn \in [SignIns -> SignInRows] /\ \A h \in SignIns : RequestHolds(h)

SessionTypes == SessionTables /\ RequestsHold

LEMMA InitSessionTypes == SessionInit => SessionTypes
<1> SUFFICES ASSUME SessionInit PROVE SessionTypes OBVIOUS
<1>1. PICK start \in SessionStarts : login = start.logins BY DEF SessionInit
<1>2. SoundLogins(login) BY <1>1, SessionAssumption
<1>3. login \in [Members -> LoginRows(9)] BY <1>2 DEF SoundLogins, LoginRows
<1>5. SessionTables BY <1>3 DEF SessionInit, SessionTables
<1>6. NoSignIn \in SignInRows BY DEF NoSignIn, SignInRows, NoCode, CodeRows, SignInPlaces
<1>7. DOMAIN session = {} /\ nextToken = 1 /\ signIn = [h \in SignIns |-> NoSignIn] BY DEF SessionInit
<1>8. \A h \in SignIns : signIn[h].pc = "idle" /\ signIn[h].session = 0 BY <1>7 DEF NoSignIn
<1>9. RequestsHold BY <1>6, <1>7, <1>8 DEF RequestsHold, RequestHolds
<1> QED BY <1>5, <1>9 DEF SessionTypes

\* Nobody else's request moves.
AloneIn(h) == \A g \in SignIns \ {h} : signIn'[g] = signIn[g]
\* Only its place changes.
Moves(h, pc) ==
  /\ signIn'[h].pc = pc /\ signIn'[h].op = signIn[h].op /\ signIn'[h].who = signIn[h].who
  /\ signIn'[h].session = signIn[h].session /\ signIn'[h].password = signIn[h].password
  /\ signIn'[h].secret = signIn[h].secret /\ signIn'[h].pending = signIn[h].pending
  /\ signIn'[h].code = signIn[h].code /\ signIn'[h].challenge = signIn[h].challenge
  /\ signIn'[h].left = signIn[h].left /\ signIn'[h].seen = signIn[h].seen

LEMMA TurnsMoves ==
  ASSUME signIn \in [SignIns -> SignInRows], NEW h \in SignIns, NEW pc \in SignInPlaces, Turns(h, pc)
  PROVE  /\ signIn' \in [SignIns -> SignInRows] /\ AloneIn(h) /\ Moves(h, pc)
<1>1. signIn[h] \in SignInRows OBVIOUS
<1>2. [signIn[h] EXCEPT !.pc = pc] \in SignInRows BY <1>1 DEF SignInRows
<1>3. signIn' = [signIn EXCEPT ![h] = [signIn[h] EXCEPT !.pc = pc]] BY DEF Turns, GoOn
<1>4. signIn' \in [SignIns -> SignInRows] /\ AloneIn(h) BY <1>2, <1>3 DEF AloneIn
<1>5. Moves(h, pc) BY <1>1, <1>3 DEF Moves, SignInRows
<1> QED BY <1>4, <1>5

\* One field of a row is set; all rows stay in bounds as numbers grow.
LEMMA RowsChange ==
  /\ \A l \in Nat : \A r \in LoginRows(l), n \in 0 .. l, b \in BOOLEAN, S \in SUBSET RecoveryCodes :
       /\ [r EXCEPT !.spare = S] \in LoginRows(l) /\ [r EXCEPT !.pending = n] \in LoginRows(l)
       /\ [r EXCEPT !.secret = n, !.pending = 0, !.spare = S] \in LoginRows(l)
       /\ [r EXCEPT !.password = n] \in LoginRows(l) /\ [r EXCEPT !.password = n, !.enabled = b] \in LoginRows(l)
       /\ [r EXCEPT !.enabled = b, !.password = n] \in LoginRows(l)
  /\ \A l \in Nat : LoginRows(l) \subseteq LoginRows(l + 1)
  /\ \A r \in ChallengeRows, n \in Nat :
       [r EXCEPT !.live = FALSE] \in ChallengeRows /\ [r EXCEPT !.attempts = n] \in ChallengeRows
  /\ \A r \in SessionRows, n \in Nat : [r EXCEPT !.password = n] \in SessionRows
<1>1. \A l \in Nat : LoginRows(l) \subseteq LoginRows(l + 1) BY DEF LoginRows
<1>2. \A r \in ChallengeRows, n \in Nat :
       [r EXCEPT !.live = FALSE] \in ChallengeRows /\ [r EXCEPT !.attempts = n] \in ChallengeRows
  BY DEF ChallengeRows
<1>3. \A r \in SessionRows, n \in Nat : [r EXCEPT !.password = n] \in SessionRows BY DEF SessionRows
<1>4. ASSUME NEW l \in Nat, NEW r \in LoginRows(l), NEW n \in 0 .. l, NEW b \in BOOLEAN, NEW S \in SUBSET RecoveryCodes
      PROVE  /\ [r EXCEPT !.spare = S] \in LoginRows(l) /\ [r EXCEPT !.pending = n] \in LoginRows(l)
             /\ [r EXCEPT !.secret = n, !.pending = 0, !.spare = S] \in LoginRows(l)
             /\ [r EXCEPT !.password = n] \in LoginRows(l) /\ [r EXCEPT !.password = n, !.enabled = b] \in LoginRows(l)
             /\ [r EXCEPT !.enabled = b, !.password = n] \in LoginRows(l)
  <2>1. [r EXCEPT !.spare = S] \in LoginRows(l) /\ [r EXCEPT !.pending = n] \in LoginRows(l) BY DEF LoginRows
  <2>2. [r EXCEPT !.password = n] \in LoginRows(l) /\ [r EXCEPT !.password = n, !.enabled = b] \in LoginRows(l) BY DEF LoginRows
  <2>3. [r EXCEPT !.enabled = b, !.password = n] \in LoginRows(l) BY DEF LoginRows
  <2>4. [r EXCEPT !.secret = n, !.pending = 0, !.spare = S] \in LoginRows(l)
    <3>1. [r EXCEPT !.secret = n, !.pending = 0, !.spare = S]
            = [[[r EXCEPT !.secret = n] EXCEPT !.pending = 0] EXCEPT !.spare = S]
      OBVIOUS
    <3>2. [r EXCEPT !.secret = n] \in LoginRows(l) BY DEF LoginRows
    <3>3. \A q \in LoginRows(l) : [q EXCEPT !.pending = 0] \in LoginRows(l) BY DEF LoginRows
    <3>4. \A q \in LoginRows(l) : [q EXCEPT !.spare = S] \in LoginRows(l) BY SMTT(30) DEF LoginRows
    <3> QED BY <3>1, <3>2, <3>3, <3>4
  <2> QED BY <2>1, <2>2, <2>3, <2>4
<1> QED BY <1>1, <1>2, <1>3, <1>4

\* A member's row is replaced by one of its type.
LEMMA SetLoginTypes ==
  ASSUME SessionTables, NEW m \in Members, lastSecret' \in {lastSecret, lastSecret + 1},
         NEW row \in LoginRows(lastSecret'), SetLogin(m, row)
  PROVE  login' \in [Members -> LoginRows(lastSecret')] /\ login'[m] = row /\ \A n \in Members \ {m} : login'[n] = login[n]
BY RowsChange DEF SessionTables, SetLogin

\* One row of a table is set, or rows go.
LEMMA TableUpdates ==
  ASSUME NEW table, NEW Rows, table \in [DOMAIN table -> Rows]
  PROVE  /\ \A k, row : row \in Rows =>
              LET more == [i \in DOMAIN table \cup {k} |-> IF i = k THEN row ELSE table[i]] IN
              more \in [DOMAIN table \cup {k} -> Rows] /\ DOMAIN more = DOMAIN table \cup {k}
         /\ \A gone : Without(table, gone) \in [DOMAIN Without(table, gone) -> Rows]
                      /\ DOMAIN Without(table, gone) = DOMAIN table \ gone
                      /\ \A i \in DOMAIN table \ gone : Without(table, gone)[i] = table[i]
BY DEF Without

\* Giving up a count leaves counts.
LEMMA UncountedTypes ==
  ASSUME SessionTables, NEW ended \in SUBSET SignIns
  PROVE  Uncounted(ended) \in [DOMAIN tries -> Int] /\ DOMAIN Uncounted(ended) = DOMAIN tries
BY SessionAssumption, FS_Subset, FS_CardinalityType DEF Uncounted, SessionTables

\* The tables of sessions and challenges stay of their types.
LEMMA TablesStep ==
  ASSUME SessionTypes, [SessionNext]_sessionVars
  PROVE  SessionTables'
<1>1. ASSUME UNCHANGED <<login, lastSecret, session, challenge, nextToken, booting, raced>>,
             DOMAIN tries' = DOMAIN tries, tries' \in [DOMAIN tries -> Int], cutOff' \subseteq Members
      PROVE  SessionTables'
  BY <1>1 DEF SessionTypes, SessionTables
<1>2. ASSUME NEW m \in Members, lastSecret' \in {lastSecret, lastSecret + 1},
             NEW row \in LoginRows(lastSecret'), SetLogin(m, row),
             nextToken' = nextToken, challenge' = challenge, tries' = tries, raced' \subseteq Members, cutOff' = cutOff,
             DOMAIN session' \subseteq DOMAIN session, session' \in [DOMAIN session' -> SessionRows], booting' = booting
      PROVE  SessionTables'
  BY <1>2, SetLoginTypes DEF SessionTypes, SessionTables
<1>3. ASSUME NEW h \in SignIns, InsertChallenge(h) PROVE SessionTables'
  <2> DEFINE row == [who |-> signIn[h].who, attempts |-> 0, live |-> TRUE, password |-> signIn[h].password]
  <2>1. row \in ChallengeRows
    BY <1>3 DEF InsertChallenge, Stands, SignInRows, ChallengeRows, SessionTypes, RequestsHold, RequestHolds
  <2>2. nextToken' = nextToken + 1 /\ UNCHANGED <<login, session, lastSecret, booting, raced, cutOff>>
    BY <1>3 DEF InsertChallenge
  <2>3. challenge' \in [DOMAIN challenge' -> ChallengeRows] /\ DOMAIN challenge' = DOMAIN challenge \cup {nextToken}
    BY <1>3, <2>1, TableUpdates DEF InsertChallenge, SessionTypes, SessionTables
  <2>4. tries' \in [DOMAIN tries' -> Int] /\ DOMAIN tries' = DOMAIN tries \cup {nextToken}
    BY <1>3 DEF InsertChallenge, SessionTypes, SessionTables
  <2> QED BY <2>2, <2>3, <2>4 DEF SessionTypes, SessionTables
<1>4. ASSUME NEW h \in SignIns, CreateSession(h) PROVE SessionTables'
  <2> DEFINE q == signIn[h]
  <2> DEFINE row == [who |-> q.who, password |-> q.password, factor |-> q.secret, proof |-> q.code,
                     late |-> login[q.who].password # q.password]
  <2>1. row \in SessionRows
    BY <1>4 DEF CreateSession, Stands, SignInRows, SessionRows, SessionTypes, RequestsHold, RequestHolds
  <2>2. nextToken' = nextToken + 1 /\ UNCHANGED <<login, challenge, lastSecret, booting, raced, cutOff, tries>>
    BY <1>4 DEF CreateSession, SignInHistory
  <2>3. session' \in [DOMAIN session' -> SessionRows] /\ DOMAIN session' = DOMAIN session \cup {nextToken}
    BY <1>4, <2>1, TableUpdates DEF CreateSession, SessionTypes, SessionTables
  <2> QED BY <2>2, <2>3 DEF SessionTypes, SessionTables
<1>5. ASSUME UNCHANGED <<login, lastSecret, nextToken, raced, cutOff, tries>>,
             DOMAIN session' \subseteq DOMAIN session, session' \in [DOMAIN session' -> SessionRows],
             DOMAIN challenge' \subseteq DOMAIN challenge, challenge' \in [DOMAIN challenge' -> ChallengeRows],
             booting' \subseteq booting
      PROVE  SessionTables'
  BY <1>5 DEF SessionTypes, SessionTables
<1>6. /\ session \in [DOMAIN session -> SessionRows] /\ challenge \in [DOMAIN challenge -> ChallengeRows]
      /\ \A gone : /\ DOMAIN Without(session, gone) \subseteq DOMAIN session
                   /\ Without(session, gone) \in [DOMAIN Without(session, gone) -> SessionRows]
                   /\ DOMAIN Without(challenge, gone) \subseteq DOMAIN challenge
                   /\ Without(challenge, gone) \in [DOMAIN Without(challenge, gone) -> ChallengeRows]
  BY DEF Without, SessionTypes, SessionTables
<1>7. /\ \A h \in SignIns : signIn[h] \in SignInRows /\ (signIn[h].pc # "idle" => signIn[h].who \in Members)
      /\ \A h \in SignIns : signIn[h].left \in SUBSET RecoveryCodes
  BY DEF SessionTypes, RequestsHold, RequestHolds, SignInRows
<1>8. /\ lastSecret \in Nat /\ lastSecret + 1 \in Nat /\ lastSecret \in 0 .. lastSecret
      /\ lastSecret + 1 \in 0 .. lastSecret + 1 /\ 0 \in 0 .. lastSecret
      /\ \A m \in Members : login[m] \in LoginRows(lastSecret) /\ login[m] \in LoginRows(lastSecret + 1)
      /\ \A m \in Members : login[m].pending \in 0 .. lastSecret /\ login[m].password \in 0 .. lastSecret + 1
  <2>1. lastSecret \in Nat /\ login \in [Members -> LoginRows(lastSecret)] BY DEF SessionTypes, SessionTables
  <2>2. \A m \in Members : login[m] \in LoginRows(lastSecret) BY <2>1
  <2>3. \A m \in Members : login[m].pending \in 0 .. lastSecret /\ login[m].password \in 0 .. lastSecret BY SMTT(30), <2>2 DEF LoginRows
  <2>4. LoginRows(lastSecret) \subseteq LoginRows(lastSecret + 1) BY <2>1, RowsChange
  <2>5. 0 .. lastSecret \subseteq 0 .. lastSecret + 1 BY <2>1
  <2>6. lastSecret \in 0 .. lastSecret /\ lastSecret + 1 \in 0 .. lastSecret + 1 /\ 0 \in 0 .. lastSecret BY <2>1
  <2> QED BY <2>1, <2>2, <2>3, <2>4, <2>5, <2>6
<1>9. ASSUME NEW h \in SignIns, NEW m \in Members, SignsIn(h, m) PROVE SessionTables'
  BY <1>9, <1>1 DEF SignsIn, SignInTables, SignInHistory, SessionTypes, SessionTables
<1>10. ASSUME NEW h \in SignIns, NEW c \in DOMAIN challenge, NEW code, AnswersChallenge(h, c, code) PROVE SessionTables'
  BY <1>10, <1>1 DEF AnswersChallenge, SignInTables, SignInHistory, SessionTypes, SessionTables
<1>11. ASSUME NEW h \in SignIns, ReadUser(h) PROVE SessionTables'
  BY <1>11, <1>1 DEF ReadUser, SignInTables, SignInHistory, SessionTypes, SessionTables
<1>12. ASSUME NEW h \in SignIns, NEW s \in DOMAIN session,
             ChangePassword(h, s) \/ Setup(h, s) \/ Enable(h, s) \/ Disable(h, s) PROVE SessionTables'
  BY <1>12, <1>1 DEF ChangePassword, Setup, Enable, Disable, Begins, SignInTables, SignInHistory, SessionTypes, SessionTables
<1>13. ASSUME NEW h \in SignIns, VerifyAnswer(h) PROVE SessionTables'
  <2>1. signIn[h].challenge \in DOMAIN tries /\ tries \in [DOMAIN tries -> Int] /\ cutOff \subseteq Members
    BY <1>13 DEF VerifyAnswer, Stands, SessionTypes, SessionTables, RequestsHold, RequestHolds
  <2>2. tries' \in [DOMAIN tries -> Int] BY <1>13, <2>1 DEF VerifyAnswer
  <2> QED BY <1>1, <1>13, <2>1, <2>2 DEF VerifyAnswer, SignInTables
<1>14. ASSUME NEW h \in SignIns, ClearChallenges(h) PROVE SessionTables'
  BY <1>14, <1>5, <1>6 DEF ClearChallenges, SignInHistory
<1>15. ASSUME NEW h \in SignIns, DeleteChallenges(h) PROVE SessionTables'
  BY <1>15, <1>5, <1>6 DEF DeleteChallenges, SignInHistory
<1>16. ASSUME NEW h \in SignIns, RevokeOthers(h) PROVE SessionTables'
  BY <1>16, <1>5, <1>6 DEF RevokeOthers, SignInHistory
<1>17. ASSUME NEW h \in SignIns, CountAttempt(h) PROVE SessionTables'
  <2>1. \A c \in DOMAIN challenge : challenge[c].attempts + 1 \in Nat BY SMTT(30), <1>6 DEF ChallengeRows
  <2>2. /\ challenge' \in [DOMAIN challenge' -> ChallengeRows] /\ DOMAIN challenge' = DOMAIN challenge
    BY <1>17, <1>6, <2>1, RowsChange DEF CountAttempt
  <2> QED BY <1>17, <1>6, <2>2, <1>5 DEF CountAttempt, SignInHistory
<1>18. ASSUME NEW s \in DOMAIN session, Logout(s) PROVE SessionTables'
  BY <1>18, <1>5, <1>6 DEF Logout, SignInHistory
<1>19. ASSUME NEW m \in Members, Boot(m) PROVE SessionTables'
  BY <1>19, <1>5, <1>6 DEF Boot, SignInHistory
<1>20. CASE SignInExpires
  <2>1. CASE \E c \in DOMAIN challenge : challenge' = [challenge EXCEPT ![c].live = FALSE] /\ UNCHANGED session
    <3>1. challenge' \in [DOMAIN challenge' -> ChallengeRows] /\ DOMAIN challenge' = DOMAIN challenge BY ZenonT(60), <1>6, <2>1, RowsChange
    <3> QED BY SMTT(30), <1>20, <1>6, <2>1, <3>1, <1>5 DEF SignInExpires, SignInHistory
  <2>2. CASE \E s \in DOMAIN session : session' = Without(session, {s}) /\ UNCHANGED challenge
    BY <1>20, <2>2, <1>5, <1>6 DEF SignInExpires, SignInHistory
  <2> QED BY <1>20, <2>1, <2>2 DEF SignInExpires
<1>21. ASSUME NEW h \in SignIns, SpendRecovery(h) PROVE SessionTables'
  <2> DEFINE m == signIn[h].who
  <2> DEFINE row == [login[m] EXCEPT !.spare = signIn[h].left]
  <2>1. m \in Members BY <1>21, <1>7 DEF SpendRecovery, Stands
  <2>2. SetLogin(m, row) /\ lastSecret' = lastSecret BY <1>21 DEF SpendRecovery
  <2>3. row \in LoginRows(lastSecret') BY <2>1, <2>2, <1>7, <1>8, RowsChange
  <2> HIDE DEF m, row
  <2> QED BY <1>21, <1>2, <1>6, <1>7, <2>1, <2>2, <2>3 DEF SpendRecovery, SignInHistory, SessionTypes, SessionTables, m
<1>22. ASSUME NEW h \in SignIns, StorePending(h) PROVE SessionTables'
  <2> DEFINE m == signIn[h].who
  <2> DEFINE row == [login[m] EXCEPT !.pending = lastSecret + 1]
  <2>1. m \in Members BY <1>22, <1>7 DEF StorePending, Stands
  <2>2. SetLogin(m, row) /\ lastSecret' = lastSecret + 1 BY SMTT(30), <1>22 DEF StorePending
  <2>3. row \in LoginRows(lastSecret') BY <2>1, <2>2, <1>7, <1>8, RowsChange
  <2> HIDE DEF m, row
  <2> QED BY <1>22, <1>2, <1>6, <1>7, <2>1, <2>2, <2>3 DEF StorePending, SignInHistory, SessionTypes, SessionTables, m
<1>23. ASSUME NEW h \in SignIns, StoreSecret(h) PROVE SessionTables'
  <2> DEFINE m == signIn[h].who
  <2> DEFINE row == [login[m] EXCEPT !.secret = login[m].pending, !.pending = 0, !.spare = RecoveryCodes]
  <2>1. m \in Members BY <1>23, <1>7 DEF StoreSecret, Stands
  <2>2. SetLogin(m, row) /\ lastSecret' = lastSecret BY SMTT(30), <1>23 DEF StoreSecret
  <2>3. row \in LoginRows(lastSecret') BY <2>1, <2>2, <1>7, <1>8, RowsChange
  <2> HIDE DEF m, row
  <2> QED BY <1>23, <1>2, <1>6, <1>7, <2>1, <2>2, <2>3 DEF StoreSecret, SignInHistory, SessionTypes, SessionTables, m
<1>24. ASSUME NEW h \in SignIns, ForgetSecret(h) PROVE SessionTables'
  <2> DEFINE m == signIn[h].who
  <2> DEFINE row == [login[m] EXCEPT !.secret = 0, !.pending = 0, !.spare = {}]
  <2>1. m \in Members BY <1>24, <1>7 DEF ForgetSecret, Stands
  <2>2. SetLogin(m, row) /\ lastSecret' = lastSecret BY SMTT(30), <1>24 DEF ForgetSecret
  <2>3. row \in LoginRows(lastSecret') BY <2>1, <2>2, <1>7, <1>8, RowsChange
  <2> HIDE DEF m, row
  <2> QED BY <1>24, <1>2, <1>6, <1>7, <2>1, <2>2, <2>3 DEF ForgetSecret, SignInHistory, SessionTypes, SessionTables, m
<1>25. ASSUME NEW h \in SignIns, UpdatePassword(h) PROVE SessionTables'
  <2> DEFINE m == signIn[h].who
  <2> DEFINE row == [login[m] EXCEPT !.password = lastSecret + 1]
  <2>1. m \in Members BY <1>25, <1>7 DEF UpdatePassword, Stands
  <2>2. SetLogin(m, row) /\ lastSecret' = lastSecret + 1 BY SMTT(30), <1>25 DEF UpdatePassword
  <2>3. row \in LoginRows(lastSecret') BY ZenonT(60), <2>1, <2>2, <1>7, <1>8, RowsChange
  <2> HIDE DEF m, row
  <2>4. session' \in [DOMAIN session' -> SessionRows] /\ DOMAIN session' = DOMAIN session
    BY ZenonT(60), <1>25, <1>6, <1>8, RowsChange DEF UpdatePassword
  <2> QED BY <1>25, <1>2, <1>6, <1>7, <2>1, <2>2, <2>3, <2>4 DEF UpdatePassword, SignInHistory, SessionTypes, SessionTables, m
<1>26. ASSUME NEW m \in Members, ResetsPassword(m) PROVE SessionTables'
  BY <1>8, RowsChange, <1>26, <1>2, <1>6 DEF ResetsPassword, SignInHistory, SessionTypes, SessionTables
<1>27. ASSUME NEW m \in Members, NEW enabled \in BOOLEAN, NEW newPassword \in BOOLEAN,
             AdminEdits(m, enabled, newPassword) PROVE SessionTables'
  <2> DEFINE row == [login[m] EXCEPT !.enabled = enabled, !.password = IF newPassword THEN lastSecret + 1 ELSE @]
  <2> DEFINE n == IF newPassword THEN lastSecret + 1 ELSE login[m].password
  <2>4. n \in 0 .. lastSecret + 1 /\ row = [login[m] EXCEPT !.enabled = enabled, !.password = n] BY SMTT(30), <1>8
  <2>1. row \in LoginRows(lastSecret + 1)
    <3> HIDE DEF n, row
    <3> QED BY <1>8, <2>4, RowsChange
  <2>2. SetLogin(m, row) /\ lastSecret' = lastSecret + 1 BY <1>27 DEF AdminEdits
  <2> HIDE DEF row
  <2>3. DOMAIN session' \subseteq DOMAIN session /\ session' \in [DOMAIN session' -> SessionRows] BY <1>27, <1>6 DEF AdminEdits
  <2> QED BY <1>27, <1>2, <2>1, <2>2, <2>3 DEF AdminEdits, SignInHistory, SessionTypes, SessionTables
<1>28. ASSUME NEW m \in Members, NEW changed \in BOOLEAN, Restart(m, changed) PROVE SessionTables'
  <2>1. /\ tries' \in [DOMAIN tries' -> Int] /\ DOMAIN tries' = DOMAIN tries
        /\ UNCHANGED <<challenge, session, nextToken, verified, raced>>
    BY <1>28, UncountedTypes DEF Restart, SessionTypes
  <2>2. cutOff' \subseteq Members /\ booting' \subseteq Members /\ \A a, b \in booting' : a = b
    BY <1>28, <1>7 DEF Restart, SessionTypes, SessionTables
  <2>3. lastSecret' \in Nat /\ login' \in [Members -> LoginRows(lastSecret')]
    <3>1. CASE ~changed BY SMTT(30), <1>28, <3>1 DEF Restart, SessionTypes, SessionTables
    <3>2. CASE changed BY <1>8, RowsChange, <1>28, <3>2, SetLoginTypes DEF Restart, SessionTypes
    <3> QED BY <3>1, <3>2
  <2> QED BY <2>1, <2>2, <2>3 DEF SessionTypes, SessionTables
<1>29. ASSUME NEW h \in SignIns, SignInDropped(h) PROVE SessionTables'
  BY <1>29, UncountedTypes, <1>7, <1>1 DEF SignInDropped, SessionTypes, SessionTables, SignInTables
<1>30. CASE UNCHANGED sessionVars BY <1>30, <1>1 DEF sessionVars, SessionTypes, SessionTables
<1> QED
  BY <1>3, <1>4, <1>9, <1>10, <1>11, <1>12, <1>13, <1>14, <1>15, <1>16, <1>17, <1>18, <1>19, <1>20, <1>21, <1>22, <1>23, <1>24, <1>25, <1>26, <1>27, <1>28, <1>29, <1>30 DEF SessionNext
-----------------------------------------------------------------------------
(*                      What a step does to the rows                       *)

Changes(h, s) == ChangePassword(h, s) \/ Setup(h, s) \/ Enable(h, s) \/ Disable(h, s)
Answers(h) == \E c \in DOMAIN challenge : \E code \in CodesFor(challenge[c].who) : AnswersChallenge(h, c, code)
Starts(h) ==
  (\E m \in Members : SignsIn(h, m)) \/ Answers(h) \/ (\E s \in DOMAIN session : Changes(h, s))

\* Where a request goes on with all it holds.
Onward == {<<"clear", "challenge">>, <<"spend", "delete">>, <<"delete", "user">>, <<"user", "session">>,
           <<"update", "revoke">>, <<"disable", "delete">>}

RequestMoved(h) ==
  \/ signIn'[h] = signIn[h] \/ signIn'[h].pc = "idle" \/ Starts(h) \/ VerifyAnswer(h)
  \/ /\ Moves(h, signIn'[h].pc) /\ <<signIn[h].pc, signIn'[h].pc>> \in Onward
     /\ signIn[h].pc = "delete" => signIn[h].op = "second"

\* The actions that move a request on by its place alone.
TurnsOn(h) ==
  \/ ClearChallenges(h) \/ InsertChallenge(h) \/ SpendRecovery(h) \/ CountAttempt(h) \/ DeleteChallenges(h)
  \/ ReadUser(h) \/ CreateSession(h) \/ UpdatePassword(h) \/ RevokeOthers(h) \/ StorePending(h) \/ StoreSecret(h)
  \/ ForgetSecret(h) \/ SignInDropped(h)

\* The actions that leave all requests alone.
BesideRequests ==
  \/ \E s \in DOMAIN session : Logout(s)
  \/ \E m \in Members : ResetsPassword(m) \/ Boot(m) \/ \E enabled, newPassword \in BOOLEAN : AdminEdits(m, enabled, newPassword)
  \/ SignInExpires

LEMMA SessionSteps ==
  ASSUME SessionNext
  PROVE  \/ \E h \in SignIns : Starts(h) \/ VerifyAnswer(h) \/ TurnsOn(h)
         \/ BesideRequests
         \/ \E m \in Members, changed \in BOOLEAN : Restart(m, changed)
BY DEF SessionNext, Starts, Answers, Changes, TurnsOn, BesideRequests

LEMMA TurnsOnMoves ==
  ASSUME RequestsHold, NEW h \in SignIns, TurnsOn(h)
  PROVE  /\ signIn' \in [SignIns -> SignInRows] /\ AloneIn(h) /\ Moves(h, signIn'[h].pc)
         /\ RequestMoved(h)
<1>1. ASSUME NEW to \in SignInPlaces, Turns(h, to), to = "idle" \/ <<signIn[h].pc, to>> \in Onward,
             signIn[h].pc = "delete" /\ to # "idle" => signIn[h].op = "second"
      PROVE  /\ signIn' \in [SignIns -> SignInRows] /\ AloneIn(h) /\ Moves(h, signIn'[h].pc)
             /\ RequestMoved(h)
  BY <1>1, TurnsMoves DEF RequestsHold, Moves, RequestMoved
<1>2. CASE ClearChallenges(h) \/ SpendRecovery(h) \/ UpdatePassword(h) \/ ForgetSecret(h)
  BY <1>1, <1>2 DEF ClearChallenges, SpendRecovery, UpdatePassword, ForgetSecret, Stands, Onward, SignInPlaces
<1>3. CASE InsertChallenge(h) \/ CountAttempt(h) \/ CreateSession(h) \/ RevokeOthers(h) \/ StorePending(h) \/ StoreSecret(h)
           \/ SignInDropped(h)
  BY <1>1, <1>3 DEF InsertChallenge, CountAttempt, CreateSession, RevokeOthers, StorePending, StoreSecret, SignInDropped,
     SignInPlaces
<1>4. CASE DeleteChallenges(h) \/ ReadUser(h)
  <2>1. \/ signIn[h].pc = "delete" /\ signIn[h].op = "second" /\ Turns(h, "user")
        \/ Turns(h, "idle")
        \/ signIn[h].pc = "user" /\ Turns(h, "session")
    BY <1>4 DEF DeleteChallenges, Stands, ReadUser
  <2>2. {"user", "idle", "session"} \subseteq SignInPlaces BY DEF SignInPlaces
  <2>3. <<"delete", "user">> \in Onward /\ <<"user", "session">> \in Onward BY DEF Onward
  <2>4. CASE signIn[h].pc = "delete" /\ signIn[h].op = "second" /\ Turns(h, "user") BY <2>2, <2>3, <2>4, <1>1
  <2>5. CASE Turns(h, "idle") BY <2>2, <2>5, <1>1
  <2>6. CASE signIn[h].pc = "user" /\ Turns(h, "session") BY <2>2, <2>3, <2>6, <1>1
  <2> QED BY <2>1, <2>4, <2>5, <2>6
<1> QED BY <1>2, <1>3, <1>4 DEF TurnsOn

\* The row a request starts with.
LEMMA FirstRow == NoSignIn \in SignInRows BY DEF NoSignIn, SignInRows, NoCode, CodeRows, SignInPlaces

LEMMA StartRows ==
  ASSUME SessionTypes, NEW h \in SignIns, Starts(h)
  PROVE  /\ signIn' \in [SignIns -> SignInRows] /\ AloneIn(h) /\ signIn[h].pc = "idle"
         /\ signIn'[h].who \in Members /\ signIn'[h].session < nextToken
         /\ signIn'[h].session \in DOMAIN session => session[signIn'[h].session].who = signIn'[h].who
         /\ signIn'[h].pc = "verify" => signIn'[h].op = "second" /\ signIn'[h].challenge \in DOMAIN tries
         /\ signIn'[h].pc = "session" => signIn'[h].op = "login" /\ signIn'[h].secret = 0
         /\ signIn'[h].pc = "enable" => signIn'[h].pending # 0
         /\ signIn'[h].pc = "disable" => signIn'[h].op = "disable"
         /\ signIn'[h].op = "login" => signIn'[h].code.kind = "wrong"
         /\ signIn'[h].pc \in {"clear", "session", "verify", "update", "pend", "enable", "disable"}
         /\ UNCHANGED <<login, challenge, session, nextToken, lastSecret, booting, verified, raced, cutOff, tries>>
<1> DEFINE Good(row) ==
      /\ row \in SignInRows
      /\ row.who \in Members /\ row.session < nextToken
      /\ row.session \in DOMAIN session => session[row.session].who = row.who
      /\ row.pc = "verify" => row.op = "second" /\ row.challenge \in DOMAIN tries
      /\ row.pc = "session" => row.op = "login" /\ row.secret = 0
      /\ row.pc = "enable" => row.pending # 0
      /\ row.pc = "disable" => row.op = "disable"
      /\ row.op = "login" => row.code.kind = "wrong"
      /\ row.pc \in {"clear", "session", "verify", "update", "pend", "enable", "disable"}
<1> DEFINE Same == UNCHANGED <<login, challenge, session, nextToken, lastSecret, booting, verified, raced, cutOff, tries>>
<1>2. /\ nextToken \in Nat \ {0} /\ DOMAIN session \subseteq 1 .. nextToken - 1
      /\ \A s \in DOMAIN session : session[s] \in SessionRows
      /\ \A c \in DOMAIN challenge : challenge[c] \in ChallengeRows /\ c \in DOMAIN tries
      /\ DOMAIN tries \subseteq Nat
      /\ \A m \in Members : login[m] \in LoginRows(lastSecret)
      /\ lastSecret \in Nat
  BY DEF SessionTypes, SessionTables
<1>3. \A m \in Members : login[m].password \in Nat /\ login[m].secret \in Nat /\ login[m].pending \in Nat
  BY <1>2 DEF LoginRows
<1>4. ASSUME NEW m \in Members, SignsIn(h, m) PROVE \E row : Good(row) /\ GoOn(h, row) /\ signIn[h].pc = "idle" /\ Same
  <2> DEFINE pc == IF login[m].secret # 0 THEN "clear" ELSE "session"
  <2> DEFINE row == [NoSignIn EXCEPT !.pc = pc, !.who = m, !.password = login[m].password, !.secret = login[m].secret]
  <2>1. row.pc = pc /\ row.who = m /\ row.secret = login[m].secret /\ row.session = 0 /\ row.op = "login"
        /\ row.code.kind = "wrong"
    BY DEF NoSignIn, NoCode
  <2>2. pc \in SignInPlaces /\ pc \in {"clear", "session"} /\ (pc = "session" => login[m].secret = 0) BY DEF SignInPlaces
  <2>3. row \in SignInRows BY <1>3, <2>2, FirstRow DEF SignInRows
  <2>4. 0 \notin DOMAIN session /\ 0 < nextToken BY <1>2
  <2>5. GoOn(h, row) /\ signIn[h].pc = "idle" /\ Same BY <1>4 DEF SignsIn, Stands, SignInTables, SignInHistory
  <2>6. Good(row) BY <2>1, <2>2, <2>3, <2>4
  <2> QED BY ZenonT(60), <2>5, <2>6
<1>5. ASSUME NEW c \in DOMAIN challenge, NEW code \in CodesFor(challenge[c].who), AnswersChallenge(h, c, code)
      PROVE  \E row : Good(row) /\ GoOn(h, row) /\ signIn[h].pc = "idle" /\ Same
  <2> DEFINE m == challenge[c].who
  <2> DEFINE row == [NoSignIn EXCEPT !.op = "second", !.pc = "verify", !.who = m, !.challenge = c,
                            !.password = challenge[c].password, !.code = code]
  <2>1. row.pc = "verify" /\ row.who = m /\ row.op = "second" /\ row.session = 0 /\ row.challenge = c
    BY DEF NoSignIn
  <2>2. m \in Members /\ challenge[c].password \in Nat /\ c \in Nat /\ c \in DOMAIN tries BY <1>2 DEF ChallengeRows
  <2>3. code \in CodeRows BY <1>3, <2>2 DEF CodesFor, NoCode, CodeRows
  <2>4. row \in SignInRows BY <2>2, <2>3, FirstRow DEF SignInPlaces, SignInRows
  <2>5. GoOn(h, row) /\ signIn[h].pc = "idle" /\ Same BY <1>5 DEF AnswersChallenge, Stands, SignInTables, SignInHistory
  <2>6. Good(row) BY <1>2, <2>1, <2>2, <2>4
  <2> QED BY <2>5, <2>6
<1>6. ASSUME NEW s \in DOMAIN session, Changes(h, s) PROVE \E row : Good(row) /\ GoOn(h, row) /\ signIn[h].pc = "idle" /\ Same
  <2> DEFINE m == session[s].who
  <2>1. PICK op \in {"password", "setup", "enable", "disable"}, pc \in {"update", "pend", "enable", "disable"} :
          Begins(h, s, op, pc) /\ (pc = "enable" => login[m].pending # 0) /\ (pc = "disable" => op = "disable")
    BY <1>6 DEF Changes, ChangePassword, Setup, Enable, Disable
  <2> DEFINE row == [NoSignIn EXCEPT !.op = op, !.pc = pc, !.who = m, !.session = s,
                            !.secret = login[m].secret, !.pending = login[m].pending]
  <2>2. row.pc = pc /\ row.op = op /\ row.who = m /\ row.session = s /\ row.pending = login[m].pending BY DEF NoSignIn
  <2>3. m \in Members /\ s \in Nat /\ s < nextToken BY <1>2 DEF SessionRows
  <2>4. row \in SignInRows BY <1>3, <2>3, FirstRow DEF SignInPlaces, SignInRows
  <2>5. GoOn(h, row) /\ signIn[h].pc = "idle" /\ Same BY <2>1 DEF Begins, Stands, SignInTables, SignInHistory
  <2>6. Good(row) BY <2>1, <2>2, <2>3, <2>4
  <2> QED BY <2>5, <2>6
<1>7. PICK row : Good(row) /\ GoOn(h, row) /\ signIn[h].pc = "idle" /\ Same BY <1>4, <1>5, <1>6 DEF Starts, Answers
<1>8. signIn \in [SignIns -> SignInRows] BY DEF SessionTypes, RequestsHold
<1>9. signIn'[h] = row /\ AloneIn(h) BY <1>7, <1>8 DEF GoOn, AloneIn
<1>10. signIn' \in [SignIns -> SignInRows] BY <1>7, <1>8 DEF GoOn
<1> QED BY <1>7, <1>9, <1>10

\* A request whose code has been looked at.
LEMMA VerifiedRows ==
  ASSUME SessionTypes, NEW h \in SignIns, VerifyAnswer(h)
  PROVE  LET q == signIn[h]
             right == CodeRight(q.who, q.code)
             spare == SpareCode(q.who, q.code) IN
         /\ signIn' \in [SignIns -> SignInRows] /\ AloneIn(h) /\ q.pc = "verify" /\ q.who \in Members
         /\ signIn'[h].pc = IF right THEN "delete" ELSE IF spare THEN "spend" ELSE "count"
         /\ signIn'[h].who = q.who /\ signIn'[h].op = q.op /\ signIn'[h].session = q.session
         /\ signIn'[h].code = q.code /\ signIn'[h].challenge = q.challenge
         /\ signIn'[h].secret = login[q.who].secret /\ signIn'[h].seen = login[q.who].spare
         /\ signIn'[h].left = login[q.who].spare \ {q.code.code}
         /\ UNCHANGED <<login, challenge, session, nextToken, lastSecret, booting, verified, raced, cutOff>>
<1> DEFINE q == signIn[h]
<1> DEFINE to == IF CodeRight(q.who, q.code) THEN "delete" ELSE IF SpareCode(q.who, q.code) THEN "spend" ELSE "count"
<1> DEFINE row == [q EXCEPT !.pc = to, !.secret = login[q.who].secret, !.seen = login[q.who].spare,
                            !.left = login[q.who].spare \ {q.code.code}]
<1>1. q \in SignInRows /\ signIn \in [SignIns -> SignInRows] BY DEF SessionTypes, RequestsHold
<1>2. q.pc = "verify" /\ UNCHANGED <<login, challenge, session, nextToken, lastSecret, booting, verified, raced, cutOff>>
  BY DEF VerifyAnswer, Stands, SignInTables
<1>3. q.who \in Members BY <1>2 DEF SessionTypes, RequestsHold, RequestHolds
<1>4. login[q.who].secret \in Nat /\ login[q.who].spare \in SUBSET RecoveryCodes
  BY <1>3 DEF SessionTypes, SessionTables, LoginRows
<1>5. to \in SignInPlaces BY DEF SignInPlaces
<1>6. signIn' = [signIn EXCEPT ![h] = row] BY DEF VerifyAnswer, CodeRight, SpareCode, GoOn
<1>7. row \in SignInRows
  <2> HIDE DEF to
  <2>1. login[q.who].spare \ {q.code.code} \in SUBSET RecoveryCodes BY <1>4
  <2> QED BY <1>1, <1>4, <1>5, <2>1 DEF SignInRows
<1>8. /\ row.pc = to /\ row.who = q.who /\ row.op = q.op /\ row.session = q.session /\ row.code = q.code
      /\ row.challenge = q.challenge /\ row.secret = login[q.who].secret /\ row.seen = login[q.who].spare
      /\ row.left = login[q.who].spare \ {q.code.code}
  <2> HIDE DEF to
  <2> QED BY <1>1 DEF SignInRows
<1> HIDE DEF row
<1>9. signIn'[h] = row /\ AloneIn(h) /\ signIn' \in [SignIns -> SignInRows] BY <1>1, <1>6, <1>7 DEF AloneIn
<1> QED BY <1>2, <1>3, <1>8, <1>9

\* Sessions keep whose they are and what was proved; a new one is the last.
SessionMoved(s) ==
  \/ /\ s \in DOMAIN session /\ session'[s].who = session[s].who /\ session'[s].factor = session[s].factor
     /\ session'[s].proof = session[s].proof /\ session'[s].late = session[s].late
  \/ /\ s = nextToken /\ \E h \in SignIns : CreateSession(h)

\* Tokens and histories grow.
TablesGrow ==
  /\ nextToken <= nextToken' /\ lastSecret <= lastSecret' /\ DOMAIN tries \subseteq DOMAIN tries'
  /\ verified \subseteq verified' /\ raced \subseteq raced' /\ cutOff \subseteq cutOff'

LEMMA TableMoves ==
  ASSUME SessionTypes, [SessionNext]_sessionVars
  PROVE  TablesGrow /\ \A s \in DOMAIN session' : SessionMoved(s)
<1>1. /\ nextToken \in Nat \ {0} /\ lastSecret \in Nat
      /\ \A s \in DOMAIN session : session[s] \in SessionRows
  BY DEF SessionTypes, SessionTables
<1>2. ASSUME UNCHANGED <<login, challenge, session, nextToken, lastSecret, booting>>, DOMAIN tries' = DOMAIN tries,
             verified \subseteq verified', raced \subseteq raced', cutOff \subseteq cutOff'
      PROVE  TablesGrow /\ \A s \in DOMAIN session' : SessionMoved(s)
  BY <1>1, <1>2 DEF TablesGrow, SessionMoved
<1>3. CASE UNCHANGED sessionVars BY <1>2, <1>3 DEF sessionVars
<1>4. ASSUME NEW h \in SignIns, Starts(h) PROVE TablesGrow /\ \A s \in DOMAIN session' : SessionMoved(s)
  BY SMTT(30), <1>2, <1>4, StartRows
<1>5. ASSUME NEW h \in SignIns, VerifyAnswer(h) PROVE TablesGrow /\ \A s \in DOMAIN session' : SessionMoved(s)
  BY <1>5, <1>2, VerifiedRows DEF VerifyAnswer
<1>6. ASSUME session' = session \/ (\E gone : session' = Without(session, gone)), TablesGrow
      PROVE  TablesGrow /\ \A s \in DOMAIN session' : SessionMoved(s)
  BY <1>6 DEF SessionMoved, Without
<1>7. ASSUME NEW h \in SignIns, TurnsOn(h) PROVE TablesGrow /\ \A s \in DOMAIN session' : SessionMoved(s)
  <2>1. CASE CreateSession(h) BY <1>1, <2>1 DEF CreateSession, TablesGrow, SignInHistory, SessionMoved
  <2>2. CASE UpdatePassword(h)
    <3>1. TablesGrow BY <1>1, <2>2 DEF UpdatePassword, TablesGrow, SignInHistory
    <3>2. DOMAIN session' = DOMAIN session
          /\ \A s \in DOMAIN session : session'[s] = session[s] \/ session'[s] = [session[s] EXCEPT !.password = lastSecret + 1]
      BY <2>2 DEF UpdatePassword
    <3>3. ASSUME NEW r \in SessionRows, NEW n PROVE LET w == [r EXCEPT !.password = n] IN
            w.who = r.who /\ w.factor = r.factor /\ w.proof = r.proof /\ w.late = r.late
      BY DEF SessionRows
    <3>4. ASSUME NEW s \in DOMAIN session' PROVE SessionMoved(s)
      <4>1. s \in DOMAIN session /\ session[s] \in SessionRows BY <1>1, <3>2
      <4>2. CASE session'[s] = session[s] BY <4>1, <4>2 DEF SessionMoved
      <4>3. CASE session'[s] = [session[s] EXCEPT !.password = lastSecret + 1] BY <3>3, <4>1, <4>3 DEF SessionMoved
      <4> QED BY <3>2, <4>1, <4>2, <4>3
    <3> QED BY <3>1, <3>4
  <2>3. CASE ClearChallenges(h) \/ CountAttempt(h) \/ DeleteChallenges(h) \/ ReadUser(h) \/ RevokeOthers(h) \/ StorePending(h)
    <3>1. TablesGrow
      BY <1>1, <2>3 DEF TablesGrow, SignInHistory, SignInTables, ClearChallenges, CountAttempt, DeleteChallenges, ReadUser,
         RevokeOthers, StorePending
    <3>2. session' = session \/ (\E gone : session' = Without(session, gone))
      BY <2>3 DEF SignInTables, ClearChallenges, CountAttempt, DeleteChallenges, ReadUser, RevokeOthers, StorePending
    <3> QED BY <1>6, <3>1, <3>2
  <2>4. CASE InsertChallenge(h) \/ SpendRecovery(h) \/ StoreSecret(h) \/ ForgetSecret(h)
    BY <1>1, <2>4, <1>6 DEF TablesGrow, InsertChallenge, SpendRecovery, StoreSecret, ForgetSecret
  <2>5. CASE SignInDropped(h) BY <2>5, UncountedTypes, <1>2 DEF SignInDropped, SessionTypes, SignInTables
  <2> QED BY <1>7, <2>1, <2>2, <2>3, <2>4, <2>5 DEF TurnsOn
<1>8. CASE BesideRequests
  <2>3. /\ UNCHANGED <<nextToken, verified, raced, cutOff, tries>>
        /\ lastSecret' \in {lastSecret, lastSecret + 1}
    <3>1. CASE \E s \in DOMAIN session : Logout(s) BY <3>1 DEF Logout, SignInHistory
    <3>2. CASE \E m \in Members : ResetsPassword(m) \/ Boot(m) BY <3>2 DEF ResetsPassword, Boot, SignInHistory
    <3>3. CASE \E m \in Members, enabled, newPassword \in BOOLEAN : AdminEdits(m, enabled, newPassword)
      BY <3>3 DEF AdminEdits, SignInHistory
    <3>4. CASE SignInExpires BY <3>4 DEF SignInExpires, SignInHistory
    <3> QED BY <1>8, <3>1, <3>2, <3>3, <3>4 DEF BesideRequests
  <2>1. TablesGrow BY <1>1, <2>3 DEF TablesGrow
  <2>2. session' = session \/ (\E gone : session' = Without(session, gone))
    BY <1>8 DEF BesideRequests, Logout, ResetsPassword, Boot, AdminEdits, SignInExpires
  <2> QED BY <1>6, <2>1, <2>2
<1>9. ASSUME NEW m \in Members, NEW changed \in BOOLEAN, Restart(m, changed)
      PROVE  TablesGrow /\ \A s \in DOMAIN session' : SessionMoved(s)
  BY <1>9, UncountedTypes, <1>1, <1>6 DEF Restart, SessionTypes, TablesGrow
<1> QED BY <1>3, <1>4, <1>5, <1>7, <1>8, <1>9, SessionSteps

LEMMA RequestsStep ==
  ASSUME SessionTypes, [SessionNext]_sessionVars
  PROVE  RequestsHold' /\ \A h \in SignIns : RequestMoved(h)
<1>1. TablesGrow /\ \A s \in DOMAIN session' : SessionMoved(s) BY TableMoves
<1>2. signIn \in [SignIns -> SignInRows] /\ nextToken \in Nat /\ nextToken' \in Nat
  BY TablesStep DEF SessionTypes, SessionTables, RequestsHold
\* what a request knows stays true while it stands
<1>3. ASSUME NEW g \in SignIns, signIn' \in [SignIns -> SignInRows],
             signIn'[g].who = signIn[g].who, signIn'[g].session = signIn[g].session,
             signIn'[g].op = signIn[g].op, signIn'[g].challenge = signIn[g].challenge, signIn'[g].pending = signIn[g].pending,
             signIn'[g].code = signIn[g].code,
             signIn'[g].pc # "idle" => signIn[g].pc # "idle",
             signIn'[g].pc = signIn[g].pc \/ <<signIn[g].pc, signIn'[g].pc>> \in Onward,
             signIn[g].pc = "delete" /\ signIn'[g].pc # "delete" => signIn[g].op = "second"
      PROVE  RequestHolds(g)'
  <2> SUFFICES ASSUME signIn'[g].pc # "idle" PROVE RequestHolds(g)' BY DEF RequestHolds
  <2>1. signIn[g].session \in Nat /\ signIn[g].session < nextToken BY <1>2, <1>3 DEF SessionTypes, RequestsHold, RequestHolds, SignInRows
  <2>2. signIn[g].session \in DOMAIN session' => session'[signIn[g].session].who = signIn[g].who
    BY <1>1, <1>2, <1>3, <2>1 DEF SessionMoved, SessionTypes, RequestsHold, RequestHolds
  <2>3. /\ signIn'[g].pc \in {"verify", "spend", "count", "user"} => signIn[g].op = "second"
        /\ signIn'[g].pc = "session" => signIn[g].op \in {"login", "second"}
        /\ signIn'[g].pc \in {"verify", "count"} => signIn[g].challenge \in DOMAIN tries
        /\ signIn'[g].pc = "enable" => signIn[g].pending # 0
        /\ signIn'[g].pc = "disable" => signIn[g].op = "disable"
        /\ signIn[g].op = "login" => signIn[g].code.kind = "wrong"
        /\ signIn[g].who \in Members
    BY <1>3 DEF SessionTypes, RequestsHold, RequestHolds, Onward
  <2> QED BY <1>1, <1>2, <1>3, <2>1, <2>2, <2>3 DEF RequestHolds, TablesGrow
<1>4. ASSUME signIn' \in [SignIns -> SignInRows], NEW h \in SignIns, AloneIn(h), RequestHolds(h)', RequestMoved(h)
      PROVE  RequestsHold' /\ \A g \in SignIns : RequestMoved(g)
  BY <1>3, <1>4 DEF AloneIn, RequestsHold, RequestMoved
<1>5. ASSUME UNCHANGED signIn PROVE RequestsHold' /\ \A g \in SignIns : RequestMoved(g)
  BY <1>2, <1>3, <1>5 DEF RequestsHold, RequestMoved
<1>6. ASSUME NEW h \in SignIns, Starts(h) PROVE RequestsHold' /\ \A g \in SignIns : RequestMoved(g)
  BY <1>6, StartRows, <1>4 DEF RequestHolds, RequestMoved
<1>7. ASSUME NEW h \in SignIns, VerifyAnswer(h) PROVE RequestsHold' /\ \A g \in SignIns : RequestMoved(g)
  <2>1. RequestHolds(h) BY DEF SessionTypes, RequestsHold
  <2>2. /\ signIn'[h].pc \in {"delete", "spend", "count"} /\ signIn'[h].who = signIn[h].who /\ signIn'[h].op = signIn[h].op
        /\ signIn'[h].session = signIn[h].session /\ signIn'[h].challenge = signIn[h].challenge
        /\ signIn'[h].code = signIn[h].code /\ signIn[h].pc = "verify" /\ UNCHANGED <<session, nextToken>>
    BY <1>7, VerifiedRows
  <2>3. RequestHolds(h)' BY <1>1, <2>1, <2>2 DEF RequestHolds, TablesGrow
  <2> QED BY <1>4, <1>7, <2>3, VerifiedRows DEF RequestMoved
<1>8. ASSUME NEW h \in SignIns, TurnsOn(h) PROVE RequestsHold' /\ \A g \in SignIns : RequestMoved(g)
  <2>1. signIn' \in [SignIns -> SignInRows] /\ AloneIn(h) /\ Moves(h, signIn'[h].pc) /\ RequestMoved(h)
    BY <1>8, TurnsOnMoves DEF SessionTypes
  <2>2. CASE signIn'[h].pc = "idle" BY <1>4, <2>1, <2>2 DEF RequestHolds
  <2>3. CASE signIn'[h].pc # "idle"
    <3>1. signIn[h].pc # "idle" /\ ~Starts(h) /\ ~VerifyAnswer(h)
      <4>1. signIn[h].pc # "idle"
        BY <1>8 DEF TurnsOn, ClearChallenges, InsertChallenge, SpendRecovery, CountAttempt, DeleteChallenges, ReadUser,
           CreateSession, UpdatePassword, RevokeOthers, StorePending, StoreSecret, ForgetSecret, SignInDropped, Stands
      <4>2. ~Starts(h) BY <4>1, StartRows
      <4>3. signIn'[h].left = signIn[h].left /\ signIn'[h].code = signIn[h].code BY SMTT(30), <2>1 DEF Moves
      <4>4. signIn[h].pc # "verify"
        <5>1. ~SignInDropped(h) BY <1>2, <2>3 DEF SignInDropped, Turns, GoOn, SignInRows
        <5> QED
          BY <1>8, <5>1 DEF TurnsOn, ClearChallenges, InsertChallenge, SpendRecovery, CountAttempt, DeleteChallenges, ReadUser,
             CreateSession, UpdatePassword, RevokeOthers, StorePending, StoreSecret, ForgetSecret, Stands
      <4> QED BY SMTT(30), <4>1, <4>2, <4>4, VerifiedRows
    <3>2. signIn'[h].pc = signIn[h].pc \/ <<signIn[h].pc, signIn'[h].pc>> \in Onward BY <2>1, <2>3, <3>1 DEF RequestMoved
    <3>3. signIn[h].pc = "delete" /\ signIn'[h].pc # "delete" => signIn[h].op = "second" BY <2>1, <2>3, <3>1 DEF RequestMoved
    <3>4. RequestHolds(h)' BY <1>3, <2>1, <3>1, <3>2, <3>3 DEF Moves
    <3> QED BY <1>4, <2>1, <3>4
  <2> QED BY <2>2, <2>3
<1>9. CASE BesideRequests
  BY <1>5, <1>9 DEF BesideRequests, Logout, ResetsPassword, Boot, AdminEdits, SignInExpires
<1>10. ASSUME NEW m \in Members, NEW changed \in BOOLEAN, Restart(m, changed)
       PROVE  RequestsHold' /\ \A h \in SignIns : RequestMoved(h)
  BY <1>10, FirstRow DEF Restart, NoSignIn, RequestsHold, RequestHolds, RequestMoved
<1>11. CASE UNCHANGED sessionVars BY <1>5, <1>11 DEF sessionVars
<1> QED BY <1>6, <1>7, <1>8, <1>9, <1>10, <1>11, SessionSteps

LEMMA SessionTypesStep == SessionTypes /\ [SessionNext]_sessionVars => SessionTypes'
BY TablesStep, RequestsStep DEF SessionTypes

-----------------------------------------------------------------------------
(*                      Secrets and what proves them                       *)

\* What a step does to a member's secrets and recovery codes.
SecretMoved(m) ==
  LET old == login[m]
      new == login'[m] IN
  \/ new.secret = old.secret /\ new.pending = old.pending /\ new.spare = old.spare
  \/ \E h \in SignIns : signIn[h].who = m /\
       \/ SpendRecovery(h) /\ new.secret = old.secret /\ new.pending = old.pending /\ new.spare = signIn[h].left
       \/ StorePending(h) /\ new.secret = old.secret /\ new.pending = lastSecret + 1 /\ lastSecret' = lastSecret + 1
                          /\ new.spare = old.spare
       \/ StoreSecret(h) /\ new.secret = old.pending /\ new.pending = 0 /\ new.spare = RecoveryCodes
       \/ ForgetSecret(h) /\ new.secret = 0 /\ new.pending = 0 /\ new.spare = {}

LEMMA SecretMoves ==
  ASSUME SessionTypes, [SessionNext]_sessionVars
  PROVE  \A m \in Members : SecretMoved(m)
<1>1. login \in [Members -> LoginRows(lastSecret)] BY DEF SessionTypes, SessionTables
<1>2. ASSUME login' = login PROVE \A m \in Members : SecretMoved(m) BY <1>2 DEF SecretMoved
<1>3. ASSUME NEW m \in Members, NEW row, SetLogin(m, row) PROVE login'[m] = row /\ \A o \in Members \ {m} : SecretMoved(o)
  BY <1>1, <1>3 DEF SetLogin, SecretMoved
<1>4. \A r \in LoginRows(lastSecret) : \A a, b, c :
        /\ LET w == [r EXCEPT !.spare = a] IN w.secret = r.secret /\ w.pending = r.pending /\ w.spare = a
        /\ LET w == [r EXCEPT !.pending = a] IN w.secret = r.secret /\ w.pending = a /\ w.spare = r.spare
        /\ LET w == [r EXCEPT !.secret = a, !.pending = b, !.spare = c] IN w.secret = a /\ w.pending = b /\ w.spare = c
        /\ LET w == [r EXCEPT !.password = a] IN w.secret = r.secret /\ w.pending = r.pending /\ w.spare = r.spare
        /\ LET w == [r EXCEPT !.password = a, !.enabled = b] IN
             w.secret = r.secret /\ w.pending = r.pending /\ w.spare = r.spare
        /\ LET w == [r EXCEPT !.enabled = b, !.password = a] IN
             w.secret = r.secret /\ w.pending = r.pending /\ w.spare = r.spare
  BY DEF LoginRows
<1>5. \A m \in Members : login[m] \in LoginRows(lastSecret) BY <1>1
<1>6. ASSUME NEW m \in Members, NEW row, SetLogin(m, row),
             row.secret = login[m].secret /\ row.pending = login[m].pending /\ row.spare = login[m].spare
      PROVE  \A o \in Members : SecretMoved(o)
  BY <1>3, <1>6 DEF SecretMoved
<1>7. ASSUME NEW h \in SignIns, SpendRecovery(h) PROVE \A o \in Members : SecretMoved(o)
  <2> DEFINE m == signIn[h].who
  <2> DEFINE row == [login[m] EXCEPT !.spare = signIn[h].left]
  <2>1. m \in Members BY <1>7 DEF SpendRecovery, Stands, SessionTypes, RequestsHold, RequestHolds
  <2>2. SetLogin(m, row) BY <1>7 DEF SpendRecovery
  <2>3. row.secret = login[m].secret /\ row.pending = login[m].pending /\ row.spare = signIn[h].left BY <1>4, <1>5, <2>1
  <2> HIDE DEF row
  <2>4. login'[m] = row /\ \A o \in Members \ {m} : SecretMoved(o) BY <1>3, <2>1, <2>2
  <2>5. SecretMoved(m) BY <1>7, <2>3, <2>4 DEF SecretMoved
  <2> QED BY <2>4, <2>5
<1>8. ASSUME NEW h \in SignIns, StorePending(h) PROVE \A o \in Members : SecretMoved(o)
  <2> DEFINE m == signIn[h].who
  <2> DEFINE row == [login[m] EXCEPT !.pending = lastSecret + 1]
  <2>1. m \in Members BY <1>8 DEF StorePending, Stands, SessionTypes, RequestsHold, RequestHolds
  <2>2. SetLogin(m, row) /\ lastSecret' = lastSecret + 1 BY <1>8 DEF StorePending
  <2>3. row.secret = login[m].secret /\ row.pending = lastSecret + 1 /\ row.spare = login[m].spare BY <1>4, <1>5, <2>1
  <2> HIDE DEF row
  <2>4. login'[m] = row /\ \A o \in Members \ {m} : SecretMoved(o) BY <1>3, <2>1, <2>2
  <2>5. SecretMoved(m) BY <1>8, <2>2, <2>3, <2>4 DEF SecretMoved
  <2> QED BY <2>4, <2>5
<1>9. ASSUME NEW h \in SignIns, StoreSecret(h) PROVE \A o \in Members : SecretMoved(o)
  <2> DEFINE m == signIn[h].who
  <2> DEFINE row == [login[m] EXCEPT !.secret = login[m].pending, !.pending = 0, !.spare = RecoveryCodes]
  <2>1. m \in Members BY <1>9 DEF StoreSecret, Stands, SessionTypes, RequestsHold, RequestHolds
  <2>2. SetLogin(m, row) BY <1>9 DEF StoreSecret
  <2>3. row.secret = login[m].pending /\ row.pending = 0 /\ row.spare = RecoveryCodes BY <1>4, <1>5, <2>1
  <2> HIDE DEF row
  <2>4. login'[m] = row /\ \A o \in Members \ {m} : SecretMoved(o) BY <1>3, <2>1, <2>2
  <2>5. SecretMoved(m) BY <1>9, <2>3, <2>4 DEF SecretMoved
  <2> QED BY <2>4, <2>5
<1>10. ASSUME NEW h \in SignIns, ForgetSecret(h) PROVE \A o \in Members : SecretMoved(o)
  <2> DEFINE m == signIn[h].who
  <2> DEFINE row == [login[m] EXCEPT !.secret = 0, !.pending = 0, !.spare = {}]
  <2>1. m \in Members BY <1>10 DEF ForgetSecret, Stands, SessionTypes, RequestsHold, RequestHolds
  <2>2. SetLogin(m, row) BY <1>10 DEF ForgetSecret
  <2>3. row.secret = 0 /\ row.pending = 0 /\ row.spare = {} BY <1>4, <1>5, <2>1
  <2> HIDE DEF row
  <2>4. login'[m] = row /\ \A o \in Members \ {m} : SecretMoved(o) BY <1>3, <2>1, <2>2
  <2>5. SecretMoved(m) BY <1>10, <2>3, <2>4 DEF SecretMoved
  <2> QED BY <2>4, <2>5
<1>11. ASSUME NEW h \in SignIns, UpdatePassword(h) PROVE \A o \in Members : SecretMoved(o)
  <2> DEFINE m == signIn[h].who
  <2>1. m \in Members BY <1>11 DEF UpdatePassword, Stands, SessionTypes, RequestsHold, RequestHolds
  <2> DEFINE row == [login[m] EXCEPT !.password = lastSecret + 1]
  <2>2. SetLogin(m, row) BY <1>11 DEF UpdatePassword
  <2>3. row.secret = login[m].secret /\ row.pending = login[m].pending /\ row.spare = login[m].spare BY <1>4, <1>5, <2>1
  <2> HIDE DEF row, m
  <2> QED BY <1>6, <2>1, <2>2, <2>3
<1>12. CASE BesideRequests
  <2>1. ASSUME NEW m \in Members, ResetsPassword(m) PROVE \A o \in Members : SecretMoved(o)
    <3> DEFINE row == [login[m] EXCEPT !.password = lastSecret + 1]
    <3>1. SetLogin(m, row) BY <2>1 DEF ResetsPassword
    <3>2. row.secret = login[m].secret /\ row.pending = login[m].pending /\ row.spare = login[m].spare BY <1>4, <1>5
    <3> HIDE DEF row
    <3> QED BY <1>6, <3>1, <3>2
  <2>2. ASSUME NEW m \in Members, NEW enabled \in BOOLEAN, NEW newPassword \in BOOLEAN, AdminEdits(m, enabled, newPassword)
        PROVE  \A o \in Members : SecretMoved(o)
    <3> DEFINE n == IF newPassword THEN lastSecret + 1 ELSE login[m].password
    <3> DEFINE row == [login[m] EXCEPT !.enabled = enabled, !.password = n]
    <3>1. SetLogin(m, row) BY <2>2 DEF AdminEdits
    <3>2. row.secret = login[m].secret /\ row.pending = login[m].pending /\ row.spare = login[m].spare BY <1>4, <1>5
    <3> HIDE DEF row
    <3> QED BY <1>6, <3>1, <3>2
  <2>3. CASE (\E s \in DOMAIN session : Logout(s)) \/ (\E m \in Members : Boot(m)) \/ SignInExpires
    BY <1>2, <2>3 DEF Logout, Boot, SignInExpires
  <2> QED BY <1>12, <2>1, <2>2, <2>3 DEF BesideRequests
<1>13. ASSUME NEW m \in Members, NEW changed \in BOOLEAN, Restart(m, changed) PROVE \A o \in Members : SecretMoved(o)
  <2>1. CASE ~changed BY <1>2, <1>13, <2>1 DEF Restart
  <2>2. CASE changed
    <3> DEFINE row == [login[m] EXCEPT !.password = lastSecret + 1, !.enabled = TRUE]
    <3>1. SetLogin(m, row) BY <1>13, <2>2 DEF Restart
    <3>2. row.secret = login[m].secret /\ row.pending = login[m].pending /\ row.spare = login[m].spare BY <1>4, <1>5
    <3> HIDE DEF row
    <3> QED BY <1>6, <3>1, <3>2
  <2> QED BY <2>1, <2>2
<1>14. CASE UNCHANGED sessionVars BY <1>2, <1>14 DEF sessionVars
<1>15. ASSUME NEW h \in SignIns, Starts(h) \/ VerifyAnswer(h) PROVE \A o \in Members : SecretMoved(o)
  BY <1>2, <1>15, StartRows, VerifiedRows
<1>16. ASSUME NEW h \in SignIns, TurnsOn(h) PROVE \A o \in Members : SecretMoved(o)
  <2>1. CASE ClearChallenges(h) \/ InsertChallenge(h) \/ CountAttempt(h) \/ DeleteChallenges(h) \/ ReadUser(h)
             \/ CreateSession(h) \/ RevokeOthers(h) \/ SignInDropped(h)
    BY <1>2, <2>1 DEF ClearChallenges, InsertChallenge, CountAttempt, DeleteChallenges, ReadUser, CreateSession,
       RevokeOthers, SignInDropped, SignInTables
  <2> QED BY <1>7, <1>8, <1>9, <1>10, <1>11, <1>16, <2>1 DEF TurnsOn
<1> QED BY <1>12, <1>13, <1>14, <1>15, <1>16, SessionSteps

\* A request whose code has been found right, and not used up by a session.
Proving(h) == signIn[h].op = "second" /\ signIn[h].pc \in {"spend", "delete", "user", "session"}

ProofsHold ==
  /\ SecondFactorProved
  /\ \A h \in SignIns : Proving(h) => signIn[h].code.kind # "wrong" /\ signIn[h].code.of = signIn[h].secret
  /\ \A h \in SignIns : signIn[h].pc = "session" /\ signIn[h].op = "login" => signIn[h].secret = 0

LEMMA ProofsStep ==
  ASSUME SessionTypes, ProofsHold, [SessionNext]_sessionVars
  PROVE  ProofsHold'
<1>1. \A h \in SignIns : RequestMoved(h) /\ RequestHolds(h) BY RequestsStep DEF SessionTypes, RequestsHold
<1>2. \A s \in DOMAIN session' : SessionMoved(s) BY TableMoves
<1>3. ASSUME NEW h \in SignIns
      PROVE  /\ Proving(h)' => signIn'[h].code.kind # "wrong" /\ signIn'[h].code.of = signIn'[h].secret
             /\ signIn'[h].pc = "session" /\ signIn'[h].op = "login" => signIn'[h].secret = 0
  <2>1. CASE signIn'[h] = signIn[h] BY <2>1 DEF ProofsHold, Proving
  <2>2. CASE signIn'[h].pc = "idle" BY <2>2 DEF Proving
  <2>3. CASE Starts(h) BY <2>3, StartRows DEF Proving
  <2>4. CASE VerifyAnswer(h) BY <2>4, VerifiedRows DEF Proving, CodeRight, SpareCode
  <2>5. CASE /\ Moves(h, signIn'[h].pc) /\ <<signIn[h].pc, signIn'[h].pc>> \in Onward
             /\ signIn[h].pc = "delete" => signIn[h].op = "second"
    BY <1>1, <2>5 DEF Moves, Onward, Proving, RequestHolds, ProofsHold
  <2> QED BY <1>1, <2>1, <2>2, <2>3, <2>4, <2>5 DEF RequestMoved
<1>4. ASSUME NEW h \in SignIns, CreateSession(h), session'[nextToken].factor # 0
      PROVE  session'[nextToken].proof.kind # "wrong" /\ session'[nextToken].proof.of = session'[nextToken].factor
  BY <1>4, <1>1 DEF CreateSession, Stands, ProofsHold, Proving, RequestHolds
<1>5. SecondFactorProved' BY <1>2, <1>4 DEF SecondFactorProved, SessionMoved, ProofsHold
<1> QED BY <1>3, <1>5 DEF ProofsHold

LEMMA ConfirmedStep ==
  ASSUME SessionTypes, SecretWasConfirmed, [SessionNext]_sessionVars
  PROVE  SecretWasConfirmed'
<1>1. TablesGrow /\ \A m \in Members : SecretMoved(m) BY TableMoves, SecretMoves
<1>2. \A h \in SignIns : StoreSecret(h) => signIn[h].pending \in verified'
                         /\ (login[signIn[h].who].pending = signIn[h].pending \/ signIn[h].who \in raced')
  BY DEF StoreSecret
<1> QED BY <1>1, <1>2 DEF SecretWasConfirmed, TablesGrow, SecretMoved

LEMMA FactorStep ==
  ASSUME SessionTypes, [SessionNext]_sessionVars, NEW m \in Members, login[m].secret # 0, login'[m].secret = 0
  PROVE  m \in raced' \/ \E h \in SignIns : signIn[h].pc = "disable" /\ signIn[h].who = m
<1>1. SecretMoved(m) BY SecretMoves
<1>2. \A h \in SignIns : StoreSecret(h) /\ login[signIn[h].who].pending = 0 => signIn[h].who \in raced'
  BY DEF StoreSecret, Stands, SessionTypes, RequestsHold, RequestHolds
<1>3. \A h \in SignIns : ForgetSecret(h) => signIn[h].pc = "disable" BY DEF ForgetSecret, Stands
<1> QED BY <1>1, <1>2, <1>3 DEF SecretMoved

-----------------------------------------------------------------------------
(*                        Recovery codes, used once                        *)

\* What presents a recovery code of a member's: sessions, and requests whose
\* code was found right.
Presented(m) ==
  ({"session"} \X {s \in DOMAIN session : session[s].who = m /\ session[s].proof.kind = "recovery"})
  \cup ({"request"} \X {h \in SignIns : Proving(h) /\ signIn[h].who = m /\ signIn[h].code.kind = "recovery"})
CodeOf(k) == IF k[1] = "session" THEN session[k[2]].proof ELSE signIn[k[2]].code

\* Of these, what has written back the codes that are left.
Spent(m) == {k \in Presented(m) : k[1] = "request" => signIn[k[2]].pc # "spend"}

SecretsOf(m) == {login[m].secret, login[m].pending} \cup {CodeOf(k).of : k \in Presented(m)}

\* A secret is one member's, and one that waits has not been used.
SecretsApart ==
  /\ \A m, o \in Members : m # o => SecretsOf(m) \cap SecretsOf(o) \subseteq {0}
  /\ \A m \in Members : \A n \in SecretsOf(m) : n <= lastSecret
  /\ \A m \in Members : login[m].pending # 0 =>
       login[m].pending # login[m].secret /\ \A k \in Presented(m) : CodeOf(k).of # login[m].pending
  /\ \A m \in Members : \A k \in Presented(m) : CodeOf(k).of # 0

\* A request about to write back the codes that are left has read its own among
\* them.
SpendsRead ==
  \A h \in SignIns : signIn[h].pc = "spend" =>
    /\ signIn[h].code.kind = "recovery" /\ signIn[h].code.code \in signIn[h].seen
    /\ signIn[h].left = signIn[h].seen \ {signIn[h].code.code}

\* A code that was written off is not there any more, and no two have used it.
CodesOnce ==
  \A m \in Members \ raced :
    /\ \A k \in Spent(m) : CodeOf(k).of = login[m].secret => CodeOf(k).code \notin login[m].spare
    /\ \A k, l \in Spent(m) : k # l => CodeOf(k) # CodeOf(l)

\* What is presented after a step was so before, but for a code just found right
\* and a request that becomes a session.
Becomes(h, k) == CreateSession(h) /\ k = <<"session", nextToken>> /\ CodeOf(k)' = signIn[h].code
Found(h, k) ==
  VerifyAnswer(h) /\ SpareCode(signIn[h].who, signIn[h].code) /\ k = <<"request", h>> /\ CodeOf(k)' = signIn[h].code

LEMMA Presents ==
  ASSUME SessionTypes, NEW m \in Members, NEW k
  PROVE  /\ k \in Presented(m) <=>
              \/ \E s \in DOMAIN session : k = <<"session", s>> /\ session[s].who = m /\ session[s].proof.kind = "recovery"
              \/ \E h \in SignIns : k = <<"request", h>> /\ Proving(h) /\ signIn[h].who = m /\ signIn[h].code.kind = "recovery"
         /\ \A s : CodeOf(<<"session", s>>) = session[s].proof
         /\ \A h : CodeOf(<<"request", h>>) = signIn[h].code
BY DEF Presented, CodeOf

LEMMA PresentedMoves ==
  ASSUME SessionTypes, [SessionNext]_sessionVars, NEW m \in Members, NEW k \in Presented(m)'
  PROVE  \/ k \in Presented(m) /\ CodeOf(k)' = CodeOf(k)
         \/ \E h \in SignIns : signIn[h].who = m /\ Found(h, k)
         \/ \E h \in SignIns : <<"request", h>> \in Spent(m) /\ Becomes(h, k)
<1>1. \A h \in SignIns : RequestMoved(h) /\ RequestHolds(h) BY RequestsStep DEF SessionTypes, RequestsHold
<1>2. \A s \in DOMAIN session' : SessionMoved(s) BY TableMoves
<1>3. SessionTypes' BY SessionTypesStep
<1>4. CASE \E s \in DOMAIN session' : k = <<"session", s>> /\ session'[s].who = m /\ session'[s].proof.kind = "recovery"
  <2>1. PICK s \in DOMAIN session' : k = <<"session", s>> /\ session'[s].who = m /\ session'[s].proof.kind = "recovery" BY <1>4
  <2>2. CodeOf(k)' = session'[s].proof BY <2>1 DEF CodeOf
  <2>3. CASE s \in DOMAIN session /\ session'[s].who = session[s].who /\ session'[s].proof = session[s].proof
    BY <2>1, <2>3, Presents, <2>2 DEF CodeOf
  <2>4. ASSUME s = nextToken, NEW h \in SignIns, CreateSession(h)
        PROVE  <<"request", h>> \in Spent(m) /\ Becomes(h, k)
    BY <2>4, <1>1, <2>1, Presents, <2>2 DEF CreateSession, Stands, RequestHolds, Proving, Becomes, Spent
  <2> QED BY <1>2, <2>1, <2>3, <2>4 DEF SessionMoved
<1>5. CASE \E h \in SignIns : k = <<"request", h>> /\ Proving(h)' /\ signIn'[h].who = m /\ signIn'[h].code.kind = "recovery"
  <2>1. PICK h \in SignIns : k = <<"request", h>> /\ Proving(h)' /\ signIn'[h].who = m /\ signIn'[h].code.kind = "recovery" BY <1>5
  <2>2. CodeOf(k)' = signIn'[h].code /\ CodeOf(k) = signIn[h].code BY <2>1 DEF CodeOf
  <2>3. ASSUME Proving(h), signIn'[h].who = signIn[h].who, signIn'[h].code = signIn[h].code
        PROVE  k \in Presented(m) /\ CodeOf(k)' = CodeOf(k)
    BY <2>1, <2>2, <2>3, Presents
  <2>4. CASE signIn'[h] = signIn[h] BY <2>1, <2>3, <2>4 DEF Proving
  <2>5. CASE signIn'[h].pc = "idle" BY <2>1, <2>5 DEF Proving
  <2>6. CASE Starts(h) BY <2>1, <2>6, StartRows DEF Proving
  <2>7. CASE VerifyAnswer(h)
    <3>1. signIn'[h].code = signIn[h].code /\ signIn'[h].who = signIn[h].who BY <2>7, VerifiedRows
    <3>2. ~CodeRight(m, signIn[h].code) BY <2>1, <3>1 DEF CodeRight
    <3>3. SpareCode(m, signIn[h].code) BY <2>1, <2>7, <3>1, <3>2, VerifiedRows DEF Proving
    <3> QED BY <2>1, <2>2, <2>7, <3>1, <3>3 DEF Found
  <2>8. CASE /\ Moves(h, signIn'[h].pc) /\ <<signIn[h].pc, signIn'[h].pc>> \in Onward
             /\ signIn[h].pc = "delete" => signIn[h].op = "second"
    BY <1>1, <2>1, <2>8, <2>3 DEF Moves, Onward, Proving, RequestHolds
  <2> QED BY <1>1, <2>4, <2>5, <2>6, <2>7, <2>8 DEF RequestMoved
<1> QED BY <1>3, <1>4, <1>5 DEF Presented

LEMMA PresentedTypes ==
  ASSUME SessionTypes, NEW m \in Members
  PROVE  /\ lastSecret \in Nat /\ login[m].secret \in Nat /\ login[m].pending \in Nat
         /\ login[m].secret <= lastSecret /\ login[m].pending <= lastSecret
         /\ \A k \in Presented(m) : CodeOf(k) \in CodeRows
<1>1. /\ lastSecret \in Nat /\ login[m] \in LoginRows(lastSecret)
      /\ \A s \in DOMAIN session : session[s] \in SessionRows
      /\ \A h \in SignIns : signIn[h] \in SignInRows
  BY DEF SessionTypes, SessionTables, RequestsHold
<1>2. \A k \in Presented(m) : CodeOf(k) \in CodeRows
  <2>1. \A s \in DOMAIN session : session[s].proof \in CodeRows BY <1>1 DEF SessionRows
  <2>2. \A h \in SignIns : signIn[h].code \in CodeRows BY <1>1 DEF SignInRows
  <2> SUFFICES ASSUME NEW k \in Presented(m) PROVE CodeOf(k) \in CodeRows OBVIOUS
  <2>3. CASE \E s \in DOMAIN session : k = <<"session", s>> BY <2>1, <2>3, Presents
  <2>4. CASE \E h \in SignIns : k = <<"request", h>> BY <2>2, <2>4, Presents
  <2> QED BY <2>3, <2>4, Presents
<1> QED BY <1>1, <1>2 DEF LoginRows

\* What a member is known to have had before a step.
LEMMA SecretsStay ==
  ASSUME SessionTypes, SecretsApart, [SessionNext]_sessionVars, NEW m \in Members
  PROVE  /\ \A n \in SecretsOf(m)' \ {0} : n \in SecretsOf(m)
              \/ (n = lastSecret + 1 /\ lastSecret' = lastSecret + 1 /\ n = login'[m].pending
                  /\ \E h \in SignIns : StorePending(h) /\ signIn[h].who = m)
         /\ \A k \in Presented(m)' : CodeOf(k)'.of # 0 /\ CodeOf(k)'.of \in SecretsOf(m)
              /\ (login[m].pending # 0 => CodeOf(k)'.of # login[m].pending)
<1>1. SecretMoved(m) BY SecretMoves
<1>2. ASSUME NEW k \in Presented(m)'
      PROVE  CodeOf(k)'.of # 0 /\ CodeOf(k)'.of \in SecretsOf(m)
             /\ (login[m].pending # 0 => CodeOf(k)'.of # login[m].pending)
  <2>1. CASE k \in Presented(m) /\ CodeOf(k)' = CodeOf(k) BY <2>1 DEF SecretsApart, SecretsOf
  <2>2. ASSUME NEW h \in SignIns, signIn[h].who = m, Found(h, k) PROVE CodeOf(k)'.of = login[m].secret /\ login[m].secret # 0
    BY <2>2 DEF Found, SpareCode
  <2>3. ASSUME NEW h \in SignIns, <<"request", h>> \in Spent(m), Becomes(h, k)
        PROVE  CodeOf(k)'.of # 0 /\ CodeOf(k)'.of \in SecretsOf(m)
             /\ (login[m].pending # 0 => CodeOf(k)'.of # login[m].pending)
    BY <2>3 DEF Becomes, CodeOf, Spent, SecretsApart, SecretsOf
  <2>4. CASE \E h \in SignIns : signIn[h].who = m /\ Found(h, k) BY <2>2, <2>4 DEF SecretsApart, SecretsOf
  <2> QED BY <2>1, <2>3, <2>4, PresentedMoves
<1>3. ASSUME NEW n \in SecretsOf(m)' \ {0}
      PROVE  n \in SecretsOf(m)
              \/ (n = lastSecret + 1 /\ lastSecret' = lastSecret + 1 /\ n = login'[m].pending
                  /\ \E h \in SignIns : StorePending(h) /\ signIn[h].who = m)
  BY <1>3, <1>1, <1>2 DEF SecretsOf, SecretMoved
<1> QED BY <1>2, <1>3

LEMMA ApartStep ==
  ASSUME SessionTypes, SecretsApart, [SessionNext]_sessionVars
  PROVE  SecretsApart'
<1>1. SessionTypes' BY SessionTypesStep
<1>2. TablesGrow BY TableMoves
<1>3. ASSUME NEW m \in Members, NEW n \in SecretsOf(m) PROVE n \in Nat /\ n <= lastSecret
  BY <1>3, PresentedTypes DEF SecretsApart, SecretsOf, CodeRows
<1>4. lastSecret \in Nat /\ lastSecret' \in Nat BY <1>1 DEF SessionTypes, SessionTables
<1>5. ASSUME NEW m \in Members, NEW o \in Members, m # o PROVE SecretsOf(m)' \cap SecretsOf(o)' \subseteq {0}
  <2> SUFFICES ASSUME NEW n \in SecretsOf(m)' \ {0}, n \in SecretsOf(o)' \ {0} PROVE FALSE OBVIOUS
  <2>1. CASE n \in SecretsOf(m) /\ n \in SecretsOf(o) BY <1>5, <2>1 DEF SecretsApart
  <2>2. ASSUME NEW p \in Members, NEW r \in Members, p # r, n \in SecretsOf(p), n \in SecretsOf(r)', n \notin SecretsOf(r) PROVE FALSE
    BY <2>2, SecretsStay, <1>3, <1>4
  <2>3. ASSUME NEW h \in SignIns, NEW g \in SignIns, StorePending(h), signIn[h].who = m, StorePending(g), signIn[g].who = o PROVE FALSE
    <3>1. RequestsHold BY DEF SessionTypes
    <3>2. AloneIn(h) /\ signIn'[g].pc = "idle" /\ signIn[g].pc = "pend"
      BY <2>3, <3>1, TurnsMoves, TurnsOnMoves DEF TurnsOn, StorePending, Stands, SignInPlaces, RequestsHold, Moves
    <3>3. g = h BY <3>2 DEF AloneIn
    <3> QED BY <1>5, <2>3, <3>3
  <2> QED BY <1>5, <2>1, <2>2, <2>3, SecretsStay
<1>6. ASSUME NEW m \in Members, NEW n \in SecretsOf(m)' PROVE n <= lastSecret'
  BY <1>4, <1>2, <1>3, <1>6, SecretsStay DEF TablesGrow
<1>7. ASSUME NEW m \in Members, login'[m].pending # 0
      PROVE  login'[m].pending # login'[m].secret /\ \A k \in Presented(m)' : CodeOf(k)'.of # login'[m].pending
  <2>1. SecretMoved(m) BY SecretMoves
  <2>2. CASE login'[m].pending = login[m].pending /\ login'[m].secret = login[m].secret
    BY <1>7, <2>2, SecretsStay DEF SecretsApart
  <2>3. CASE login'[m].pending = lastSecret + 1 /\ login'[m].secret = login[m].secret
    <3>1. login[m].secret \in SecretsOf(m) BY DEF SecretsOf
    <3> QED BY <1>3, <1>4, <2>3, <3>1, SecretsStay
  <2> QED BY <1>7, <2>1, <2>2, <2>3 DEF SecretMoved
<1>8. \A m \in Members : \A k \in Presented(m)' : CodeOf(k)'.of # 0 BY SecretsStay
<1> QED BY <1>5, <1>6, <1>7, <1>8 DEF SecretsApart

LEMMA SpendsStep ==
  ASSUME SessionTypes, SpendsRead, [SessionNext]_sessionVars
  PROVE  SpendsRead'
BY RequestsStep, StartRows, VerifiedRows DEF SpendsRead, SpareCode, Onward, RequestMoved

LEMMA OnceStep ==
  ASSUME SessionTypes, ProofsHold, SecretsApart, SpendsRead, CodesOnce, [SessionNext]_sessionVars
  PROVE  CodesOnce'
<1> SUFFICES ASSUME NEW m \in Members \ raced'
             PROVE  /\ \A k \in Spent(m)' : CodeOf(k)'.of = login'[m].secret => CodeOf(k)'.code \notin login'[m].spare
                    /\ \A k, l \in Spent(m)' : k # l => CodeOf(k)' # CodeOf(l)'
  BY DEF CodesOnce
<1>1. m \in Members /\ m \notin raced BY TableMoves DEF TablesGrow
<1>2. \A h \in SignIns : RequestMoved(h) /\ RequestHolds(h) BY RequestsStep DEF SessionTypes, RequestsHold
<1>3. SecretMoved(m) BY <1>1, SecretMoves
\* every one was written off before, is written off now, or was a request
<1>4. ASSUME NEW k \in Spent(m)'
      PROVE  \/ k \in Spent(m) /\ CodeOf(k)' = CodeOf(k)
             \/ \E h \in SignIns : SpendRecovery(h) /\ signIn[h].who = m /\ k = <<"request", h>> /\ CodeOf(k)' = signIn[h].code
             \/ \E h \in SignIns : <<"request", h>> \in Spent(m) /\ Becomes(h, k)
  <2>1. k \in Presented(m)' /\ (k[1] = "request" => signIn'[k[2]].pc # "spend") BY <1>4 DEF Spent
  <2>2. CASE k \in Presented(m) /\ CodeOf(k)' = CodeOf(k) /\ k \notin Spent(m)
    <3>1. PICK h \in SignIns : k = <<"request", h>> /\ signIn[h].pc = "spend" /\ signIn[h].who = m /\ signIn'[h].pc # "spend"
      BY <1>1, <2>1, <2>2, Presents DEF Spent
    <3>2. CodeOf(k)' = signIn[h].code BY <2>2, <3>1 DEF CodeOf
    <3>3. SpendRecovery(h)
      <4>1. Proving(h)' BY <1>1, <2>1, <3>1 DEF Presented
      <4>2. signIn'[h].pc \notin {"idle", "spend"} BY <3>1, <4>1 DEF Proving
      <4>3. signIn[h].pc = "spend" /\ RequestsHold BY <3>1 DEF SessionTypes
      <4>4. ASSUME NEW g \in SignIns, signIn'[g] # signIn[g], AloneIn(h) PROVE g = h BY <4>4 DEF AloneIn
      <4>5. ASSUME NEW g \in SignIns, AloneIn(g) PROVE g = h BY <3>1, <4>5 DEF AloneIn
      <4>6. ASSUME NEW g \in SignIns, Starts(g) \/ VerifyAnswer(g) PROVE FALSE
        BY SMTT(30), <4>3, <4>5, <4>6, StartRows, VerifiedRows
      <4>7. ASSUME NEW g \in SignIns, TurnsOn(g) PROVE SpendRecovery(h)
        <5>1. g = h BY <4>3, <4>5, <4>7, TurnsOnMoves
        <5>2. ~SignInDropped(h) BY <4>3, TurnsMoves, <4>2 DEF SignInPlaces, SignInDropped, RequestsHold, Moves
        <5> QED
          BY <4>3, <4>7, <5>1, <5>2 DEF TurnsOn, ClearChallenges, InsertChallenge, CountAttempt, DeleteChallenges, ReadUser,
             CreateSession, UpdatePassword, RevokeOthers, StorePending, StoreSecret, ForgetSecret, Stands
      <4>8. signIn' # signIn BY <3>1
      <4>12. BesideRequests => signIn' = signIn
        BY DEF BesideRequests, Logout, ResetsPassword, Boot, AdminEdits, SignInExpires
      <4>9. ~BesideRequests BY <4>8, <4>12
      <4>10. ASSUME NEW o \in Members, NEW changed \in BOOLEAN, Restart(o, changed) PROVE FALSE
        BY <4>10, <4>2 DEF Restart, NoSignIn
      <4>11. ~UNCHANGED sessionVars BY <4>8 DEF sessionVars
      <4> QED BY <4>6, <4>7, <4>9, <4>10, <4>11, SessionSteps
    <3> QED BY <3>1, <3>2, <3>3
  <2>3. ASSUME NEW h \in SignIns, Found(h, k) PROVE FALSE
    <3>1. signIn'[h].pc = "spend" BY <2>3, VerifiedRows DEF Found, CodeRight, SpareCode
    <3> QED BY <2>1, <2>3, <3>1 DEF Found
  <2> QED BY <1>1, <2>1, <2>2, <2>3, PresentedMoves
<1>5. ASSUME NEW h \in SignIns, SpendRecovery(h), signIn[h].who = m
      PROVE  /\ login'[m].spare = login[m].spare \ {signIn[h].code.code} /\ login'[m].secret = login[m].secret
             /\ signIn[h].code.of = login[m].secret /\ signIn[h].code.code \in login[m].spare
             /\ AloneIn(h) /\ \A g \in SignIns : ~CreateSession(g)
  <2>1. signIn[h].pc = "spend" /\ login[m].spare = signIn[h].seen /\ login[m].secret = signIn[h].secret
    BY <1>1, <1>5 DEF SpendRecovery, Stands
  <2>2. signIn[h].op = "second" BY <1>2, <2>1 DEF RequestHolds
  <2>3. signIn[h].code.of = login[m].secret BY <2>1, <2>2 DEF ProofsHold, Proving
  <2>4. signIn[h].code.code \in login[m].spare /\ signIn[h].left = login[m].spare \ {signIn[h].code.code}
    BY <2>1 DEF SpendsRead
  <2>5. login'[m].spare = signIn[h].left /\ login'[m].secret = login[m].secret
    BY <1>5, <1>1 DEF SpendRecovery, SessionTypes, SessionTables, SetLogin, LoginRows
  <2>6. AloneIn(h) /\ \A g \in SignIns : ~CreateSession(g)
    <3>1. TurnsOn(h) /\ nextToken' = nextToken BY <1>5 DEF TurnsOn, SpendRecovery
    <3>2. \A g \in SignIns : ~CreateSession(g) BY <3>1 DEF CreateSession, SessionTypes, SessionTables
    <3> QED BY <3>1, <3>2, TurnsOnMoves DEF SessionTypes
  <2> QED BY <2>3, <2>4, <2>5, <2>6
\* codes that were written off and those a request had are still apart
<1>6. ASSUME ~\E h \in SignIns : SpendRecovery(h) /\ signIn[h].who = m
      PROVE  \A k, l \in Spent(m)' : k # l => CodeOf(k)' # CodeOf(l)'
  <2>1. ASSUME NEW h \in SignIns, NEW k, <<"request", h>> \in Spent(m), Becomes(h, k)
        PROVE  CodeOf(k)' = CodeOf(<<"request", h>>) /\ <<"request", h>> \notin Spent(m)' /\ k = <<"session", nextToken>>
               /\ \A g \in SignIns : \A l : Becomes(g, l) => g = h
    <3>1. CodeOf(k)' = CodeOf(<<"request", h>>) /\ k = <<"session", nextToken>> /\ CreateSession(h) BY <2>1 DEF Becomes, CodeOf
    <3>2. "idle" \in SignInPlaces /\ signIn \in [SignIns -> SignInRows] BY DEF SignInPlaces, SessionTypes, RequestsHold
    <3>3. Turns(h, "idle") /\ signIn[h].pc = "session" BY <3>1 DEF CreateSession, Stands
    <3>4. Moves(h, "idle") /\ AloneIn(h) BY <3>2, <3>3, TurnsMoves
    <3>5. <<"request", h>> \notin Spent(m)' BY <3>4 DEF Moves, Spent, Presented, Proving
    <3>6. \A g \in SignIns : CreateSession(g) => g = h
      <4>1. ASSUME NEW g \in SignIns, CreateSession(g) PROVE g = h
        BY <4>1, <3>2, TurnsMoves, <3>4 DEF CreateSession, Stands, AloneIn, Moves
      <4> QED BY <4>1
    <3> QED BY <3>1, <3>5, <3>6 DEF Becomes
  <2>2. ASSUME NEW k \in Spent(m)', NEW l \in Spent(m)', k # l PROVE CodeOf(k)' # CodeOf(l)'
    <3>1. CASE k \in Spent(m) /\ CodeOf(k)' = CodeOf(k) /\ l \in Spent(m) /\ CodeOf(l)' = CodeOf(l)
      BY <1>1, <2>2, <3>1 DEF CodesOnce
    <3>2. ASSUME NEW h \in SignIns, <<"request", h>> \in Spent(m), NEW i \in Spent(m)', Becomes(h, i),
                 NEW j \in Spent(m)', j # i
          PROVE  CodeOf(i)' # CodeOf(j)'
      <4>1. CodeOf(i)' = CodeOf(<<"request", h>>) /\ <<"request", h>> \notin Spent(m)' /\ i = <<"session", nextToken>>
            /\ \A g \in SignIns : \A a : Becomes(g, a) => g = h
        BY <2>1, <3>2
      <4>2. j \in Spent(m) /\ CodeOf(j)' = CodeOf(j) BY <4>1, <1>4, <1>6, <3>2 DEF Becomes
      <4>3. j # <<"request", h>> BY <3>2, <4>1
      <4> QED BY <1>1, <3>2, <4>1, <4>2, <4>3 DEF CodesOnce
    <3> QED BY <1>4, <1>6, <2>2, <3>1, <3>2
  <2> QED BY <2>2
<1>7. CASE \E h \in SignIns : SpendRecovery(h) /\ signIn[h].who = m
  <2>1. PICK h \in SignIns : SpendRecovery(h) /\ signIn[h].who = m BY <1>7
  <2>2. /\ login'[m].spare = login[m].spare \ {signIn[h].code.code} /\ login'[m].secret = login[m].secret
        /\ signIn[h].code.of = login[m].secret /\ signIn[h].code.code \in login[m].spare
        /\ AloneIn(h) /\ \A g \in SignIns : ~CreateSession(g)
    BY <1>5, <2>1
  <2>3. \A g \in SignIns : SpendRecovery(g) => g = h
    <3>1. ASSUME NEW g \in SignIns, SpendRecovery(g) PROVE g = h
      <4>1. "delete" \in SignInPlaces /\ signIn \in [SignIns -> SignInRows] BY DEF SignInPlaces, SessionTypes, RequestsHold
      <4>2. Turns(g, "delete") /\ signIn[g].pc = "spend" BY <3>1 DEF SpendRecovery, Stands
      <4>3. Moves(g, "delete") BY <4>1, <4>2, TurnsMoves
      <4> QED BY <2>2, <4>2, <4>3 DEF AloneIn, Moves
    <3> QED BY <3>1
  <2>4. \A k \in Spent(m)' : (k \in Spent(m) /\ CodeOf(k)' = CodeOf(k)) \/ (k = <<"request", h>> /\ CodeOf(k)' = signIn[h].code)
    BY <1>4, <2>2, <2>3 DEF Becomes
  <2>5. \A k \in Spent(m) : CodeOf(k).of = login[m].secret => CodeOf(k).code \notin login[m].spare BY <1>1 DEF CodesOnce
  <2>6. \A k, l \in Spent(m) : k # l => CodeOf(k) # CodeOf(l) BY <1>1 DEF CodesOnce
  <2> QED BY <2>2, <2>4, <2>5, <2>6
<1>8. CASE ~\E h \in SignIns : SpendRecovery(h) /\ signIn[h].who = m
  <2>1. ASSUME NEW k \in Spent(m)' PROVE \E j \in Spent(m) : CodeOf(j) = CodeOf(k)' BY <1>4, <1>8, <2>1 DEF Becomes, CodeOf
  <2>2. ASSUME NEW k \in Spent(m)', CodeOf(k)'.of = login'[m].secret PROVE CodeOf(k)'.code \notin login'[m].spare
    BY <2>1, <2>2, <1>1, <1>3, <1>8 DEF Spent, CodesOnce, SecretsApart, SecretMoved
  <2> QED BY <1>6, <1>8, <2>2
<1> QED BY <1>7, <1>8

LEMMA OnceMeans ==
  ASSUME SessionTypes, SecretsApart, CodesOnce
  PROVE  RecoveryOnce
<1> SUFFICES ASSUME NEW s \in DOMAIN session, NEW t \in DOMAIN session,
                    s # t, session[s].proof.kind = "recovery", session[s].proof = session[t].proof,
                    session[s].who \notin raced
             PROVE  FALSE
  BY DEF RecoveryOnce
<1> DEFINE m == session[s].who
<1> DEFINE o == session[t].who
<1> DEFINE k == <<"session", s>>
<1> DEFINE l == <<"session", t>>
<1>1. m \in Members /\ o \in Members BY DEF SessionTypes, SessionTables, SessionRows
<1>2. k \in Presented(m) /\ l \in Presented(o) /\ CodeOf(k) = session[s].proof /\ CodeOf(l) = session[s].proof
  BY <1>1, Presents
<1>3. k \in Spent(m) /\ l \in Spent(o) BY <1>2 DEF Spent
<1>4. CodeOf(k).of \in SecretsOf(m) /\ CodeOf(l).of \in SecretsOf(o) /\ CodeOf(k).of # 0 BY <1>1, <1>2 DEF SecretsOf, SecretsApart
<1> HIDE DEF m, o
<1>5. m = o BY <1>1, <1>2, <1>4 DEF SecretsApart
<1>6. k # l OBVIOUS
<1>7. m \notin raced BY DEF m
<1> QED BY <1>1, <1>2, <1>3, <1>5, <1>6, <1>7 DEF CodesOnce

-----------------------------------------------------------------------------
(*                          Sessions and passwords                         *)

\* A session that stands with another password ends yet, and not by a request
\* that came with it.
Covered(s) ==
  LET m == session[s].who IN
  \/ session[s].password = login[m].password \/ session[s].late \/ m \in cutOff \cup booting
  \/ \E h \in SignIns : signIn[h].pc = "revoke" /\ signIn[h].who = m /\ signIn[h].session # s
PasswordFollows == \A s \in DOMAIN session : Covered(s)

\* Only these change a password.
LEMMA PasswordMoves ==
  ASSUME SessionTypes, [SessionNext]_sessionVars, NEW m \in Members
  PROVE  \/ login'[m].password = login[m].password
         \/ \E h \in SignIns : UpdatePassword(h) /\ signIn[h].who = m
         \/ ResetsPassword(m) \/ (\E enabled \in BOOLEAN : AdminEdits(m, enabled, TRUE)) \/ Restart(m, TRUE)
<1>1. login \in [Members -> LoginRows(lastSecret)] BY DEF SessionTypes, SessionTables
<1>2. ASSUME NEW o \in Members, NEW row, SetLogin(o, row), o # m \/ row.password = login[m].password
      PROVE  login'[m].password = login[m].password
  BY <1>1, <1>2 DEF SetLogin
<1>3. login[m] \in LoginRows(lastSecret) BY <1>1
<1>4. \A r \in LoginRows(lastSecret) : \A a, b, c :
        /\ [r EXCEPT !.spare = a].password = r.password /\ [r EXCEPT !.pending = a].password = r.password
        /\ [r EXCEPT !.secret = a, !.pending = b, !.spare = c].password = r.password
        /\ [r EXCEPT !.enabled = a, !.password = r.password].password = r.password
  BY DEF LoginRows
<1>5. ASSUME NEW h \in SignIns, SpendRecovery(h) \/ StorePending(h) \/ StoreSecret(h) \/ ForgetSecret(h)
      PROVE  login'[m].password = login[m].password
  <2> DEFINE o == signIn[h].who
  <2>1. o \in Members
    BY <1>5 DEF SpendRecovery, StorePending, StoreSecret, ForgetSecret, Stands, SessionTypes, RequestsHold, RequestHolds
  <2>2. \/ SetLogin(o, [login[o] EXCEPT !.spare = signIn[h].left])
        \/ SetLogin(o, [login[o] EXCEPT !.pending = lastSecret + 1])
        \/ SetLogin(o, [login[o] EXCEPT !.secret = login[o].pending, !.pending = 0, !.spare = RecoveryCodes])
        \/ SetLogin(o, [login[o] EXCEPT !.secret = 0, !.pending = 0, !.spare = {}])
    BY <1>5 DEF SpendRecovery, StorePending, StoreSecret, ForgetSecret
  <2>3. PICK row : SetLogin(o, row) /\ (o = m => row.password = login[m].password)
    <3>1. [login[m] EXCEPT !.spare = signIn[h].left].password = login[m].password BY <1>3, <1>4
    <3>2. [login[m] EXCEPT !.pending = lastSecret + 1].password = login[m].password BY <1>3, <1>4
    <3>3. [login[m] EXCEPT !.secret = login[m].pending, !.pending = 0, !.spare = RecoveryCodes].password = login[m].password
      BY <1>3, <1>4
    <3>4. [login[m] EXCEPT !.secret = 0, !.pending = 0, !.spare = {}].password = login[m].password BY <1>3, <1>4
    <3> QED BY <2>2, <3>1, <3>2, <3>3, <3>4
  <2> QED BY <1>2, <2>1, <2>3
<1>6. ASSUME NEW h \in SignIns, UpdatePassword(h), signIn[h].who # m PROVE login'[m].password = login[m].password
  BY <1>6, <1>2 DEF UpdatePassword, Stands, SessionTypes, RequestsHold, RequestHolds
<1>7. ASSUME NEW o \in Members, ResetsPassword(o), o # m PROVE login'[m].password = login[m].password
  BY <1>2, <1>7 DEF ResetsPassword
<1>8. ASSUME NEW o \in Members, NEW enabled \in BOOLEAN, NEW newPassword \in BOOLEAN, AdminEdits(o, enabled, newPassword),
             o # m \/ ~newPassword
      PROVE  login'[m].password = login[m].password
  <2> DEFINE n == IF newPassword THEN lastSecret + 1 ELSE login[o].password
  <2> DEFINE row == [login[o] EXCEPT !.enabled = enabled, !.password = n]
  <2>1. SetLogin(o, row) BY <1>8 DEF AdminEdits
  <2>2. o = m => row.password = login[m].password BY <1>3, <1>4, <1>8
  <2> HIDE DEF row
  <2> QED BY <1>2, <2>1, <2>2
<1>9. ASSUME NEW o \in Members, NEW changed \in BOOLEAN, Restart(o, changed), o # m \/ ~changed
      PROVE  login'[m].password = login[m].password
  <2>1. CASE ~changed BY <1>9, <2>1 DEF Restart
  <2>2. CASE changed BY <1>9, <2>2, <1>2 DEF Restart
  <2> QED BY <2>1, <2>2
<1>10. CASE UNCHANGED login BY <1>10
<1>11. ASSUME NEW h \in SignIns, Starts(h) \/ VerifyAnswer(h) PROVE UNCHANGED login BY <1>11, StartRows, VerifiedRows
<1>12. ASSUME NEW h \in SignIns, TurnsOn(h)
       PROVE  UNCHANGED login \/ SpendRecovery(h) \/ StorePending(h) \/ StoreSecret(h) \/ ForgetSecret(h) \/ UpdatePassword(h)
  BY <1>12 DEF TurnsOn, ClearChallenges, InsertChallenge, CountAttempt, DeleteChallenges, ReadUser, CreateSession,
       RevokeOthers, SignInDropped, SignInTables
<1>13. ASSUME BesideRequests
       PROVE  \/ UNCHANGED login \/ (\E o \in Members : ResetsPassword(o))
              \/ \E o \in Members, enabled, newPassword \in BOOLEAN : AdminEdits(o, enabled, newPassword)
  BY <1>13 DEF BesideRequests, Logout, Boot, SignInExpires
<1>14. CASE UNCHANGED sessionVars BY <1>14 DEF sessionVars
<1>15. ASSUME NEW h \in SignIns, Starts(h) \/ VerifyAnswer(h) \/ TurnsOn(h)
       PROVE  login'[m].password = login[m].password \/ (UpdatePassword(h) /\ signIn[h].who = m)
  BY <1>5, <1>6, <1>10, <1>11, <1>12, <1>15
<1>16. CASE BesideRequests
  <2>1. CASE UNCHANGED login BY <2>1
  <2>2. CASE \E o \in Members : ResetsPassword(o) BY <1>7, <2>2
  <2>3. ASSUME NEW o \in Members, NEW enabled \in BOOLEAN, NEW newPassword \in BOOLEAN, AdminEdits(o, enabled, newPassword)
        PROVE  login'[m].password = login[m].password \/ AdminEdits(m, enabled, TRUE)
    BY <1>8, <2>3
  <2> QED BY <1>13, <1>16, <2>1, <2>2, <2>3
<1>17. ASSUME NEW o \in Members, NEW changed \in BOOLEAN, Restart(o, changed)
       PROVE  login'[m].password = login[m].password \/ Restart(m, TRUE)
  BY <1>9, <1>17
<1> QED BY <1>14, <1>15, <1>16, <1>17, SessionSteps

LEMMA PasswordStep ==
  ASSUME SessionTypes, PasswordFollows, [SessionNext]_sessionVars
  PROVE  PasswordFollows'
<1>1. RequestsHold /\ signIn \in [SignIns -> SignInRows] /\ \A h \in SignIns : RequestHolds(h) BY DEF SessionTypes, RequestsHold
<1>2. /\ \A s \in DOMAIN session : session[s].who \in Members
      /\ login \in [Members -> LoginRows(lastSecret)]
      /\ booting \subseteq Members /\ \A m, n \in booting : m = n
  BY DEF SessionTypes, SessionTables, SessionRows
\* what stays as it is stays covered
<1>3. ASSUME NEW s \in DOMAIN session, s \in DOMAIN session', session'[s].who = session[s].who,
             session'[s].password = session[s].password, session'[s].late = session[s].late,
             login'[session[s].who].password = login[session[s].who].password,
             session[s].who \in cutOff \cup booting => session[s].who \in cutOff' \cup booting',
             \A h \in SignIns : signIn[h].pc = "revoke" /\ signIn[h].who = session[s].who /\ signIn[h].session # s =>
                                  signIn'[h] = signIn[h] \/ session[s].who \in cutOff'
      PROVE  Covered(s)'
  BY <1>3 DEF PasswordFollows, Covered
<1>4. \A m \in Members :
         \/ login'[m].password = login[m].password
         \/ \E h \in SignIns : UpdatePassword(h) /\ signIn[h].who = m
         \/ ResetsPassword(m) \/ (\E enabled \in BOOLEAN : AdminEdits(m, enabled, TRUE)) \/ Restart(m, TRUE)
  BY PasswordMoves
<1>5. ASSUME NEW h \in SignIns, UpdatePassword(h) PROVE PasswordFollows'
  <2> DEFINE q == signIn[h]
  <2>1. TurnsOn(h) /\ q.pc = "update" /\ q.who \in Members /\ UNCHANGED <<booting, cutOff>>
        /\ SetLogin(q.who, [login[q.who] EXCEPT !.password = lastSecret + 1])
        /\ session' = [s \in DOMAIN session |-> IF s = q.session THEN [session[s] EXCEPT !.password = lastSecret + 1] ELSE session[s]]
        /\ Turns(h, "revoke")
    BY <1>1, <1>5 DEF TurnsOn, UpdatePassword, Stands, RequestHolds, SignInHistory
  <2>2. "revoke" \in SignInPlaces BY DEF SignInPlaces
  <2>3. AloneIn(h) /\ signIn'[h].pc = "revoke" /\ signIn'[h].who = q.who /\ signIn'[h].session = q.session
    BY <1>1, <2>1, <2>2, TurnsMoves DEF Moves
  <2>4. login'[q.who] = [login[q.who] EXCEPT !.password = lastSecret + 1] /\ \A m \in Members \ {q.who} : login'[m] = login[m]
    BY <1>2, <2>1 DEF SetLogin
  <2>5. login'[q.who].password = lastSecret + 1 BY <1>2, <2>1, <2>4 DEF LoginRows
  <2>6. ASSUME NEW s \in DOMAIN session' PROVE Covered(s)'
    <3>1. s \in DOMAIN session BY <2>1, <2>6
    <3>2. session'[s] = IF s = q.session THEN [session[s] EXCEPT !.password = lastSecret + 1] ELSE session[s] BY <2>1, <3>1
    <3>3. session[s] \in SessionRows BY <3>1 DEF SessionTypes, SessionTables
    <3>4. CASE s = q.session
      <4>1. session[s].who = q.who BY <1>1, <2>1, <3>1, <3>4 DEF RequestHolds
      <4>2. session'[s].password = lastSecret + 1 /\ session'[s].who = q.who BY <3>2, <3>3, <3>4, <4>1 DEF SessionRows
      <4> QED BY <2>5, <4>2 DEF Covered
    <3>5. CASE s # q.session
      <4>1. session'[s] = session[s] BY <3>2, <3>5
      <4>2. CASE session[s].who = q.who BY <2>3, <3>5, <4>1, <4>2 DEF Covered
      <4>3. CASE session[s].who # q.who
        <5>1. login'[session[s].who] = login[session[s].who] BY <1>2, <2>4, <3>1, <4>3
        <5>2. \A g \in SignIns : signIn[g].pc = "revoke" => signIn'[g] = signIn[g] BY <2>1, <2>3 DEF AloneIn
        <5> QED BY <1>3, <2>1, <2>6, <3>1, <4>1, <5>1, <5>2
      <4> QED BY <4>2, <4>3
    <3> QED BY <3>4, <3>5
  <2> QED BY <2>6 DEF PasswordFollows
\* nobody's password changes but those whose sessions go
<1>6. ASSUME NEW gone, session' = Without(session, gone), UNCHANGED <<signIn, cutOff, booting>>,
             \A m \in Members : login'[m].password = login[m].password \/ SessionsOf(m) \subseteq gone
      PROVE  PasswordFollows'
  BY <1>6, <1>2, <1>3 DEF PasswordFollows, Without, SessionsOf
<1>7. ASSUME NEW m \in Members, ResetsPassword(m) PROVE PasswordFollows'
  BY <1>7, <1>2, <1>6 DEF ResetsPassword, SignInHistory, SetLogin
<1>8. ASSUME NEW m \in Members, NEW enabled \in BOOLEAN, NEW newPassword \in BOOLEAN, AdminEdits(m, enabled, newPassword)
      PROVE  PasswordFollows'
  <2> DEFINE row == [login[m] EXCEPT !.enabled = enabled, !.password = IF newPassword THEN lastSecret + 1 ELSE @]
  <2>1. UNCHANGED <<signIn, cutOff, booting>> /\ SetLogin(m, row)
        /\ session' = IF RevokesSessions(enabled, newPassword) THEN Without(session, SessionsOf(m)) ELSE session
    BY <1>8 DEF AdminEdits, SignInHistory
  <2>2. \A o \in Members : o # m => login'[o] = login[o] BY <1>2, <2>1 DEF SetLogin
  <2>3. login'[m] = row BY <1>2, <2>1 DEF SetLogin
  <2>4. CASE RevokesSessions(enabled, newPassword) BY <1>6, <2>1, <2>2, <2>4
  <2>5. CASE ~RevokesSessions(enabled, newPassword)
    <3>1. ~newPassword BY <2>5 DEF RevokesSessions
    <3>2. login[m] \in LoginRows(lastSecret) BY <1>2
    <3>3. login'[m].password = login[m].password BY <2>3, <3>1, <3>2 DEF LoginRows
    <3>4. session' = Without(session, {}) BY <2>1, <2>5 DEF Without, SessionTypes, SessionTables
    <3> HIDE DEF row
    <3> QED BY <1>6, <2>1, <2>2, <3>3, <3>4
  <2> QED BY <2>4, <2>5
<1>9. ASSUME NEW m \in Members, NEW changed \in BOOLEAN, Restart(m, changed) PROVE PasswordFollows'
  <2>1. cutOff' = cutOff \cup {signIn[h].who : h \in {g \in SignIns : signIn[g].pc = "revoke"}} \cup booting /\ session' = session
    BY <1>9 DEF Restart
  <2>2. booting' = IF changed THEN {m} ELSE {} BY <1>9 DEF Restart
  <2>3. \A o \in Members : login'[o].password = login[o].password \/ o \in booting'
    <3>1. CASE ~changed BY <1>9, <3>1 DEF Restart
    <3>2. CASE changed BY <1>9, <3>2, <1>2, <2>2 DEF Restart, SetLogin
    <3> QED BY <3>1, <3>2
  <2> SUFFICES ASSUME NEW s \in DOMAIN session PROVE Covered(s)' BY <2>1 DEF PasswordFollows
  <2>4. CASE session[s].who \in booting' BY <2>1, <2>4 DEF Covered
  <2>5. CASE session[s].who \notin booting' BY <2>1, <1>2, <2>3, <2>5, <1>3
  <2> QED BY <2>4, <2>5
<1>10. ASSUME NEW m \in Members, Boot(m) PROVE PasswordFollows'
  BY <1>10, <1>2, <1>3 DEF Boot, SignInHistory, PasswordFollows, Without, SessionsOf
<1>11. ASSUME NEW h \in SignIns, RevokeOthers(h) PROVE PasswordFollows'
  <2>1. /\ session' = Without(session, SessionsOf(signIn[h].who) \ {signIn[h].session}) /\ UNCHANGED <<login, booting, cutOff>>
        /\ TurnsOn(h)
    BY <1>11 DEF RevokeOthers, SignInHistory, TurnsOn
  <2>2. AloneIn(h) BY <1>1, <2>1, TurnsOnMoves
  <2> SUFFICES ASSUME NEW s \in DOMAIN session' PROVE Covered(s)' BY DEF PasswordFollows
  <2>3. s \in DOMAIN session /\ session'[s] = session[s] /\ ~(session[s].who = signIn[h].who /\ signIn[h].session # s)
    BY <2>1 DEF Without, SessionsOf
  <2> QED BY <1>3, <2>1, <2>2, <2>3 DEF AloneIn
<1>12. ASSUME NEW h \in SignIns, CreateSession(h) PROVE PasswordFollows'
  <2>1. TurnsOn(h) /\ signIn[h].pc = "session" /\ signIn[h].who \in Members /\ UNCHANGED <<login, booting, cutOff>>
    BY <1>1, <1>12 DEF CreateSession, SignInHistory, TurnsOn, Stands, RequestHolds
  <2>2. AloneIn(h) BY <1>1, <2>1, TurnsOnMoves
  <2>3. DOMAIN session' = DOMAIN session \cup {nextToken} /\ \A s \in DOMAIN session : s # nextToken => session'[s] = session[s]
    BY <1>12 DEF CreateSession
  <2>4. /\ session'[nextToken].who = signIn[h].who /\ session'[nextToken].password = signIn[h].password
        /\ session'[nextToken].late = (login[signIn[h].who].password # signIn[h].password)
    BY <1>12 DEF CreateSession
  <2> SUFFICES ASSUME NEW s \in DOMAIN session' PROVE Covered(s)' BY DEF PasswordFollows
  <2>5. CASE s = nextToken BY <2>1, <2>4, <2>5 DEF Covered
  <2>6. CASE s # nextToken BY <2>3, <2>6, <2>1, <2>2, <1>3 DEF AloneIn
  <2> QED BY <2>5, <2>6
\* a request that is not about to end sessions moves, and no session but goes
<1>13. ASSUME NEW h \in SignIns, AloneIn(h), signIn[h].pc # "revoke" \/ signIn[h].who \in cutOff', cutOff \subseteq cutOff',
              booting' = booting, session' = session, \A m \in Members : login'[m].password = login[m].password
       PROVE  PasswordFollows'
  BY <1>13, <1>2, <1>3 DEF PasswordFollows, AloneIn
<1>14. ASSUME NEW h \in SignIns, Starts(h) \/ VerifyAnswer(h) PROVE PasswordFollows'
  BY <1>13, <1>14, StartRows, VerifiedRows
<1>15. ASSUME NEW h \in SignIns, TurnsOn(h) PROVE PasswordFollows'
  <2>1. AloneIn(h) BY <1>1, <1>15, TurnsOnMoves
  <2>2. CASE ClearChallenges(h) \/ InsertChallenge(h) \/ CountAttempt(h) \/ DeleteChallenges(h) \/ ReadUser(h)
    <3>1. signIn[h].pc # "revoke" /\ UNCHANGED <<login, session, booting, cutOff>>
      BY <2>2 DEF ClearChallenges, InsertChallenge, CountAttempt, DeleteChallenges, ReadUser, Stands, SignInHistory, SignInTables
    <3> QED BY <1>13, <2>1, <3>1
  <2>3. CASE SpendRecovery(h) \/ StorePending(h) \/ StoreSecret(h) \/ ForgetSecret(h)
    <3>1. signIn[h].pc # "revoke" /\ UNCHANGED <<session, booting, cutOff>>
      BY <2>3 DEF SpendRecovery, StorePending, StoreSecret, ForgetSecret, Stands, SignInHistory
    <3>2. ~\E g \in SignIns : UpdatePassword(g)
      <4>1. ASSUME NEW g \in SignIns, UpdatePassword(g) PROVE FALSE
        <5>1. signIn'[g].pc = "revoke" /\ signIn[g].pc = "update"
          BY <4>1, <1>1, TurnsMoves DEF UpdatePassword, Stands, SignInPlaces, Moves
        <5>2. signIn[h].pc # "update" BY <2>3 DEF SpendRecovery, StorePending, StoreSecret, ForgetSecret, Stands
        <5> QED BY <2>1, <5>1, <5>2 DEF AloneIn
      <4> QED BY <4>1
    <3>3. ~\E m \in Members : ResetsPassword(m) \/ (\E enabled \in BOOLEAN : AdminEdits(m, enabled, TRUE)) \/ Restart(m, TRUE)
      <4>1. signIn'[h].pc \in {"idle", "delete"} /\ signIn[h].pc \notin {"idle", "delete"}
        <5>1. (Turns(h, "idle") \/ Turns(h, "delete")) /\ signIn[h].pc \notin {"idle", "delete"}
          BY <2>3 DEF SpendRecovery, StorePending, StoreSecret, ForgetSecret, Stands
        <5>2. "idle" \in SignInPlaces /\ "delete" \in SignInPlaces BY DEF SignInPlaces
        <5> QED BY <1>1, <5>1, <5>2, TurnsMoves DEF Moves
      <4>2. \A m \in Members : ~ResetsPassword(m) /\ \A enabled \in BOOLEAN : ~AdminEdits(m, enabled, TRUE)
        BY <4>1 DEF ResetsPassword, AdminEdits
      <4>3. \A m \in Members : ~Restart(m, TRUE)
        BY <2>3, <3>1 DEF SpendRecovery, StorePending, StoreSecret, ForgetSecret, Restart, Stands
      <4> QED BY <4>2, <4>3
    <3> QED BY <1>4, <1>13, <2>1, <3>1, <3>2, <3>3
  <2>4. CASE SignInDropped(h) BY <2>4, <1>13, <2>1 DEF SignInDropped, SignInTables
  <2> QED BY <1>5, <1>11, <1>12, <1>15, <2>2, <2>3, <2>4 DEF TurnsOn
<1>16. CASE BesideRequests
  <2>1. CASE \E s \in DOMAIN session : Logout(s) BY <1>6, <2>1 DEF Logout, SignInHistory
  <2>2. CASE SignInExpires
    <3>1. UNCHANGED <<login, signIn, booting, cutOff>> /\ (session' = session \/ \E s \in DOMAIN session : session' = Without(session, {s}))
      BY <2>2 DEF SignInExpires, SignInHistory
    <3>2. session = Without(session, {}) BY DEF Without, SessionTypes, SessionTables
    <3> QED BY <1>6, <3>1, <3>2
  <2> QED BY <1>7, <1>8, <1>10, <1>16, <2>1, <2>2 DEF BesideRequests
<1>17. CASE UNCHANGED sessionVars BY <1>17 DEF sessionVars, PasswordFollows, Covered
<1> QED BY <1>9, <1>14, <1>15, <1>16, <1>17, SessionSteps

-----------------------------------------------------------------------------
(*                     Wrong codes, tried and counted                      *)

Looking(c) == {h \in SignIns : signIn[h].pc = "verify" /\ signIn[h].challenge = c}
Counting(c) == {h \in SignIns : signIn[h].pc = "count" /\ signIn[h].challenge = c}

\* Those that look found room for one more wrong code, with those that count.
CountsHold ==
  /\ \A c \in DOMAIN tries : tries[c] + Cardinality(Looking(c)) <= MaxAttempts + Cardinality(SignIns) - 1
  /\ \A c \in DOMAIN challenge : tries[c] = challenge[c].attempts + Cardinality(Counting(c))

LEMMA SignInSets ==
  /\ \A S \in SUBSET SignIns : IsFiniteSet(S) /\ Cardinality(S) \in Nat
  /\ \A S \in SUBSET SignIns : \A h \in SignIns \ S : Cardinality(S \cup {h}) = Cardinality(S) + 1
  /\ \A S \in SUBSET SignIns : \A h \in S : Cardinality(S \ {h}) = Cardinality(S) - 1
  /\ \A S, T \in SUBSET SignIns : S \subseteq T => Cardinality(S) <= Cardinality(T)
  /\ \A S, T \in SUBSET SignIns : S \cap T = {} => Cardinality(S \cup T) = Cardinality(S) + Cardinality(T)
<1>1. \A S \in SUBSET SignIns : IsFiniteSet(S) /\ Cardinality(S) \in Nat BY SessionAssumption, FS_Subset, FS_CardinalityType
<1>2. \A S \in SUBSET SignIns : \A h \in SignIns \ S : Cardinality(S \cup {h}) = Cardinality(S) + 1 BY <1>1, FS_AddElement
<1>3. \A S \in SUBSET SignIns : \A h \in S : Cardinality(S \ {h}) = Cardinality(S) - 1 BY <1>1, FS_RemoveElement
<1>4. \A S, T \in SUBSET SignIns : S \subseteq T => Cardinality(S) <= Cardinality(T) BY <1>1, FS_Subset
<1>5. \A S, T \in SUBSET SignIns : S \cap T = {} => Cardinality(S \cup T) = Cardinality(S) + Cardinality(T)
  <2> SUFFICES ASSUME NEW S \in SUBSET SignIns, NEW T \in SUBSET SignIns, S \cap T = {}
               PROVE  Cardinality(S \cup T) = Cardinality(S) + Cardinality(T)
    OBVIOUS
  <2>1. Cardinality(S \cup T) = Cardinality(S) + Cardinality(T) - Cardinality({}) BY <1>1, FS_Union
  <2>2. Cardinality({}) = 0 BY FS_EmptySet
  <2> QED BY <1>1, <2>1, <2>2
<1> QED BY <1>1, <1>2, <1>3, <1>4, <1>5

LEMMA CountTypes ==
  ASSUME SessionTypes
  PROVE  /\ \A c \in DOMAIN tries : tries[c] \in Int /\ c \in Nat /\ c < nextToken
         /\ \A c \in DOMAIN challenge : c \in DOMAIN tries /\ challenge[c].attempts \in Nat /\ challenge[c] \in ChallengeRows
         /\ \A c : /\ Looking(c) \in SUBSET SignIns /\ Cardinality(Looking(c)) \in Nat
                   /\ Counting(c) \in SUBSET SignIns /\ Cardinality(Counting(c)) \in Nat
                   /\ Looking(c) \cap Counting(c) = {}
         /\ MaxAttempts \in Nat /\ Cardinality(SignIns) \in Nat /\ nextToken \in Nat
BY SignInSets, SessionAssumption DEF SessionTypes, SessionTables, ChallengeRows, Looking, Counting

LEMMA CountsMean == SessionTypes /\ CountsHold => AttemptsBounded
BY CountTypes DEF AttemptsBounded, CountsHold

LEMMA CountsStep ==
  ASSUME SessionTypes, CountsHold, [SessionNext]_sessionVars
  PROVE  CountsHold'
<1>1. RequestsHold /\ signIn \in [SignIns -> SignInRows] /\ \A h \in SignIns : RequestHolds(h) BY DEF SessionTypes, RequestsHold
\* nobody looks or counts who did not before, and no count changes
<1>2. ASSUME tries' = tries, DOMAIN challenge' \subseteq DOMAIN challenge,
             \A c \in DOMAIN challenge' : challenge'[c].attempts = challenge[c].attempts,
             \A c : Looking(c)' \subseteq Looking(c) /\ Counting(c)' = Counting(c)
      PROVE  CountsHold'
  <2>1. ASSUME NEW c \in DOMAIN tries PROVE tries[c] + Cardinality(Looking(c)') <= MaxAttempts + Cardinality(SignIns) - 1
    BY <1>2, CountTypes, SignInSets DEF CountsHold
  <2>2. \A c \in DOMAIN challenge' : tries[c] = challenge'[c].attempts + Cardinality(Counting(c)') BY <1>2 DEF CountsHold
  <2> QED BY <1>2, <2>1, <2>2 DEF CountsHold
\* one request moves that neither looks nor counts, before or after
<1>3. ASSUME NEW h \in SignIns, AloneIn(h), signIn[h].pc \notin {"verify", "count"}, signIn'[h].pc \notin {"verify", "count"}
      PROVE  \A c : Looking(c)' = Looking(c) /\ Counting(c)' = Counting(c)
  BY <1>3 DEF AloneIn, Looking, Counting
<1>4. ASSUME NEW h \in SignIns, TurnsOn(h) PROVE AloneIn(h) /\ Moves(h, signIn'[h].pc) BY <1>1, <1>4, TurnsOnMoves
<1>5. ASSUME NEW h \in SignIns, Starts(h) PROVE CountsHold'
  <2>1. AloneIn(h) /\ signIn[h].pc = "idle" /\ UNCHANGED <<challenge, tries>> /\ signIn'[h].pc # "count" BY <1>5, StartRows
  <2>2. CASE signIn'[h].pc # "verify" BY <1>2, <1>3, <2>1, <2>2
  <2>3. CASE signIn'[h].pc = "verify"
    <3>9. PICK d : d = signIn'[h].challenge OBVIOUS
    <3>1. d \in DOMAIN challenge /\ challenge[d].attempts < MaxAttempts
      <4>1. ASSUME NEW m \in Members, SignsIn(h, m) PROVE signIn'[h].pc # "verify" BY <4>1, <1>1 DEF SignsIn, GoOn, NoSignIn
      <4>2. ASSUME NEW s \in DOMAIN session, Changes(h, s) PROVE signIn'[h].pc # "verify"
        <5>1. PICK op \in {"password", "setup", "enable", "disable"}, pc \in {"update", "pend", "enable", "disable"} : Begins(h, s, op, pc)
          BY <4>2 DEF Changes, ChangePassword, Setup, Enable, Disable
        <5>2. signIn' = [signIn EXCEPT ![h] = [NoSignIn EXCEPT !.op = op, !.pc = pc, !.who = session[s].who, !.session = s,
                              !.secret = login[session[s].who].secret, !.pending = login[session[s].who].pending]]
          BY <5>1 DEF Begins, GoOn
        <5> QED BY <1>1, <5>1, <5>2 DEF NoSignIn
      <4>6. PICK c \in DOMAIN challenge : \E code \in CodesFor(challenge[c].who) : AnswersChallenge(h, c, code)
        BY <1>5, <2>3, <4>1, <4>2 DEF Starts, Answers
      <4>3. PICK code \in CodesFor(challenge[c].who) : AnswersChallenge(h, c, code) BY <4>6
      <4>4. signIn' = [signIn EXCEPT ![h] = [NoSignIn EXCEPT !.op = "second", !.pc = "verify", !.who = challenge[c].who,
                              !.challenge = c, !.password = challenge[c].password, !.code = code]]
        BY <4>3 DEF AnswersChallenge, GoOn
      <4>5. d = c BY <1>1, <3>9, <4>4 DEF NoSignIn
      <4> QED BY <4>3, <4>5 DEF AnswersChallenge, Takes
    <3>2. \A c : Counting(c)' = Counting(c) BY <2>1, <2>3 DEF AloneIn, Counting
    <3>3. h \notin Looking(d) /\ h \notin Counting(d) BY <2>1 DEF Looking, Counting
    <3>4. Looking(d)' = Looking(d) \cup {h} BY <2>1, <2>3, <3>9 DEF AloneIn, Looking
    <3>5. \A c : c # d => Looking(c)' = Looking(c) BY <2>1, <2>3, <3>9 DEF AloneIn, Looking
    <3>6. tries[d] + Cardinality(Looking(d)') <= MaxAttempts + Cardinality(SignIns) - 1
      <4> DEFINE S == Looking(d) \cup Counting(d)
      <4>1. Cardinality(S) = Cardinality(Looking(d)) + Cardinality(Counting(d)) BY CountTypes, SignInSets
      <4>2. S \in SUBSET SignIns /\ S \cup {h} \in SUBSET SignIns /\ h \notin S BY <3>3, CountTypes
      <4> HIDE DEF S
      <4>3. Cardinality(S) + 1 <= Cardinality(SignIns) BY <4>2, SignInSets
      <4>4. Cardinality(Looking(d)') = Cardinality(Looking(d)) + 1 BY <3>3, <3>4, CountTypes, SignInSets
      <4>5. tries[d] = challenge[d].attempts + Cardinality(Counting(d)) BY <3>1 DEF CountsHold
      <4>6. challenge[d].attempts \in Nat /\ Cardinality(Looking(d)) \in Nat /\ Cardinality(Counting(d)) \in Nat
            /\ MaxAttempts \in Nat /\ Cardinality(SignIns) \in Nat
        BY <3>1, CountTypes
      <4> QED BY <3>1, <4>1, <4>3, <4>4, <4>5, <4>6
    <3>7. \A c \in DOMAIN tries : tries[c] + Cardinality(Looking(c)') <= MaxAttempts + Cardinality(SignIns) - 1
      BY <3>5, <3>6 DEF CountsHold
    <3>8. \A c \in DOMAIN challenge : tries[c] = challenge[c].attempts + Cardinality(Counting(c)')
      BY <3>2 DEF CountsHold
    <3> QED BY <2>1, <3>7, <3>8 DEF CountsHold
  <2> QED BY <2>2, <2>3
<1>6. ASSUME NEW h \in SignIns, VerifyAnswer(h) PROVE CountsHold'
  <2>0. PICK d : d = signIn[h].challenge OBVIOUS
  <2> DEFINE right == CodeRight(signIn[h].who, signIn[h].code) \/ SpareCode(signIn[h].who, signIn[h].code)
  <2>1. /\ AloneIn(h) /\ signIn[h].pc = "verify" /\ challenge' = challenge /\ signIn'[h].challenge = d
        /\ signIn'[h].pc # "verify" /\ (signIn'[h].pc = "count" <=> ~right)
    BY <1>6, <2>0, VerifiedRows
  <2>2. tries' = IF right THEN tries ELSE [tries EXCEPT ![d] = @ + 1] BY <1>6, <2>0 DEF VerifyAnswer
  <2>3. d \in DOMAIN tries BY <1>1, <2>0, <2>1 DEF RequestHolds
  <2>8. signIn[h].challenge = d BY <2>0
  <2>4. h \in Looking(d) /\ h \notin Counting(d) /\ Looking(d)' = Looking(d) \ {h}
    BY <2>1, <2>8 DEF Looking, Counting, AloneIn
  <2>5. \A c : c # d => Looking(c)' = Looking(c) /\ Counting(c)' = Counting(c)
    BY <2>1, <2>8 DEF Looking, Counting, AloneIn
  <2>6. CASE right
    <3>1. Counting(d)' = Counting(d) BY <2>1, <2>6, <2>8 DEF Counting, AloneIn
    <3>2. \A c : Looking(c)' \subseteq Looking(c) /\ Counting(c)' = Counting(c) BY <2>4, <2>5, <3>1
    <3> HIDE DEF right
    <3> QED BY <1>2, <2>1, <2>2, <2>6, <3>2
  <2>7. CASE ~right
    <3>1. Counting(d)' = Counting(d) \cup {h} BY <2>1, <2>7, <2>8 DEF Counting, AloneIn
    <3>2. Cardinality(Counting(d)') = Cardinality(Counting(d)) + 1 BY <2>4, <3>1, CountTypes, SignInSets
    <3>3. Cardinality(Looking(d)') = Cardinality(Looking(d)) - 1 BY <2>4, CountTypes, SignInSets
    <3> HIDE DEF right
    <3>4. tries' = [tries EXCEPT ![d] = @ + 1] BY <2>2, <2>7
    <3>5. DOMAIN tries' = DOMAIN tries /\ tries'[d] = tries[d] + 1 /\ \A c \in DOMAIN tries \ {d} : tries'[c] = tries[c]
      BY <2>3, <3>4
    <3>6. tries[d] + Cardinality(Looking(d)) <= MaxAttempts + Cardinality(SignIns) - 1 BY <2>3 DEF CountsHold
    <3>7. tries'[d] + Cardinality(Looking(d)') <= MaxAttempts + Cardinality(SignIns) - 1
      BY <2>3, <3>3, <3>5, <3>6, CountTypes
    <3>8. \A c \in DOMAIN tries \ {d} : tries'[c] + Cardinality(Looking(c)') <= MaxAttempts + Cardinality(SignIns) - 1
      BY <2>5, <3>5 DEF CountsHold
    <3>9. d \in DOMAIN challenge => tries'[d] = challenge[d].attempts + Cardinality(Counting(d)')
      BY <3>2, <3>5, CountTypes DEF CountsHold
    <3>10. \A c \in DOMAIN challenge \ {d} : tries'[c] = challenge[c].attempts + Cardinality(Counting(c)')
      BY <2>5, <3>5, CountTypes DEF CountsHold
    <3> QED BY <2>1, <3>5, <3>7, <3>8, <3>9, <3>10 DEF CountsHold
  <2> QED BY <2>6, <2>7
<1>7. ASSUME NEW h \in SignIns, InsertChallenge(h) PROVE CountsHold'
  <2>1. TurnsOn(h) /\ signIn[h].pc = "challenge" BY <1>7 DEF TurnsOn, InsertChallenge, Stands
  <2>2. signIn'[h].pc = "idle" BY <1>7, <1>1, TurnsMoves DEF InsertChallenge, SignInPlaces, Moves
  <2>3. \A c : Looking(c)' = Looking(c) /\ Counting(c)' = Counting(c) BY <1>3, <1>4, <2>1, <2>2
  <2>4. Looking(nextToken) = {} /\ Counting(nextToken) = {} BY CountTypes, <1>1 DEF Looking, Counting, RequestHolds
  <2>5. /\ DOMAIN tries' = DOMAIN tries \cup {nextToken} /\ tries'[nextToken] = 0
        /\ \A c \in DOMAIN tries : c # nextToken => tries'[c] = tries[c]
        /\ DOMAIN challenge' = DOMAIN challenge \cup {nextToken} /\ challenge'[nextToken].attempts = 0
        /\ \A c \in DOMAIN challenge : c # nextToken => challenge'[c] = challenge[c]
    BY <1>7 DEF InsertChallenge
  <2>6. Cardinality({}) = 0 BY FS_EmptySet
  <2>7. Cardinality(SignIns) >= 1
    <3>1. Cardinality(SignIns \ {h}) = Cardinality(SignIns) - 1 /\ Cardinality(SignIns \ {h}) \in Nat BY SignInSets
    <3> QED BY <3>1, CountTypes
  <2>8. ASSUME NEW c \in DOMAIN tries' PROVE tries'[c] + Cardinality(Looking(c)') <= MaxAttempts + Cardinality(SignIns) - 1
    <3>1. CASE c = nextToken
      <4>1. tries'[c] = 0 /\ Cardinality(Looking(c)') = 0 BY <2>3, <2>4, <2>5, <2>6, <3>1
      <4> QED BY <2>7, <4>1, CountTypes
    <3>2. CASE c # nextToken BY <2>3, <2>5, <2>8, <3>2 DEF CountsHold
    <3> QED BY <3>1, <3>2
  <2>9. ASSUME NEW c \in DOMAIN challenge' PROVE tries'[c] = challenge'[c].attempts + Cardinality(Counting(c)')
    <3>1. CASE c = nextToken BY <2>3, <2>4, <2>5, <2>6, <3>1
    <3>2. CASE c # nextToken BY <2>3, <2>5, <2>9, <3>2, CountTypes DEF CountsHold
    <3> QED BY <3>1, <3>2
  <2> QED BY <2>8, <2>9 DEF CountsHold
<1>8. ASSUME NEW h \in SignIns, CountAttempt(h) PROVE CountsHold'
  <2>0. PICK d : d = signIn[h].challenge OBVIOUS
  <2>1. TurnsOn(h) /\ signIn[h].pc = "count" /\ tries' = tries
        /\ challenge' = IF d \in DOMAIN challenge THEN [challenge EXCEPT ![d].attempts = @ + 1] ELSE challenge
    BY <1>8, <2>0 DEF TurnsOn, CountAttempt, Stands, SignInHistory
  <2>2. signIn'[h].pc = "idle" /\ AloneIn(h) BY <1>8, <1>1, TurnsMoves DEF CountAttempt, SignInPlaces, Moves
  <2>3. \A c : Looking(c)' = Looking(c) BY <2>1, <2>2 DEF AloneIn, Looking
  <2>4. h \in Counting(d) /\ Counting(d)' = Counting(d) \ {h} /\ \A c : c # d => Counting(c)' = Counting(c)
    BY <2>0, <2>1, <2>2 DEF AloneIn, Counting
  <2>5. Cardinality(Counting(d)') = Cardinality(Counting(d)) - 1 BY <2>4, CountTypes, SignInSets
  <2>6. DOMAIN challenge' = DOMAIN challenge /\ \A c \in DOMAIN challenge \ {d} : challenge'[c] = challenge[c] BY <2>1
  <2>7. d \in DOMAIN challenge => challenge'[d].attempts = challenge[d].attempts + 1 BY <2>1, CountTypes DEF ChallengeRows
  <2>8. d \in DOMAIN challenge => tries[d] = challenge'[d].attempts + Cardinality(Counting(d)')
    BY <2>5, <2>7, CountTypes DEF CountsHold
  <2>9. \A c \in DOMAIN challenge' : tries'[c] = challenge'[c].attempts + Cardinality(Counting(c)')
    BY <2>1, <2>4, <2>6, <2>8 DEF CountsHold
  <2>10. \A c \in DOMAIN tries' : tries'[c] + Cardinality(Looking(c)') <= MaxAttempts + Cardinality(SignIns) - 1
    BY <2>1, <2>3 DEF CountsHold
  <2> QED BY <2>9, <2>10 DEF CountsHold
\* requests that end without counting take back what they tried
<1>9. ASSUME NEW ended \in SUBSET SignIns, tries' = Uncounted(ended), challenge' = challenge,
             \A g \in ended : signIn'[g].pc = "idle", \A g \in SignIns \ ended : signIn'[g] = signIn[g]
      PROVE  CountsHold'
  <2> DEFINE Gone(c) == {h \in ended : signIn[h].pc = "count" /\ signIn[h].challenge = c}
  <2>1. DOMAIN tries' = DOMAIN tries /\ \A c \in DOMAIN tries : tries'[c] = tries[c] - Cardinality(Gone(c))
    BY <1>9, UncountedTypes DEF Uncounted, SessionTypes
  <2>2. \A c : Looking(c)' \subseteq Looking(c) BY <1>9 DEF Looking
  <2>3. \A c : Counting(c)' \cap Gone(c) = {} /\ Counting(c)' \cup Gone(c) = Counting(c) BY <1>9 DEF Counting
  <2>4. \A c : Gone(c) \in SUBSET SignIns OBVIOUS
  <2> HIDE DEF Gone
  <2>5. ASSUME NEW c PROVE /\ Cardinality(Counting(c)') + Cardinality(Gone(c)) = Cardinality(Counting(c))
                           /\ Cardinality(Gone(c)) \in Nat /\ Cardinality(Counting(c)') \in Nat
                           /\ Cardinality(Looking(c)') <= Cardinality(Looking(c)) /\ Cardinality(Looking(c)') \in Nat
    BY <2>2, <2>3, CountTypes, <2>4, SignInSets
  <2>6. ASSUME NEW c \in DOMAIN tries PROVE tries'[c] + Cardinality(Looking(c)') <= MaxAttempts + Cardinality(SignIns) - 1
    BY <2>1, <2>5, CountTypes DEF CountsHold
  <2>7. ASSUME NEW c \in DOMAIN challenge PROVE tries'[c] = challenge[c].attempts + Cardinality(Counting(c)')
    BY <2>1, <2>5, CountTypes DEF CountsHold
  <2> QED BY <1>9, <2>1, <2>6, <2>7 DEF CountsHold
<1>10. ASSUME NEW h \in SignIns, SignInDropped(h) PROVE CountsHold'
  <2>1. TurnsOn(h) /\ tries' = Uncounted({h}) /\ challenge' = challenge BY <1>10 DEF TurnsOn, SignInDropped, SignInTables
  <2>2. signIn'[h].pc = "idle" /\ AloneIn(h) BY <1>10, <1>1, TurnsMoves DEF SignInDropped, SignInPlaces, Moves
  <2> QED BY <1>9, <2>1, <2>2 DEF AloneIn
<1>11. ASSUME NEW m \in Members, NEW changed \in BOOLEAN, Restart(m, changed) PROVE CountsHold'
  BY <1>11, <1>9 DEF Restart, NoSignIn
\* the other places of a request are neither of the two
<1>12. ASSUME NEW h \in SignIns, TurnsOn(h) PROVE CountsHold'
  <2>1. AloneIn(h) /\ Moves(h, signIn'[h].pc) BY <1>4, <1>12
  <2>2. ASSUME NEW to \in SignInPlaces, Turns(h, to) PROVE signIn'[h].pc = to BY <1>1, <2>2, TurnsMoves DEF Moves
  <2>3. CASE ClearChallenges(h) \/ DeleteChallenges(h)
    <3>1. signIn[h].pc \in {"clear", "delete"} /\ tries' = tries /\ \E gone : challenge' = Without(challenge, gone)
      BY <2>3 DEF ClearChallenges, DeleteChallenges, Stands, SignInHistory
    <3>2. signIn'[h].pc \in {"challenge", "user", "idle"} BY <2>3, <2>2 DEF ClearChallenges, DeleteChallenges, SignInPlaces
    <3>3. \A c : Looking(c)' = Looking(c) /\ Counting(c)' = Counting(c) BY <1>3, <2>1, <3>1, <3>2
    <3>4. DOMAIN challenge' \subseteq DOMAIN challenge /\ \A c \in DOMAIN challenge' : challenge'[c] = challenge[c]
      BY <3>1 DEF Without
    <3> QED BY <1>2, <3>1, <3>3, <3>4
  <2>4. CASE SpendRecovery(h) \/ ReadUser(h) \/ CreateSession(h) \/ UpdatePassword(h) \/ RevokeOthers(h) \/ StorePending(h)
             \/ StoreSecret(h) \/ ForgetSecret(h)
    <3>1. signIn[h].pc \notin {"verify", "count"} /\ UNCHANGED <<challenge, tries>>
      BY <2>4 DEF SpendRecovery, ReadUser, CreateSession, UpdatePassword, RevokeOthers, StorePending, StoreSecret, ForgetSecret,
         Stands, SignInHistory, SignInTables
    <3>2. signIn'[h].pc \notin {"verify", "count"}
      <4>1. \E to \in {"delete", "session", "idle", "revoke"} : Turns(h, to)
        BY <2>4 DEF SpendRecovery, ReadUser, CreateSession, UpdatePassword, RevokeOthers, StorePending, StoreSecret, ForgetSecret
      <4>2. {"delete", "session", "idle", "revoke"} \subseteq SignInPlaces BY DEF SignInPlaces
      <4> QED BY SMTT(30), <2>2, <4>1, <4>2
    <3>3. \A c : Looking(c)' = Looking(c) /\ Counting(c)' = Counting(c) BY <1>3, <2>1, <3>1, <3>2
    <3> QED BY SMTT(30), <1>2, <3>1, <3>3
  <2> QED BY <1>7, <1>8, <1>10, <1>12, <2>3, <2>4 DEF TurnsOn
<1>13. CASE BesideRequests
  <2>1. tries' = tries /\ signIn' = signIn
    BY <1>13 DEF BesideRequests, Logout, ResetsPassword, Boot, AdminEdits, SignInExpires, SignInHistory
  <2>2. challenge' = challenge \/ \E c \in DOMAIN challenge : challenge' = [challenge EXCEPT ![c].live = FALSE]
    BY <1>13 DEF BesideRequests, Logout, ResetsPassword, Boot, AdminEdits, SignInExpires
  <2>3. ASSUME NEW r \in ChallengeRows PROVE [r EXCEPT !.live = FALSE].attempts = r.attempts BY DEF ChallengeRows
  <2>4. DOMAIN challenge' = DOMAIN challenge /\ \A c \in DOMAIN challenge : challenge'[c].attempts = challenge[c].attempts
    <3>1. CASE challenge' = challenge BY <3>1
    <3>2. ASSUME NEW d \in DOMAIN challenge, challenge' = [challenge EXCEPT ![d].live = FALSE]
          PROVE  DOMAIN challenge' = DOMAIN challenge /\ \A c \in DOMAIN challenge : challenge'[c].attempts = challenge[c].attempts
      BY <3>2, <2>3, CountTypes
    <3> QED BY <2>2, <3>1, <3>2
  <2>5. \A c : Looking(c)' = Looking(c) /\ Counting(c)' = Counting(c) BY <2>1 DEF Looking, Counting
  <2> QED BY <1>2, <2>1, <2>4, <2>5
<1>14. CASE UNCHANGED sessionVars BY <1>2, <1>14 DEF sessionVars, Looking, Counting
<1> QED BY <1>5, <1>6, <1>11, <1>12, <1>13, <1>14, SessionSteps

-----------------------------------------------------------------------------
(*                          Sessions are correct                           *)

SessionInv ==
  SessionTypes /\ PasswordFollows /\ ProofsHold /\ SecretsApart /\ SpendsRead /\ CodesOnce /\ SecretWasConfirmed /\ CountsHold

LEMMA SessionInitInv == SessionInit => SessionInv
<1> SUFFICES ASSUME SessionInit PROVE SessionInv OBVIOUS
<1>1. SessionTypes BY InitSessionTypes
<1>2. /\ DOMAIN session = {} /\ DOMAIN challenge = {} /\ DOMAIN tries = {}
      /\ signIn = [h \in SignIns |-> NoSignIn] /\ verified = {login[m].secret : m \in Members} /\ lastSecret = 9
  BY DEF SessionInit
<1>3. \A h \in SignIns : signIn[h].pc = "idle" BY <1>2 DEF NoSignIn
<1>4. SoundLogins(login) BY SessionAssumption DEF SessionInit
<1>5. PasswordFollows /\ SecretWasConfirmed /\ CountsHold BY <1>2 DEF PasswordFollows, SecretWasConfirmed, CountsHold
<1>6. ProofsHold /\ SpendsRead BY <1>2, <1>3 DEF ProofsHold, SecondFactorProved, Proving, SpendsRead
<1>7. \A m \in Members : Presented(m) = {} BY <1>2, <1>3 DEF Presented, Proving
<1>8. CodesOnce BY <1>7 DEF CodesOnce, Spent
<1>9. \A m \in Members : SecretsOf(m) = {login[m].secret, login[m].pending} BY <1>7 DEF SecretsOf
<1>10. \A m \in Members : login[m].secret \in 0 .. 9 /\ login[m].pending \in 0 .. 9 BY <1>4 DEF SoundLogins
<1>11. SecretsApart
  <2>1. \A m, o \in Members : m # o => SecretsOf(m) \cap SecretsOf(o) \subseteq {0} BY <1>4, <1>9 DEF SoundLogins
  <2>2. \A m \in Members : \A n \in SecretsOf(m) : n <= lastSecret BY <1>2, <1>9, <1>10
  <2>3. \A m \in Members : login[m].pending # 0 => login[m].pending # login[m].secret BY <1>4 DEF SoundLogins
  <2> QED BY <1>7, <2>1, <2>2, <2>3 DEF SecretsApart
<1> QED BY <1>1, <1>5, <1>6, <1>8, <1>11 DEF SessionInv

LEMMA SessionInvStep == SessionInv /\ [SessionNext]_sessionVars => SessionInv'
BY SessionTypesStep, PasswordStep, ProofsStep, ApartStep, SpendsStep, OnceStep, ConfirmedStep, CountsStep DEF SessionInv

LEMMA SessionInvMeans == SessionInv => SessionsSafe
<1> SUFFICES ASSUME SessionInv PROVE SessionsSafe OBVIOUS
<1>1. SessionTypeOK BY DEF SessionInv, SessionTypes, SessionTables, LoginRows, SessionTypeOK
<1>2. SessionsFollowPassword BY DEF SessionInv, PasswordFollows, Covered, SessionsFollowPassword
<1>3. RecoveryOnce BY OnceMeans DEF SessionInv
<1>4. AttemptsBounded BY CountsMean DEF SessionInv
<1> QED BY <1>1, <1>2, <1>3, <1>4 DEF SessionsSafe, SessionInv, ProofsHold

\* Sessions follow passwords, second factors are proved, a recovery code is used
\* once, and challenges are bounded (auth.rs, totp.rs).
THEOREM SessionsCorrect == SessionSpec => []SessionsSafe
<1>1. SessionInit => SessionInv BY SessionInitInv
<1>2. SessionInv /\ [SessionNext]_sessionVars => SessionInv' BY SessionInvStep
<1>3. SessionInv => SessionsSafe BY SessionInvMeans
<1> QED BY <1>1, <1>2, <1>3, PTL DEF SessionSpec

\* Only its user's disabling, or two requests at once, take a second factor away
\* (totp.rs, disable).
THEOREM FactorsStay == SessionSpec => FactorStays
<1>1. SessionInit => SessionInv BY SessionInitInv
<1>2. SessionInv /\ [SessionNext]_sessionVars => SessionInv' BY SessionInvStep
<1>3. SessionInv /\ [SessionNext]_sessionVars =>
        [\A m \in Members : login[m].secret # 0 /\ login'[m].secret = 0 =>
           m \in raced' \/ \E h \in SignIns : signIn[h].pc = "disable" /\ signIn[h].who = m]_sessionVars
  BY FactorStep DEF SessionInv
<1> QED BY <1>1, <1>2, <1>3, PTL DEF SessionSpec, FactorStays

-----------------------------------------------------------------------------
(*                       The dialogue that mails them                      *)

DialogPlaces ==
  {"idle", "connect", "greeting", "ehlo", "starttls", "auth", "password", "from", "recipient", "data", "body", "quit", "told"}
DialogRows ==
  [pc : DialogPlaces, via : {"smtp", "webhook"}, test : BOOLEAN, secure : BOOLEAN, setting : SUBSET StoredSettings,
   accepted : BOOLEAN, told : {"nothing", "sent", "failed"}]

\* A dialogue under way goes by settings that were valid, and where it is it has
\* what it needs: TLS where that comes first, the server's word at the end.
Spoken(row) ==
  /\ row.pc \notin {"idle", "told"} /\ row.via = "smtp" =>
       \E s \in StoredSettings : row.setting = {s} /\ ValidMail(s)
  /\ row.via = "smtp" /\ row.pc \in {"greeting", "ehlo", "starttls"} =>
       \A s \in row.setting : s.security = "implicit_tls" => row.secure
  /\ row.via = "smtp" /\ row.pc \in {"auth", "password", "from", "recipient", "data", "body"} =>
       \A s \in row.setting : row.secure \/ s.security = "plain"
  /\ row.pc = "quit" => row.accepted \/ row.test
  /\ row.told = "sent" => row.pc = "told" /\ (row.accepted \/ row.test)
DialogsHold == dialog \in [Mailers -> DialogRows] /\ \A d \in Mailers : Spoken(dialog[d])

SaverRows ==
  [pc : {"idle", "write"}, input : MailInputs \cup {{}}, password : BOOLEAN, change : {"keep", "set", "clear"}]

\* What is about to be saved was valid with the password there was.
SaversHold ==
  /\ mailSetting \in StoredSettings /\ saver \in [Savers -> SaverRows] /\ saved \in BOOLEAN /\ SavedIsUsable
  /\ \A x \in Savers : saver[x].pc = "write" =>
       /\ saver[x].input \in MailInputs
       /\ ValidMail(With(saver[x].input, saver[x].change = "set" \/ (saver[x].change = "keep" /\ saver[x].password)))

MailInv == DialogsHold /\ SaversHold

LEMMA MailInitInv == MailInit => MailInv
<1> SUFFICES ASSUME MailInit PROVE MailInv OBVIOUS
<1>1. mailSetting \in StoredSettings /\ ValidMail(mailSetting) BY MailAssumption DEF MailInit
<1>2. NoDialog \in DialogRows /\ NoDialog.pc = "idle" /\ NoDialog.told = "nothing"
  BY DEF NoDialog, DialogRows, DialogPlaces
<1>3. Spoken(NoDialog) BY <1>2 DEF Spoken
<1>4. DialogsHold BY <1>2, <1>3 DEF MailInit, DialogsHold
<1>5. NoSaver \in SaverRows /\ NoSaver.pc = "idle" BY DEF NoSaver, SaverRows
<1>6. SaversHold BY <1>1, <1>5 DEF MailInit, SaversHold, SavedIsUsable
<1> QED BY <1>4, <1>6 DEF MailInv

LEMMA SaversStep ==
  ASSUME SaversHold, [MailNext]_mailVars
  PROVE  SaversHold'
<1>1. /\ mailSetting \in StoredSettings /\ saver \in [Savers -> SaverRows] /\ saved \in BOOLEAN
      /\ (ValidMail(mailSetting) \/ saved)
  BY DEF SaversHold, SavedIsUsable
<1>2. \A input \in MailInputs, p \in BOOLEAN : With(input, p) \in StoredSettings
  BY MailAssumption DEF With, StoredSettings
<1>3. CASE UNCHANGED <<mailSetting, saver, saved>> BY <1>3 DEF SaversHold, SavedIsUsable
<1>4. ASSUME NEW x \in Savers, NEW input \in MailInputs, NEW change \in {"keep", "set", "clear"}, ReadsSettings(x, input, change)
      PROVE  SaversHold'
  <2> DEFINE row == [pc |-> "write", input |-> input, password |-> mailSetting.password, change |-> change]
  <2>1. row \in SaverRows BY <1>1 DEF SaverRows, StoredSettings
  <2>2. /\ ValidMail(With(input, change = "set" \/ (change = "keep" /\ mailSetting.password)))
        /\ saver' = [saver EXCEPT ![x] = row] /\ UNCHANGED <<mailSetting, saved>>
    BY <1>4 DEF ReadsSettings
  <2>3. row.input = input /\ row.password = mailSetting.password /\ row.change = change OBVIOUS
  <2> HIDE DEF row
  <2>4. saver' \in [Savers -> SaverRows] /\ saver'[x] = row /\ \A y \in Savers \ {x} : saver'[y] = saver[y]
    BY <1>1, <2>1, <2>2
  <2>5. ASSUME NEW y \in Savers, saver'[y].pc = "write"
        PROVE  /\ saver'[y].input \in MailInputs
               /\ ValidMail(With(saver'[y].input, saver'[y].change = "set" \/ (saver'[y].change = "keep" /\ saver'[y].password)))
    <3>1. CASE y = x BY <2>2, <2>3, <2>4, <3>1
    <3>2. CASE y # x BY <2>4, <3>2, <2>5 DEF SaversHold
    <3> QED BY <3>1, <3>2
  <2> QED BY <1>1, <2>2, <2>4, <2>5 DEF SaversHold, SavedIsUsable
<1>5. ASSUME NEW x \in Savers, WritesSettings(x) PROVE SaversHold'
  <2> DEFINE w == saver[x]
             stays == CASE w.change = "set" -> TRUE [] w.change = "clear" -> FALSE [] OTHER -> mailSetting.password
             before == w.change = "set" \/ (w.change = "keep" /\ w.password)
  <2>1. w \in SaverRows /\ w.input \in MailInputs /\ ValidMail(With(w.input, before)) BY <1>5 DEF WritesSettings, SaversHold
  <2>2. /\ mailSetting' = With(w.input, stays) /\ saver' = [saver EXCEPT ![x] = NoSaver]
        /\ saved' = (saved \/ (w.change = "keep" /\ w.password # mailSetting.password))
    BY <1>5 DEF WritesSettings
  <2>3. w.change \in {"keep", "set", "clear"} /\ w.password \in BOOLEAN BY <2>1 DEF SaverRows
  <2>4. mailSetting.password \in BOOLEAN BY <1>1 DEF StoredSettings
  <2>5. stays \in BOOLEAN BY <2>3, <2>4
  <2>6. (w.change = "keep" /\ w.password # mailSetting.password) \/ stays = before BY <2>3, <2>4
  <2> HIDE DEF stays, before
  <2>7. mailSetting' \in StoredSettings /\ saved' \in BOOLEAN BY <1>1, <1>2, <2>1, <2>2, <2>5
  <2>8. ValidMail(mailSetting') \/ saved' BY <2>1, <2>2, <2>6
  <2>9. NoSaver \in SaverRows /\ NoSaver.pc = "idle" BY DEF NoSaver, SaverRows
  <2>10. saver' \in [Savers -> SaverRows] /\ saver'[x].pc = "idle" /\ \A y \in Savers \ {x} : saver'[y] = saver[y]
    BY <1>1, <2>2, <2>9
  <2>11. ASSUME NEW y \in Savers, saver'[y].pc = "write"
         PROVE  /\ saver'[y].input \in MailInputs
                /\ ValidMail(With(saver'[y].input, saver'[y].change = "set" \/ (saver'[y].change = "keep" /\ saver'[y].password)))
    BY <2>10, <2>11 DEF SaversHold
  <2> QED BY <2>7, <2>8, <2>10, <2>11 DEF SaversHold, SavedIsUsable
<1>6. ASSUME NEW d \in Mailers,
             \/ \E webhook, test \in BOOLEAN : Deliver1(d, webhook, test)
             \/ Connect(d) \/ Quit(d) \/ TimesOut(d) \/ Forget(d)
             \/ \E arrives, answered \in BOOLEAN : Webhook(d, arrives, answered)
             \/ \E reply \in Replies :
                  Command(d, reply) \/ \E yes \in BOOLEAN : StartTls(d, reply, yes) \/ Body1(d, reply, yes)
      PROVE  UNCHANGED <<mailSetting, saver, saved>>
  BY <1>6 DEF Deliver1, Connect, Quit, TimesOut, Forget, Webhook, Command, StartTls, Body1, DialogOnly
<1> QED BY <1>3, <1>4, <1>5, <1>6 DEF MailNext, mailVars

LEMMA DialogsStep ==
  ASSUME MailInv, [MailNext]_mailVars
  PROVE  DialogsHold'
<1>1. dialog \in [Mailers -> DialogRows] /\ \A d \in Mailers : Spoken(dialog[d]) BY DEF MailInv, DialogsHold
<1>2. CASE UNCHANGED dialog BY <1>2 DEF MailInv, DialogsHold
<1>3. ASSUME NEW d \in Mailers, NEW row \in DialogRows, Sets(d, row), Spoken(row) PROVE DialogsHold'
  <2>1. dialog' = [dialog EXCEPT ![d] = row] BY <1>3 DEF Sets
  <2>2. dialog' \in [Mailers -> DialogRows] BY <1>1, <2>1
  <2>3. \A e \in Mailers : Spoken(dialog'[e])
    <3>1. dialog'[d] = row /\ \A e \in Mailers \ {d} : dialog'[e] = dialog[e] BY <1>1, <2>1
    <3>2. ASSUME NEW e \in Mailers PROVE Spoken(dialog'[e])
      <4>1. CASE e = d BY <1>3, <3>1, <4>1
      <4>2. CASE e # d BY <3>1, <4>2, <1>1
      <4> QED BY <4>1, <4>2
    <3> QED BY <3>2
  <2> QED BY <2>2, <2>3 DEF DialogsHold, Spoken
<1>4. ASSUME NEW d \in Mailers, NEW how \in {"sent", "failed"}, Tell(d, how),
             how = "sent" => dialog[d].accepted \/ dialog[d].test
      PROVE  DialogsHold'
  <2> DEFINE row == [dialog[d] EXCEPT !.pc = "told", !.told = how]
  <2>1. dialog[d] \in DialogRows BY <1>1
  <2>2. row \in DialogRows /\ row.pc = "told" /\ row.told = how /\ row.accepted = dialog[d].accepted /\ row.test = dialog[d].test
    BY <2>1 DEF DialogRows, DialogPlaces
  <2>3. Sets(d, row) BY <1>1, <1>4 DEF Tell, Sets
  <2> HIDE DEF row
  <2>4. Spoken(row) BY <1>4, <2>2 DEF Spoken
  <2> QED BY <1>3, <2>2, <2>3, <2>4
<1>5. ASSUME NEW d \in Mailers, NEW pc \in DialogPlaces \ {"idle", "told"}, Next1(d, pc), dialog[d].pc \notin {"idle", "told"},
             pc = "quit" => dialog[d].test,
             dialog[d].via = "smtp" /\ pc \in {"greeting", "ehlo", "starttls"} =>
               \A s \in dialog[d].setting : s.security = "implicit_tls" => dialog[d].secure,
             dialog[d].via = "smtp" /\ pc \in {"auth", "password", "from", "recipient", "data", "body"} =>
               \A s \in dialog[d].setting : dialog[d].secure \/ s.security = "plain"
      PROVE  DialogsHold'
  <2> DEFINE row == [dialog[d] EXCEPT !.pc = pc]
  <2>1. dialog[d] \in DialogRows /\ Spoken(dialog[d]) BY <1>1
  <2>2. row \in DialogRows BY <2>1 DEF DialogRows
  <2>3. /\ row.pc = pc /\ row.told = dialog[d].told /\ row.accepted = dialog[d].accepted /\ row.test = dialog[d].test
        /\ row.via = dialog[d].via /\ row.setting = dialog[d].setting /\ row.secure = dialog[d].secure
    BY <2>1 DEF DialogRows
  <2>4. Sets(d, row) BY <1>1, <1>5 DEF Next1, Sets
  <2> HIDE DEF row
  <2>5. row.pc \notin {"idle", "told"} /\ row.via = "smtp" => \E s \in StoredSettings : row.setting = {s} /\ ValidMail(s)
    BY <1>5, <2>1, <2>3 DEF Spoken
  <2>6. row.told # "sent" BY <1>5, <2>1, <2>3 DEF Spoken
  <2>7. Spoken(row) BY <1>5, <2>3, <2>5, <2>6 DEF Spoken
  <2> QED BY <1>3, <2>2, <2>4, <2>7
<1>6. ASSUME NEW d \in Mailers, NEW webhook \in BOOLEAN, NEW test \in BOOLEAN, Deliver1(d, webhook, test) PROVE DialogsHold'
  <2> DEFINE s == mailSetting
             smtp == test \/ s.mode = "smtp" \/ (s.mode = "auto" /\ ~webhook)
             goes == (smtp /\ SmtpConfigured(s) /\ ValidMail(s)) \/ (~smtp /\ webhook)
             row == [NoDialog EXCEPT !.setting = {s}, !.via = IF smtp THEN "smtp" ELSE "webhook", !.test = test,
                       !.pc = IF goes THEN "connect" ELSE "told", !.told = IF goes THEN "nothing" ELSE "failed"]
  <2>1. mailSetting \in StoredSettings BY DEF MailInv, SaversHold
  <2>2. row \in DialogRows BY <2>1 DEF NoDialog, DialogRows, DialogPlaces
  <2>3. row.pc \in {"connect", "told"} /\ row.told # "sent" /\ row.setting = {s} BY DEF NoDialog
  <2>4. row.via = "smtp" /\ row.pc = "connect" => ValidMail(s) BY DEF NoDialog
  <2>5. Sets(d, row) BY <1>6 DEF Deliver1
  <2> HIDE DEF row
  <2>6. Spoken(row) BY <2>1, <2>3, <2>4 DEF Spoken
  <2> QED BY <1>3, <2>2, <2>5, <2>6
<1>7. ASSUME NEW d \in Mailers, NEW arrives \in BOOLEAN, NEW answered \in BOOLEAN, Webhook(d, arrives, answered) PROVE DialogsHold'
  <2> DEFINE row == [dialog[d] EXCEPT !.pc = "told", !.accepted = arrives, !.told = IF answered THEN "sent" ELSE "failed"]
  <2>1. dialog[d] \in DialogRows BY <1>1
  <2>2. row \in DialogRows /\ row.pc = "told" /\ row.accepted = arrives /\ row.told = (IF answered THEN "sent" ELSE "failed")
    BY <2>1 DEF DialogRows, DialogPlaces
  <2>3. Sets(d, row) /\ (answered => arrives) BY <1>7 DEF Webhook
  <2> HIDE DEF row
  <2>4. Spoken(row) BY <2>2, <2>3 DEF Spoken
  <2> QED BY <1>3, <2>2, <2>3, <2>4
<1>8. ASSUME NEW d \in Mailers, dialog[d].pc \notin {"idle", "told"}, dialog[d].via = "smtp"
      PROVE  /\ Setting(d) \in StoredSettings /\ dialog[d].setting = {Setting(d)} /\ ValidMail(Setting(d))
             /\ dialog[d].pc \in {"greeting", "ehlo", "starttls"} /\ Setting(d).security = "implicit_tls" => dialog[d].secure
  BY <1>1, <1>8 DEF Spoken, Setting
<1>9. ASSUME NEW d \in Mailers, Connect(d) PROVE DialogsHold'
  <2> DEFINE row == [dialog[d] EXCEPT !.pc = "greeting", !.secure = Setting(d).security = "implicit_tls"]
  <2>1. dialog[d] \in DialogRows /\ Spoken(dialog[d]) BY <1>1
  <2>2. dialog[d].pc = "connect" /\ dialog[d].via = "smtp" /\ Sets(d, row) BY <1>9 DEF Connect
  <2>3. row \in DialogRows BY <2>1 DEF DialogRows, DialogPlaces
  <2>4. /\ row.pc = "greeting" /\ row.told = dialog[d].told /\ row.via = "smtp" /\ row.setting = dialog[d].setting
        /\ row.secure = (Setting(d).security = "implicit_tls")
    BY <2>1, <2>2 DEF DialogRows
  <2>5. Setting(d) \in StoredSettings /\ dialog[d].setting = {Setting(d)} /\ ValidMail(Setting(d)) BY <1>8, <2>2
  <2>6. row.told # "sent" BY <2>1, <2>2, <2>4 DEF Spoken
  <2> HIDE DEF row
  <2>7. Spoken(row) BY <2>4, <2>5, <2>6 DEF Spoken
  <2> QED BY <1>3, <2>2, <2>3, <2>7
<1>10. ASSUME NEW d \in Mailers, NEW reply \in Replies, NEW offers \in BOOLEAN, StartTls(d, reply, offers) PROVE DialogsHold'
  <2> DEFINE row == [dialog[d] EXCEPT !.pc = "ehlo", !.secure = TRUE]
  <2>1. dialog[d] \in DialogRows /\ Spoken(dialog[d]) /\ dialog[d].pc = "starttls" BY <1>1, <1>10 DEF StartTls
  <2>2. CASE Tell(d, "failed") BY <1>4, <2>2
  <2>3. CASE Sets(d, row) BY <2>1, <1>3, <2>3 DEF DialogRows, DialogPlaces, Spoken
  <2> QED BY <1>10, <2>2, <2>3 DEF StartTls
<1>11. ASSUME NEW d \in Mailers, NEW reply \in Replies, Command(d, reply) PROVE DialogsHold'
  <2>1. CASE ~Expected(d, reply) BY <1>4, <1>11, <2>1 DEF Command
  <2>2. CASE Expected(d, reply)
    <3> DEFINE pc == CASE dialog[d].pc = "data" -> "body"
                       [] dialog[d].pc = "auth" /\ reply = "3" -> "password"
                       [] OTHER -> After(d)
    <3>1. Next1(d, pc) /\ dialog[d].pc \in {"greeting", "ehlo", "auth", "password", "from", "recipient", "data"}
      BY <1>11, <2>2 DEF Command
    <3>2. pc \in DialogPlaces \ {"idle", "told"} /\ (pc = "quit" => dialog[d].test)
          /\ (pc \in {"greeting", "ehlo"} => dialog[d].pc = "greeting")
          /\ (pc = "starttls" => dialog[d].pc = "ehlo")
          /\ (pc \in {"auth", "password", "from", "recipient", "data", "body"} =>
                \/ dialog[d].pc \in {"auth", "password", "from", "recipient", "data"}
                \/ dialog[d].pc = "ehlo" /\ ~(Setting(d).security = "starttls" /\ ~dialog[d].secure))
      BY <3>1 DEF After, AfterEhlo, AfterAuth, DialogPlaces
    <3> HIDE DEF pc
    <3>3. dialog[d].via = "smtp" /\ pc \in {"greeting", "ehlo", "starttls"} =>
            \A s \in dialog[d].setting : s.security = "implicit_tls" => dialog[d].secure
      BY <1>1, <3>2 DEF Spoken
    <3>4. dialog[d].via = "smtp" /\ pc \in {"auth", "password", "from", "recipient", "data", "body"} =>
            \A s \in dialog[d].setting : dialog[d].secure \/ s.security = "plain"
      <4>1. CASE dialog[d].pc \in {"auth", "password", "from", "recipient", "data"} BY <1>1, <4>1 DEF Spoken
      <4>2. CASE dialog[d].via = "smtp" /\ dialog[d].pc = "ehlo" /\ ~(Setting(d).security = "starttls" /\ ~dialog[d].secure)
        BY <1>8, <4>2 DEF StoredSettings, MailSecurity
      <4> QED BY <3>2, <4>1, <4>2
    <3> QED BY <1>5, <3>1, <3>2, <3>3, <3>4
  <2> QED BY <2>1, <2>2
<1>12. ASSUME NEW d \in Mailers, NEW reply \in Replies, NEW taken \in BOOLEAN, Body1(d, reply, taken) PROVE DialogsHold'
  <2> DEFINE row == [dialog[d] EXCEPT !.accepted = taken, !.pc = IF Accepted(d, reply) THEN "quit" ELSE "told",
                                     !.told = IF Accepted(d, reply) THEN "nothing" ELSE "failed"]
  <2>1. dialog[d] \in DialogRows /\ Spoken(dialog[d]) BY <1>1
  <2>2. dialog[d].pc = "body" /\ Sets(d, row) /\ (Accepted(d, reply) => taken) BY <1>12 DEF Body1, Accepted
  <2>3. row \in DialogRows BY <2>1 DEF DialogRows, DialogPlaces
  <2>4. /\ row.pc = (IF Accepted(d, reply) THEN "quit" ELSE "told") /\ row.told # "sent" /\ row.via = dialog[d].via
        /\ row.setting = dialog[d].setting /\ row.accepted = taken
    BY <2>1 DEF DialogRows
  <2> HIDE DEF row
  <2>5. Spoken(row) BY <2>1, <2>2, <2>4 DEF Spoken
  <2> QED BY <1>3, <2>2, <2>3, <2>5
<1>13. ASSUME NEW d \in Mailers, Quit(d) PROVE DialogsHold' BY <1>1, <1>13, <1>4 DEF Quit, Spoken
<1>14. ASSUME NEW d \in Mailers, TimesOut(d) PROVE DialogsHold'
  <2>1. PICK taken \in BOOLEAN : Sets(d, [dialog[d] EXCEPT !.pc = "told", !.told = "failed", !.accepted = taken])
    BY <1>14 DEF TimesOut
  <2> DEFINE row == [dialog[d] EXCEPT !.pc = "told", !.told = "failed", !.accepted = taken]
  <2>2. dialog[d] \in DialogRows BY <1>1
  <2>3. row \in DialogRows /\ row.pc = "told" /\ row.told = "failed" BY <2>2 DEF DialogRows, DialogPlaces
  <2>4. Sets(d, row) BY <2>1
  <2> HIDE DEF row
  <2>5. Spoken(row) BY <2>3 DEF Spoken
  <2> QED BY <1>3, <2>3, <2>4, <2>5
<1>15. ASSUME NEW d \in Mailers, Forget(d) PROVE DialogsHold'
  BY <1>3, <1>15 DEF NoDialog, DialogRows, DialogPlaces, Spoken, Forget
<1>16. ASSUME NEW x \in Savers,
             WritesSettings(x) \/ \E input \in MailInputs, change \in {"keep", "set", "clear"} : ReadsSettings(x, input, change)
       PROVE UNCHANGED dialog
  BY <1>16 DEF WritesSettings, ReadsSettings
<1> QED BY <1>2, <1>6, <1>7, <1>9, <1>10, <1>11, <1>12, <1>13, <1>14, <1>15, <1>16 DEF MailNext, mailVars

LEMMA MailInvSafe == MailInv => MailSafe
<1> SUFFICES ASSUME MailInv PROVE MailSafe OBVIOUS
<1>1. \A d \in Mailers : dialog[d] \in DialogRows /\ Spoken(dialog[d]) BY DEF MailInv, DialogsHold
<1>2. MailTypeOK BY <1>1 DEF MailInv, SaversHold, MailTypeOK, StoredSettings, DialogRows
<1>3. SentWasAccepted BY <1>1 DEF SentWasAccepted, Spoken
<1>4. SpokenInPrivate BY <1>1 DEF SpokenInPrivate, Spoken, Setting, ValidMail
<1> QED BY <1>2, <1>3, <1>4 DEF MailInv, SaversHold, MailSafe

\* For any messages, saves, settings and replies: what is told as sent was
\* accepted, a user name or a message is sent over TLS or to this host, and what
\* was saved can be used (mail.rs).
THEOREM MailCorrect == MailSpec => []MailSafe
<1>1. MailInit => MailInv BY MailInitInv
<1>2. MailInv /\ [MailNext]_mailVars => MailInv' BY SaversStep, DialogsStep DEF MailInv
<1>3. MailInv => MailSafe BY MailInvSafe
<1> QED BY <1>1, <1>2, <1>3, PTL DEF MailSpec

-----------------------------------------------------------------------------
(*                           The lists of models                           *)

RowMaps == UNION {[S -> Credentials] : S \in SUBSET Sources}
Listed(c) == Normalized(UpstreamSays[c])
ListEntries == UNION {Listed(c) : c \in Credentials}
Withs == [attempts : {0, 1, 2}, ticks : {0, 1, 2}]
ListPlaces == {"idle", "select", "keep", "pick", "look", "fetch", "insert", "cool", "rest", "clear", "next", "resolve",
               "collect", "told"}
ListerRows ==
  [pc : ListPlaces, catalog : BOOLEAN, allowed : {{}, {"m1"}}, with : Withs, attempt : Nat, tried : SUBSET Sources,
   rows : RowMaps, account : Sources \cup {0}, list : SUBSET ListEntries, models : SUBSET {e.model : e \in ListEntries},
   used : SUBSET Credentials, told : {"nothing", "listed", "failed"}, logged : {0, 1}]
KeeperShapes ==
  [pc : {"idle", "forget", "invalidate", "apply"}, op : Operations, account : Sources \cup {0}, with : Withs, raced : BOOLEAN]
KeeperRows ==
  {row \in KeeperShapes : /\ row.pc = "apply" => row.with \in Settings
                          /\ row.pc \in {"forget", "invalidate"} => row.account \in Sources}
CacheRows == [list : SUBSET ListEntries, of : Credentials, age : Nat]

\* The models of the accounts that have answered a catalogue so far.
Gathered(used) == UNION {ListedModels(Listed(c)) : c \in used}

\* What a request knows at each of its places.
ListerKnows(q) ==
  /\ q.catalog => q.pc \in {"next", "look", "resolve", "fetch", "insert", "collect", "told"}
                  /\ DOMAIN q.rows = Sources /\ q.logged = 0
  /\ ~q.catalog => /\ q.pc \notin {"next", "resolve", "collect"} /\ q.attempt <= q.with.attempts
                   /\ q.pc \in {"keep", "pick"} => q.attempt # q.with.attempts
  /\ q.pc \in {"look", "fetch", "insert", "cool", "rest", "clear", "resolve", "collect"} => q.account \in DOMAIN q.rows
  /\ q.pc # "told" => q.told = "nothing"
  /\ q.pc \in {"insert", "clear"} => q.list = Listed(q.rows[q.account]) /\ q.rows[q.account] \in q.used
  /\ q.catalog /\ q.pc \in {"next", "look", "resolve", "fetch"} => q.models = Gathered(q.used)
  /\ q.catalog /\ q.pc \in {"insert", "collect"} => q.models \cup ListedModels(q.list) = Gathered(q.used)
  /\ q.told = "listed" =>
       /\ q.catalog => q.models = Gathered(q.used)
       /\ ~q.catalog => q.logged = 1 /\ \E c \in q.used : q.list = Shown(Listed(c), q.allowed)

ListTypes ==
  /\ credential \in [Sources -> Credentials] /\ resting \subseteq Sources /\ rowsKept \subseteq RowMaps
  /\ DOMAIN listCache \subseteq Sources /\ \A a \in DOMAIN listCache : listCache[a] \in CacheRows
  /\ kept \in Settings /\ running \in Settings
  /\ keeper \in [Keepers -> KeeperRows] /\ lister \in [Listers -> ListerRows] /\ settled \subseteq Sources
  /\ overlaid \in BOOLEAN

ListersKnow == \A l \in Listers : ListerKnows(lister[l])
CacheKnows == \A a \in DOMAIN listCache : listCache[a].list = Listed(listCache[a].of)

LEMMA LeastSource == ASSUME NEW S \in SUBSET Sources, S # {} PROVE Least(S) \in S
<1>1. S \subseteq Nat BY ListAssumption
<1>2. PICK m \in S : \A n \in S : ~(<<n, m>> \in OpToRel(<, Nat)) BY <1>1, NatLessThanWellFounded, WFMin
<1>3. \A n \in S : ~(n < m) BY <1>1, <1>2 DEF OpToRel
<1>4. \A n \in S : m <= n BY <1>1, <1>3
<1> QED BY <1>4 DEF Least

LEMMA RowsTyped == ASSUME NEW rows \in RowMaps
                   PROVE  DOMAIN rows \subseteq Sources /\ \A a \in DOMAIN rows : rows[a] \in Credentials
BY DEF RowMaps

LEMMA NewRows == ASSUME ListTypes PROVE credential \in RowMaps /\ \A S \in SUBSET Sources : [a \in S |-> credential[a]] \in RowMaps
BY DEF ListTypes, RowMaps

LEMMA ListedTyped == ASSUME NEW c \in Credentials PROVE Listed(c) \in SUBSET ListEntries
BY DEF ListEntries

LEMMA ShownTyped == ASSUME NEW list \in SUBSET ListEntries, NEW allowed
                    PROVE Shown(list, allowed) \in SUBSET ListEntries
BY DEF Shown

LEMMA ModelsTyped == ASSUME NEW list \in SUBSET ListEntries PROVE ListedModels(list) \in SUBSET {e.model : e \in ListEntries}
BY DEF ListedModels

LEMMA GatheredMore == ASSUME NEW used, NEW c PROVE Gathered(used \cup {c}) = Gathered(used) \cup ListedModels(Listed(c))
BY DEF Gathered

LEMMA NobodyYet ==
  /\ NoLister \in ListerRows /\ ListerKnows(NoLister) /\ NoLister.pc = "idle"
  /\ NoKeeper \in KeeperRows /\ NoKeeper.pc = "idle"
<1>1. [a \in {} |-> 0] \in [{} -> Credentials] OBVIOUS
<1>2. [a \in {} |-> 0] \in RowMaps BY <1>1 DEF RowMaps
<1>3. NoLister \in ListerRows BY <1>2 DEF NoLister, ListerRows, ListPlaces, Withs
<1>4. ListerKnows(NoLister) BY DEF NoLister, ListerKnows
<1> QED BY <1>3, <1>4 DEF NoLister, NoKeeper, KeeperRows, KeeperShapes, Operations, Withs

LEMMA SettingsAreWiths == Settings \subseteq Withs
BY DEF Settings, Withs

\* Whose rows a request has: its own from before, the snapshot, or fresh ones.
RowsFrom(l, next) ==
  \/ next.pc \in {"idle", "told"}
  \/ next.rows = lister[l].rows /\ lister[l].pc \notin {"idle", "told"}
  \/ next.rows \in rowsKept
  \/ \A a \in DOMAIN next.rows : next.rows[a] = credential[a]
NextLister(l, next) ==
  /\ next \in ListerRows /\ ListerKnows(next) /\ RowsFrom(l, next)
  /\ lister' = [lister EXCEPT ![l] = next]

LEMMA EndsKnown ==
  ASSUME NEW l \in Listers, NEW q \in ListerRows, q.told = "nothing", q.catalog => DOMAIN q.rows = Sources /\ q.logged = 0,
         ~q.catalog => q.attempt <= q.with.attempts,
         NEW how \in {"listed", "failed"}, Ends(l, how, q),
         how = "listed" => /\ q.catalog => q.models = Gathered(q.used)
                           /\ ~q.catalog => q.logged = 1 /\ \E c \in q.used : q.list = Shown(Listed(c), q.allowed)
  PROVE  \E next : NextLister(l, next)
<1> DEFINE next == [q EXCEPT !.pc = "told", !.told = how]
<1>1. next \in ListerRows BY DEF ListerRows, ListPlaces
<1>2. ListerKnows(next) BY DEF ListerRows, ListerKnows
<1>3. next.pc = "told" BY DEF ListerRows
<1>4. lister' = [lister EXCEPT ![l] = next] BY DEF Ends, Goes
<1> HIDE DEF next
<1> QED BY <1>1, <1>2, <1>3, <1>4 DEF NextLister, RowsFrom

LEMMA ListersBegin ==
  ASSUME ListTypes, NEW l \in Listers,
         CatalogRows(l) \/ \E allowed \in {{}, {"m1"}} : Begins1(l, allowed)
  PROVE  \E next : NextLister(l, next)
<1>1. running \in Withs BY SettingsAreWiths DEF ListTypes
<1>2. credential \in RowMaps /\ DOMAIN credential = Sources BY NewRows DEF ListTypes
<1>3. CASE CatalogRows(l)
  <2> DEFINE next == [NoLister EXCEPT !.pc = "next", !.catalog = TRUE, !.with = running, !.rows = credential]
  <2>1. next \in ListerRows BY <1>1, <1>2, NobodyYet DEF ListerRows, ListPlaces
  <2>2. Gathered({}) = {} BY DEF Gathered
  <2>3. ListerKnows(next) BY <1>2, <2>2 DEF NoLister, ListerKnows
  <2>4. next.rows = credential BY DEF NoLister
  <2>5. lister' = [lister EXCEPT ![l] = next] BY <1>3 DEF CatalogRows, Goes
  <2> HIDE DEF next
  <2> QED BY <2>1, <2>3, <2>4, <2>5 DEF NextLister, RowsFrom
<1>4. ASSUME NEW allowed \in {{}, {"m1"}}, Begins1(l, allowed) PROVE \E next : NextLister(l, next)
  <2> DEFINE next == [NoLister EXCEPT !.pc = "select", !.allowed = allowed, !.with = running]
  <2>1. next \in ListerRows BY <1>1, NobodyYet DEF ListerRows, ListPlaces
  <2>2. 0 <= running.attempts BY <1>1 DEF Withs
  <2>3. ListerKnows(next) BY <2>2 DEF NoLister, ListerKnows
  <2>4. DOMAIN next.rows = {} BY DEF NoLister
  <2>5. lister' = [lister EXCEPT ![l] = next] BY <1>4 DEF Begins1, Goes
  <2> HIDE DEF next
  <2> QED BY <2>1, <2>3, <2>4, <2>5 DEF NextLister, RowsFrom
<1> QED BY <1>3, <1>4

LEMMA ModelsLoop ==
  ASSUME ListTypes, ListersKnow, NEW l \in Listers, SelectRows(l) \/ KeepRows(l) \/ PickSource(l)
  PROVE  \E next : NextLister(l, next)
<1> DEFINE q == lister[l]
<1>0. q \in ListerRows /\ ListerKnows(q) BY SMTT(30) DEF ListTypes, ListersKnow
<1>1. q.pc \in {"select", "keep", "pick"} BY DEF SelectRows, KeepRows, PickSource, At
<1>2. ~q.catalog /\ q.told = "nothing" /\ q.attempt <= q.with.attempts BY <1>0, <1>1 DEF ListerKnows
<1>3. CASE Ends(l, "failed", q) BY <1>0, <1>2, <1>3, EndsKnown
<1>4. ASSUME NEW rows \in RowMaps, NEW pc \in {"keep", "pick"}, q.attempt # q.with.attempts,
             Goes(l, [q EXCEPT !.pc = pc, !.rows = rows]),
             rows \in rowsKept \/ \A a \in DOMAIN rows : rows[a] = credential[a]
      PROVE  \E next : NextLister(l, next)
  BY <1>0, <1>2, <1>4 DEF ListerRows, ListPlaces, ListerKnows, Goes, NextLister, RowsFrom
<1>5. CASE SelectRows(l)
  <2>1. CASE q.attempt = q.with.attempts BY <1>3, <1>5, <2>1 DEF SelectRows
  <2>2. CASE q.attempt # q.with.attempts
    <3>1. ASSUME NEW rows \in rowsKept, Goes(l, [q EXCEPT !.pc = "pick", !.rows = rows]) PROVE \E next : NextLister(l, next)
      BY <1>4, <2>2, <3>1 DEF ListTypes
    <3>2. PICK rows : rows = [a \in Sources \ resting |-> credential[a]] OBVIOUS
    <3>3. rows \in RowMaps BY <3>2, NewRows
    <3>4. \A a \in DOMAIN rows : rows[a] = credential[a] BY <3>2
    <3>5. ASSUME Goes(l, [q EXCEPT !.pc = "keep", !.rows = rows]) PROVE \E next : NextLister(l, next)
      BY <1>4, <2>2, <3>3, <3>4, <3>5
    <3> QED BY ZenonT(60), <1>5, <2>2, <3>1, <3>2, <3>5 DEF SelectRows
  <2> QED BY <2>1, <2>2
<1>6. CASE KeepRows(l)
  <2> DEFINE next == [q EXCEPT !.pc = "pick"]
  <2>0. q.pc = "keep" BY <1>6 DEF KeepRows, At
  <2>1. next \in ListerRows BY <1>0 DEF ListerRows, ListPlaces
  <2>2. ListerKnows(next) BY <1>0, <1>2, <2>0 DEF ListerRows, ListerKnows
  <2>3. next.rows = q.rows BY <1>0 DEF ListerRows
  <2>4. lister' = [lister EXCEPT ![l] = next] BY SMTT(30), <1>6 DEF KeepRows, Goes
  <2> HIDE DEF next
  <2> QED BY <2>0, <2>1, <2>2, <2>3, <2>4 DEF NextLister, RowsFrom
<1>7. CASE PickSource(l)
  <2>0. q.pc = "pick" BY <1>7 DEF PickSource, At
  <2>1. ASSUME NEW a \in DOMAIN q.rows \ q.tried,
               Goes(l, [q EXCEPT !.pc = "look", !.account = a, !.tried = @ \cup {a}, !.attempt = @ + 1])
        PROVE  \E next : NextLister(l, next)
    <3> DEFINE next == [q EXCEPT !.pc = "look", !.account = a, !.tried = @ \cup {a}, !.attempt = @ + 1]
    <3>1. a \in Sources BY <1>0, RowsTyped DEF ListerRows
    <3>7. q.attempt + 1 \in Nat BY <1>0 DEF ListerRows
    <3>2. next \in ListerRows BY <1>0, <3>1, <3>7 DEF ListerRows, ListPlaces
    <3>3. q.attempt + 1 <= q.with.attempts BY <1>0, <1>2, <2>0 DEF ListerRows, Withs, ListerKnows
    <3>4. ListerKnows(next) BY <1>0, <1>2, <3>3 DEF ListerRows, ListerKnows
    <3>5. next.rows = q.rows BY <1>0 DEF ListerRows
    <3>6. lister' = [lister EXCEPT ![l] = next] BY <2>1 DEF Goes
    <3> HIDE DEF next
    <3> QED BY <2>0, <3>2, <3>4, <3>5, <3>6 DEF NextLister, RowsFrom
  <2> QED BY <1>3, <1>7, <2>1 DEF PickSource
<1> QED BY <1>5, <1>6, <1>7
LEMMA LooksUp ==
  ASSUME ListTypes, ListersKnow, CacheKnows, NEW l \in Listers, LookIntoCache(l)
  PROVE  \E next : NextLister(l, next)
<1> DEFINE q == lister[l]
           a == q.account
<1>0. q \in ListerRows /\ ListerKnows(q) BY DEF ListTypes, ListersKnow
<1>1. q.pc = "look" /\ q.told = "nothing" BY <1>0 DEF LookIntoCache, At, ListerKnows
<1>2. CASE InListCache(l, a)
  <2> DEFINE c == listCache[a].of
  <2>1. c \in Credentials /\ listCache[a].list = Listed(c) BY <1>2 DEF InListCache, ListTypes, CacheKnows, CacheRows
  <2>2. Listed(c) \in SUBSET ListEntries BY <2>1, ListedTyped
  <2>3. CASE q.catalog
    <3> DEFINE next == [q EXCEPT !.pc = "collect", !.list = Listed(c), !.used = @ \cup {c}]
    <3>1. next \in ListerRows BY <1>0, <2>1, <2>2 DEF ListerRows, ListPlaces
    <3>2. q.models \cup ListedModels(Listed(c)) = Gathered(q.used \cup {c})
      <4>1. q.models = Gathered(q.used) BY <1>0, <1>1, <2>3 DEF ListerKnows
      <4>2. Gathered(q.used \cup {c}) = Gathered(q.used) \cup ListedModels(Listed(c)) BY GatheredMore
      <4> QED BY <4>1, <4>2
    <3>3. /\ next.pc = "collect" /\ next.list = Listed(c) /\ next.used = q.used \cup {c} /\ next.rows = q.rows
          /\ next.account = q.account /\ next.catalog = q.catalog /\ next.models = q.models /\ next.told = q.told
          /\ next.logged = q.logged
      BY <1>0 DEF ListerRows
    <3>4. lister' = [lister EXCEPT ![l] = next] BY <1>2, <2>1, <2>3 DEF LookIntoCache, Goes
    <3> HIDE DEF next, c
    <3>5. ListerKnows(next) BY <1>0, <1>1, <2>3, <3>2, <3>3 DEF ListerKnows
    <3> QED BY <1>1, <3>1, <3>3, <3>4, <3>5 DEF NextLister, RowsFrom
  <2>4. CASE ~q.catalog
    <3> DEFINE r == [q EXCEPT !.list = Shown(Listed(c), q.allowed), !.used = {c}, !.logged = 1]
    <3>1. Shown(Listed(c), q.allowed) \in SUBSET ListEntries BY <2>2, ShownTyped
    <3>2. r \in ListerRows BY <1>0, <2>1, <3>1 DEF ListerRows
    <3>3. /\ r.list = Shown(Listed(c), q.allowed) /\ r.used = {c} /\ r.logged = 1 /\ r.catalog = q.catalog /\ r.told = q.told
          /\ r.attempt = q.attempt /\ r.with = q.with /\ r.allowed = q.allowed
      BY <1>0 DEF ListerRows
    <3>4. Ends(l, "listed", r) BY <1>2, <2>1, <2>4 DEF LookIntoCache
    <3> HIDE DEF r, c
    <3>5. q.attempt <= q.with.attempts BY <1>0, <2>4 DEF ListerKnows
    <3>6. ~r.catalog /\ r.told = "nothing" /\ r.attempt <= r.with.attempts BY <1>1, <2>4, <3>3, <3>5
    <3>7. \E k \in r.used : r.list = Shown(Listed(k), r.allowed) BY <3>3
    <3> QED BY <3>2, <3>3, <3>4, <3>6, <3>7, EndsKnown
  <2> QED BY <2>3, <2>4
<1>3. CASE ~InListCache(l, a)
  <2>0. PICK pc \in {"resolve", "fetch"} : pc = (IF q.catalog THEN "resolve" ELSE "fetch") OBVIOUS
  <2> DEFINE next == [q EXCEPT !.pc = pc]
  <2>1. next \in ListerRows BY <1>0 DEF ListerRows, ListPlaces
  <2>2. ListerKnows(next) BY <1>0, <1>1, <2>0 DEF ListerRows, ListerKnows
  <2>3. next.rows = q.rows BY <1>0 DEF ListerRows
  <2>4. lister' = [lister EXCEPT ![l] = next] BY <1>3, <2>0 DEF LookIntoCache, Goes
  <2> HIDE DEF next
  <2> QED BY <1>1, <2>1, <2>2, <2>3, <2>4 DEF NextLister, RowsFrom
<1> QED BY <1>2, <1>3

LEMMA Fetches ==
  ASSUME ListTypes, ListersKnow, NEW l \in Listers, FetchList(l) \/ \E how \in Failures : FetchFails(l, how)
  PROVE  \E next : NextLister(l, next)
<1> DEFINE q == lister[l]
<1>0. q \in ListerRows /\ ListerKnows(q) BY DEF ListTypes, ListersKnow
<1>1. q.pc = "fetch" /\ q.told = "nothing" BY <1>0 DEF FetchList, FetchFails, At, ListerKnows
<1>2. /\ q.catalog => DOMAIN q.rows = Sources /\ q.logged = 0
      /\ ~q.catalog => q.attempt <= q.with.attempts
      /\ q.account \in DOMAIN q.rows
  BY <1>0, <1>1 DEF ListerKnows
<1>3. CASE FetchList(l)
  <2> DEFINE c == q.rows[q.account]
             next == [q EXCEPT !.pc = "insert", !.list = Listed(c), !.used = @ \cup {c}]
  <2>1. c \in Credentials BY <1>0, <1>2, RowsTyped DEF ListerRows
  <2>2. Listed(c) \in SUBSET ListEntries BY <2>1, ListedTyped
  <2>3. next \in ListerRows BY <1>0, <2>1, <2>2 DEF ListerRows, ListPlaces
  <2>4. q.catalog => q.models \cup ListedModels(Listed(c)) = Gathered(q.used \cup {c})
    <3>1. q.catalog => q.models = Gathered(q.used) BY <1>0, <1>1 DEF ListerKnows
    <3>2. Gathered(q.used \cup {c}) = Gathered(q.used) \cup ListedModels(Listed(c)) BY GatheredMore
    <3> QED BY <3>1, <3>2
  <2>5. /\ next.pc = "insert" /\ next.list = Listed(c) /\ next.used = q.used \cup {c} /\ next.rows = q.rows
        /\ next.account = q.account /\ next.catalog = q.catalog /\ next.models = q.models /\ next.told = q.told
        /\ next.logged = q.logged /\ next.attempt = q.attempt /\ next.with = q.with
    BY <1>0 DEF ListerRows
  <2>6. lister' = [lister EXCEPT ![l] = next] BY <1>3 DEF FetchList, Goes, Listed
  <2>7. c = q.rows[q.account] OBVIOUS
  <2> HIDE DEF next, c
  <2>8. ListerKnows(next) BY <1>1, <1>2, <2>4, <2>5, <2>7 DEF ListerKnows
  <2> QED BY <1>1, <2>3, <2>5, <2>6, <2>8 DEF NextLister, RowsFrom
<1>4. ASSUME NEW how \in Failures, FetchFails(l, how) PROVE \E next : NextLister(l, next)
  <2>1. \/ Ends(l, "failed", q)
        \/ ~q.catalog /\ Ends(l, "failed", [q EXCEPT !.logged = 1])
        \/ q.catalog /\ Goes(l, [q EXCEPT !.pc = "next"])
        \/ ~q.catalog /\ \E pc \in {"select", "cool", "rest"} : Goes(l, [q EXCEPT !.pc = pc])
    BY <1>4 DEF FetchFails, Failures
  <2>2. CASE Ends(l, "failed", q) BY <1>0, <1>1, <1>2, <2>2, EndsKnown
  <2>3. CASE ~q.catalog /\ Ends(l, "failed", [q EXCEPT !.logged = 1]) BY <1>0, <2>3, <1>1, <1>2, EndsKnown DEF ListerRows
  <2>4. ASSUME NEW pc \in {"next", "select", "cool", "rest"}, q.catalog <=> pc = "next", Goes(l, [q EXCEPT !.pc = pc])
        PROVE  \E next : NextLister(l, next)
    BY <1>0, <1>1, <2>4 DEF ListerRows, ListPlaces, ListerKnows, Goes, NextLister, RowsFrom
  <2> QED BY <2>1, <2>2, <2>3, <2>4
<1> QED BY <1>3, <1>4

LEMMA FetchEnds ==
  ASSUME ListTypes, ListersKnow, NEW l \in Listers, RestSource(l) \/ InsertList(l) \/ ClearRest(l)
  PROVE  \E next : NextLister(l, next)
<1> DEFINE q == lister[l]
<1>0. q \in ListerRows /\ ListerKnows(q) BY DEF ListTypes, ListersKnow
<1>1. q.pc \in {"cool", "rest", "insert", "clear"} /\ q.told = "nothing"
  BY <1>0 DEF RestSource, InsertList, ClearRest, At, ListerKnows
<1>2. /\ q.pc # "insert" => ~q.catalog
      /\ ~q.catalog => q.attempt <= q.with.attempts
  BY <1>0, <1>1 DEF ListerKnows
<1>3. CASE RestSource(l)
  <2>0. q.pc \in {"cool", "rest"} BY <1>3 DEF RestSource, At
  <2>1. CASE Ends(l, "failed", [q EXCEPT !.logged = 1])
    <3> DEFINE r == [q EXCEPT !.logged = 1]
    <3>1. r \in ListerRows BY <1>0 DEF ListerRows
    <3>2. r.catalog = q.catalog /\ r.told = q.told /\ r.attempt = q.attempt /\ r.with = q.with BY <1>0 DEF ListerRows
    <3>3. Ends(l, "failed", r) BY <2>1
    <3> HIDE DEF r
    <3>4. ~r.catalog /\ r.told = "nothing" /\ r.attempt <= r.with.attempts BY <1>1, <1>2, <2>0, <3>2
    <3> QED BY <3>1, <3>3, <3>4, EndsKnown
  <2>2. CASE Goes(l, [q EXCEPT !.pc = "select"])
    BY <1>0, <1>1, <1>2, <2>0, <2>2 DEF ListerRows, ListPlaces, ListerKnows, Goes, NextLister, RowsFrom
  <2> QED BY <1>3, <2>1, <2>2 DEF RestSource
<1>4. CASE InsertList(l)
  <2>0. q.pc = "insert" BY <1>4 DEF InsertList, At
  <2>1. PICK pc \in {"collect", "clear"} : pc = (IF q.catalog THEN "collect" ELSE "clear") OBVIOUS
  <2> DEFINE next == [q EXCEPT !.pc = pc]
  <2>2. next \in ListerRows BY <1>0 DEF ListerRows, ListPlaces
  <2>3. ListerKnows(next) BY <1>0, <2>0, <2>1 DEF ListerRows, ListerKnows
  <2>4. next.rows = q.rows BY <1>0 DEF ListerRows
  <2>5. lister' = [lister EXCEPT ![l] = next] BY <1>4, <2>1 DEF InsertList, Goes
  <2> HIDE DEF next
  <2> QED BY <1>1, <2>2, <2>3, <2>4, <2>5 DEF NextLister, RowsFrom
<1>5. CASE ClearRest(l)
  <2>0. q.pc = "clear" BY <1>5 DEF ClearRest, At
  <2> DEFINE r == [q EXCEPT !.list = Shown(q.list, q.allowed), !.logged = 1]
  <2>1. q.list \in SUBSET ListEntries BY <1>0 DEF ListerRows
  <2>2. Shown(q.list, q.allowed) \in SUBSET ListEntries BY <2>1, ShownTyped
  <2>3. r \in ListerRows BY <1>0, <2>2 DEF ListerRows
  <2>4. /\ r.list = Shown(q.list, q.allowed) /\ r.used = q.used /\ r.logged = 1 /\ r.catalog = q.catalog /\ r.told = q.told
        /\ r.attempt = q.attempt /\ r.with = q.with /\ r.allowed = q.allowed
    BY <1>0 DEF ListerRows
  <2>5. Ends(l, "listed", r) BY <1>5 DEF ClearRest
  <2> HIDE DEF r
  <2>6. q.list = Listed(q.rows[q.account]) /\ q.rows[q.account] \in q.used BY <1>0, <2>0 DEF ListerKnows
  <2>7. ~r.catalog /\ r.told = "nothing" /\ r.attempt <= r.with.attempts BY <1>1, <1>2, <2>0, <2>4
  <2>8. \E c \in r.used : r.list = Shown(Listed(c), r.allowed) BY <2>4, <2>6
  <2> QED BY <2>3, <2>4, <2>5, <2>7, <2>8, EndsKnown
<1> QED BY <1>3, <1>4, <1>5

LEMMA CatalogLoop ==
  ASSUME ListTypes, ListersKnow, NEW l \in Listers,
         NextSource(l) \/ CollectModels(l) \/ ListerGone(l) \/ \E fails \in BOOLEAN : ResolveSource(l, fails)
  PROVE  \E next : NextLister(l, next)
<1> DEFINE q == lister[l]
<1>0. q \in ListerRows /\ ListerKnows(q) BY DEF ListTypes, ListersKnow
<1>1. CASE ListerGone(l) BY <1>1, NobodyYet DEF ListerGone, Goes, NextLister, RowsFrom
<1>2. CASE NextSource(l)
  <2>0. q.pc = "next" BY <1>2 DEF NextSource, At
  <2>1. q.catalog /\ q.told = "nothing" /\ DOMAIN q.rows = Sources /\ q.logged = 0 /\ q.models = Gathered(q.used)
    BY <1>0, <2>0 DEF ListerKnows
  <2>2. CASE Sources \ q.tried = {} BY <1>2, <2>2, <1>0, <2>1, EndsKnown DEF NextSource
  <2>3. CASE Sources \ q.tried # {}
    <3>1. PICK a : a = Least(Sources \ q.tried) OBVIOUS
    <3>2. a \in Sources BY <2>3, LeastSource, <3>1
    <3> DEFINE next == [q EXCEPT !.pc = "look", !.account = a, !.tried = @ \cup {a}]
    <3>3. next \in ListerRows BY <1>0, <3>2 DEF ListerRows, ListPlaces
    <3>4. ListerKnows(next) BY <1>0, <2>0, <2>1, <3>2 DEF ListerRows, ListerKnows
    <3>5. next.rows = q.rows BY <1>0 DEF ListerRows
    <3>6. lister' = [lister EXCEPT ![l] = next] BY <1>2, <2>3, <3>1 DEF NextSource, Goes
    <3> HIDE DEF next
    <3> QED BY <2>0, <3>3, <3>4, <3>5, <3>6 DEF NextLister, RowsFrom
  <2> QED BY <2>2, <2>3
<1>3. ASSUME NEW fails \in BOOLEAN, ResolveSource(l, fails) PROVE \E next : NextLister(l, next)
  <2>0. q.pc = "resolve" BY <1>3 DEF ResolveSource, At
  <2>1. q.catalog /\ q.told = "nothing" /\ DOMAIN q.rows = Sources /\ q.logged = 0 BY <1>0, <2>0 DEF ListerKnows
  <2>2. CASE fails BY <1>3, <2>2, <1>0, <2>1, EndsKnown DEF ResolveSource
  <2>3. CASE ~fails
    <3> DEFINE next == [q EXCEPT !.pc = "fetch"]
    <3>1. next \in ListerRows BY <1>0 DEF ListerRows, ListPlaces
    <3>2. ListerKnows(next) BY <1>0, <2>0, <2>1 DEF ListerRows, ListerKnows
    <3>3. next.rows = q.rows BY <1>0 DEF ListerRows
    <3>4. lister' = [lister EXCEPT ![l] = next] BY <1>3, <2>3 DEF ResolveSource, Goes
    <3> HIDE DEF next
    <3> QED BY <2>0, <3>1, <3>2, <3>3, <3>4 DEF NextLister, RowsFrom
  <2> QED BY <2>2, <2>3
<1>4. CASE CollectModels(l)
  <2>0. q.pc = "collect" BY <1>4 DEF CollectModels, At
  <2>1. q.catalog /\ q.told = "nothing" /\ q.models \cup ListedModels(q.list) = Gathered(q.used)
        /\ DOMAIN q.rows = Sources /\ q.logged = 0
    BY <1>0, <2>0 DEF ListerKnows
  <2>2. PICK models : models = q.models \cup ListedModels(q.list) OBVIOUS
  <2>3. models \in SUBSET {e.model : e \in ListEntries} BY <1>0, ModelsTyped, <2>2 DEF ListerRows
  <2> DEFINE next == [q EXCEPT !.pc = "next", !.models = models]
  <2>4. next \in ListerRows BY <1>0, <2>3 DEF ListerRows, ListPlaces
  <2>5. ListerKnows(next) BY <1>0, <2>0, <2>1, <2>2 DEF ListerRows, ListerKnows
  <2>6. next.rows = q.rows BY <1>0 DEF ListerRows
  <2>7. lister' = [lister EXCEPT ![l] = next] BY <1>4, <2>2 DEF CollectModels, Goes
  <2> HIDE DEF next
  <2> QED BY <2>0, <2>4, <2>5, <2>6, <2>7 DEF NextLister, RowsFrom
<1> QED BY <1>1, <1>2, <1>3, <1>4
-----------------------------------------------------------------------------
\* Nothing of other credentials is left of an account that is settled; nor is it in
\* the cache when a replacement has forgotten it and no other came in.
SettledKnow ==
  \A a \in settled :
    /\ a \in DOMAIN listCache => listCache[a].of = credential[a]
    /\ \A rows \in rowsKept : a \in DOMAIN rows => rows[a] = credential[a]
    /\ \A l \in Listers :
         lister[l].pc \notin {"idle", "told"} /\ a \in DOMAIN lister[l].rows => lister[l].rows[a] = credential[a]
Forgot(k) ==
  keeper[k].pc = "invalidate" /\ keeper[k].op = "replace" /\ ~keeper[k].raced /\ keeper[k].account \in DOMAIN listCache =>
    listCache[keeper[k].account].of = credential[keeper[k].account]
KeepersForgot == \A k \in Keepers : Forgot(k)

\* At most one save is under way unless saves overlapped, and it brings what is kept.
SettingsHold ==
  ~overlaid =>
    \/ running = kept /\ \A k \in Keepers : keeper[k].pc # "apply"
    \/ \E k \in Keepers : /\ keeper[k].pc = "apply" /\ keeper[k].with = kept
                          /\ \A j \in Keepers \ {k} : keeper[j].pc # "apply"

ListInv == ListTypes /\ ListersKnow /\ CacheKnows /\ SettledKnow /\ KeepersForgot /\ SettingsHold

LEMMA ListInitInv == ListInit => ListInv
<1> SUFFICES ASSUME ListInit PROVE ListInv OBVIOUS
<1>1. PICK start \in ListStarts : credential = start.credentials /\ kept = start.settings /\ running = start.settings
  BY DEF ListInit
<1>2. credential \in [Sources -> Credentials] /\ kept \in Settings /\ running \in Settings BY <1>1, ListAssumption
<1>3. /\ lister = [l \in Listers |-> NoLister] /\ keeper = [k \in Keepers |-> NoKeeper]
      /\ resting = {} /\ rowsKept = {} /\ DOMAIN listCache = {} /\ settled = Sources /\ overlaid = FALSE
  BY DEF ListInit
<1>4. ListTypes BY <1>2, <1>3, NobodyYet DEF ListTypes
<1>5. ListersKnow /\ CacheKnows /\ SettledKnow /\ KeepersForgot /\ SettingsHold
  BY <1>1, <1>3, NobodyYet DEF ListersKnow, CacheKnows, SettledKnow, KeepersForgot, Forgot, SettingsHold
<1> QED BY <1>4, <1>5 DEF ListInv

\* The steps of one request leave the others' alone.
LEMMA ListerMoves ==
  ASSUME ListInv, NEW l \in Listers, NEW next, NextLister(l, next), UNCHANGED <<credential, settled>>
  PROVE  /\ lister' \in [Listers -> ListerRows] /\ ListersKnow'
         /\ \A a \in settled : \A m \in Listers :
              lister'[m].pc \notin {"idle", "told"} /\ a \in DOMAIN lister'[m].rows => lister'[m].rows[a] = credential[a]
BY DEF ListInv, ListTypes, NextLister, ListersKnow, SettledKnow, RowsFrom

\* Requests for lists.
ListerReads(l) ==
  \/ CatalogRows(l) \/ \E allowed \in {{}, {"m1"}} : Begins1(l, allowed)
  \/ SelectRows(l) \/ PickSource(l) \/ LookIntoCache(l) \/ FetchList(l) \/ \E how \in Failures : FetchFails(l, how)
  \/ ClearRest(l) \/ NextSource(l) \/ CollectModels(l) \/ ListerGone(l) \/ \E fails \in BOOLEAN : ResolveSource(l, fails)

LEMMA ReadersOnly ==
  ASSUME NEW l \in Listers, ListerReads(l)
  PROVE  /\ UNCHANGED <<credential, rowsKept, listCache, keeper, kept, running, settled, overlaid>>
         /\ resting' \subseteq resting
BY DEF ListerReads, CatalogRows, Begins1, SelectRows, PickSource, LookIntoCache, FetchList, FetchFails, ClearRest, NextSource,
       CollectModels, ListerGone, ResolveSource, ListerOnly

LEMMA ReadersStep == ASSUME ListInv, NEW l \in Listers, ListerReads(l) PROVE ListInv'
<1>0. ListTypes /\ ListersKnow /\ CacheKnows BY DEF ListInv
<1>1. \E next : NextLister(l, next)
  BY <1>0, ListersBegin, ModelsLoop, LooksUp, Fetches, FetchEnds, CatalogLoop DEF ListerReads
<1>2. PICK next : NextLister(l, next) BY <1>1
<1>3. UNCHANGED <<credential, rowsKept, listCache, keeper, kept, running, settled, overlaid>> /\ resting' \subseteq resting
  BY ReadersOnly
<1>4. /\ lister' \in [Listers -> ListerRows] /\ ListersKnow'
      /\ \A a \in settled : \A m \in Listers :
           lister'[m].pc \notin {"idle", "told"} /\ a \in DOMAIN lister'[m].rows => lister'[m].rows[a] = credential[a]
  BY <1>2, <1>3, ListerMoves
<1>5. ListTypes' BY <1>3, <1>4 DEF ListInv, ListTypes
<1>6. SettledKnow' BY <1>3, <1>4 DEF ListInv, SettledKnow
<1>7. CacheKnows' /\ KeepersForgot' /\ SettingsHold'
  BY <1>3 DEF ListInv, CacheKnows, KeepersForgot, Forgot, SettingsHold
<1> QED BY <1>4, <1>5, <1>6, <1>7 DEF ListInv

LEMMA KeepRowsStep == ASSUME ListInv, NEW l \in Listers, KeepRows(l) \/ RestSource(l) PROVE ListInv'
<1>0. ListTypes /\ ListersKnow /\ CacheKnows BY DEF ListInv
<1>1. \E next : NextLister(l, next) BY <1>0, ModelsLoop, FetchEnds
<1>2. PICK next : NextLister(l, next) BY <1>1
<1>3. UNCHANGED <<credential, listCache, keeper, kept, running, settled, overlaid>> BY DEF KeepRows, RestSource
<1>4. /\ lister' \in [Listers -> ListerRows] /\ ListersKnow'
      /\ \A a \in settled : \A m \in Listers :
           lister'[m].pc \notin {"idle", "told"} /\ a \in DOMAIN lister'[m].rows => lister'[m].rows[a] = credential[a]
  BY <1>2, <1>3, ListerMoves
<1>5. lister[l] \in ListerRows /\ ListerKnows(lister[l]) BY <1>0 DEF ListTypes, ListersKnow
<1>6. /\ rowsKept' \subseteq RowMaps /\ resting' \subseteq Sources
      /\ \A a \in settled : \A rows \in rowsKept' : a \in DOMAIN rows => rows[a] = credential[a]
  <2>1. CASE KeepRows(l) BY <2>1, <1>0, <1>5 DEF KeepRows, At, ListInv, SettledKnow, ListTypes, ListerRows
  <2>2. CASE RestSource(l) BY <2>2, <1>5, RowsTyped, <1>0 DEF RestSource, At, ListerKnows, ListerRows, ListTypes
  <2> QED BY <2>1, <2>2
<1>7. ListTypes' BY <1>3, <1>4, <1>6 DEF ListInv, ListTypes
<1>8. SettledKnow' BY <1>3, <1>4, <1>6 DEF ListInv, SettledKnow
<1>9. CacheKnows' /\ KeepersForgot' /\ SettingsHold'
  BY <1>3 DEF ListInv, CacheKnows, KeepersForgot, Forgot, SettingsHold
<1> QED BY <1>4, <1>7, <1>8, <1>9 DEF ListInv

LEMMA InsertStep == ASSUME ListInv, NEW l \in Listers, InsertList(l) PROVE ListInv'
<1>0. ListTypes /\ ListersKnow /\ CacheKnows BY DEF ListInv
<1>1. \E next : NextLister(l, next) BY <1>0, FetchEnds
<1>2. PICK next : NextLister(l, next) BY <1>1
<1>3. UNCHANGED <<credential, resting, rowsKept, kept, running, settled, overlaid>> BY DEF InsertList
<1>4. /\ lister' \in [Listers -> ListerRows] /\ ListersKnow'
      /\ \A a \in settled : \A m \in Listers :
           lister'[m].pc \notin {"idle", "told"} /\ a \in DOMAIN lister'[m].rows => lister'[m].rows[a] = credential[a]
  BY <1>2, <1>3, ListerMoves
<1> DEFINE q == lister[l]
           b == q.account
           c == q.rows[b]
<1>5. q \in ListerRows /\ ListerKnows(q) /\ q.pc = "insert" BY <1>0 DEF ListTypes, ListersKnow, InsertList, At
<1>6. b \in DOMAIN q.rows /\ q.rows \in RowMaps /\ q.list = Listed(c) /\ q.list \in SUBSET ListEntries
  BY <1>5 DEF ListerKnows, ListerRows
<1>7. b \in Sources /\ c \in Credentials BY <1>6, RowsTyped
<1>8. PICK row : row = [list |-> q.list, of |-> c, age |-> 0] OBVIOUS
<1>9. row \in CacheRows /\ row.list = Listed(row.of) /\ row.of = c BY <1>6, <1>7, <1>8 DEF CacheRows
<1>10. /\ DOMAIN listCache' = DOMAIN listCache \cup {b} /\ listCache'[b] = row
       /\ \A a \in DOMAIN listCache : a # b => listCache'[a] = listCache[a]
  BY <1>8 DEF InsertList, ToCache
<1>11. keeper' = [k \in Keepers |-> [keeper[k] EXCEPT !.raced = @ \/ (keeper[k].account = b /\ c # credential[b])]]
  BY DEF InsertList
<1> HIDE DEF q, b, c
<1>12. ASSUME NEW k \in Keepers
       PROVE  /\ keeper'[k] \in KeeperRows /\ keeper'[k].pc = keeper[k].pc /\ keeper'[k].with = keeper[k].with
              /\ keeper'[k].account = keeper[k].account /\ keeper'[k].op = keeper[k].op
              /\ ~keeper'[k].raced => ~keeper[k].raced /\ ~(keeper[k].account = b /\ c # credential[b])
  BY <1>0, <1>11 DEF ListTypes, KeeperRows, KeeperShapes
<1>13. ListTypes'
  <2>1. keeper' \in [Keepers -> KeeperRows] BY <1>11, <1>12
  <2>2. DOMAIN listCache' \subseteq Sources /\ \A a \in DOMAIN listCache' : listCache'[a] \in CacheRows
    BY <1>0, <1>7, <1>9, <1>10 DEF ListTypes
  <2> QED BY <1>0, <1>3, <1>4, <2>1, <2>2 DEF ListTypes
<1>14. CacheKnows' BY <1>0, <1>9, <1>10 DEF CacheKnows
<1>15. SettledKnow'
  <2>1. b \in settled => c = credential[b]
    BY <1>5, <1>6 DEF ListInv, SettledKnow, q, b, c
  <2>2. \A a \in settled : a \in DOMAIN listCache' => listCache'[a].of = credential[a]
    BY <1>9, <1>10, <2>1 DEF ListInv, SettledKnow
  <2> QED BY <1>3, <1>4, <2>2 DEF ListInv, SettledKnow
<1>16. KeepersForgot'
  <2> SUFFICES ASSUME NEW k \in Keepers,
                      keeper'[k].pc = "invalidate" /\ keeper'[k].op = "replace" /\ ~keeper'[k].raced
                      /\ keeper'[k].account \in DOMAIN listCache'
               PROVE  listCache'[keeper'[k].account].of = credential'[keeper'[k].account]
    BY DEF KeepersForgot, Forgot
  <2>1. /\ keeper[k].pc = "invalidate" /\ keeper[k].op = "replace" /\ ~keeper[k].raced /\ keeper'[k].account = keeper[k].account
        /\ ~(keeper[k].account = b /\ c # credential[b])
    BY <1>12
  <2>2. CASE keeper[k].account = b BY <1>3, <1>9, <1>10, <2>1, <2>2
  <2>3. CASE keeper[k].account # b BY <1>3, <1>10, <2>1, <2>3 DEF ListInv, KeepersForgot, Forgot
  <2> QED BY <2>2, <2>3
<1>17. SettingsHold'
  BY <1>3, <1>12 DEF ListInv, SettingsHold
<1> QED BY <1>4, <1>13, <1>14, <1>15, <1>16, <1>17 DEF ListInv

LEMMA WriteStep ==
  ASSUME ListInv, NEW k \in Keepers, NEW op \in Operations, NEW a \in Sources, NEW c \in Credentials, WriteCredential(k, op, a, c)
  PROVE  ListInv'
<1>0. ListTypes BY DEF ListInv
<1>1. /\ keeper[k].pc = "idle" /\ credential' = [credential EXCEPT ![a] = c] /\ settled' = settled \ {a}
      /\ resting' \subseteq resting /\ UNCHANGED <<rowsKept, listCache, lister, kept, running, overlaid>>
  BY DEF WriteCredential
<1>2. \A b \in Sources \ {a} : credential'[b] = credential[b] BY <1>0, <1>1 DEF ListTypes
<1>3. PICK pc \in {"invalidate", "forget"} : pc = (IF op = "edit" THEN "invalidate" ELSE "forget") OBVIOUS
<1>4. PICK new : new = [NoKeeper EXCEPT !.pc = pc, !.op = op, !.account = a] OBVIOUS
<1>5. /\ new \in KeeperRows /\ new.pc = pc /\ new.op = op
  BY <1>3, <1>4, NobodyYet DEF KeeperRows, KeeperShapes
<1>6. keeper' = [j \in Keepers |-> IF j = k THEN new ELSE [keeper[j] EXCEPT !.raced = @ \/ keeper[j].account = a]]
  BY <1>3, <1>4 DEF WriteCredential
<1>7. keeper'[k] = new BY <1>6
<1>8. ASSUME NEW j \in Keepers \ {k}
      PROVE  /\ keeper'[j] \in KeeperRows /\ keeper'[j].pc = keeper[j].pc /\ keeper'[j].with = keeper[j].with
             /\ keeper'[j].account = keeper[j].account /\ keeper'[j].op = keeper[j].op
             /\ ~keeper'[j].raced => ~keeper[j].raced /\ keeper[j].account # a
  BY <1>0, <1>6 DEF ListTypes, KeeperRows, KeeperShapes
<1>9. ListTypes'
  <2>1. keeper' \in [Keepers -> KeeperRows] BY <1>5, <1>6, <1>7, <1>8
  <2>2. credential' \in [Sources -> Credentials] BY <1>0, <1>1 DEF ListTypes
  <2> QED BY <1>0, <1>1, <2>1, <2>2 DEF ListTypes
<1>10. ListersKnow' /\ CacheKnows' BY <1>1 DEF ListInv, ListersKnow, CacheKnows
<1>11. SettledKnow' BY <1>0, <1>1, <1>2 DEF ListTypes, ListInv, SettledKnow
<1>12. KeepersForgot'
  <2> SUFFICES ASSUME NEW j \in Keepers,
                      keeper'[j].pc = "invalidate" /\ keeper'[j].op = "replace" /\ ~keeper'[j].raced
                      /\ keeper'[j].account \in DOMAIN listCache'
               PROVE  listCache'[keeper'[j].account].of = credential'[keeper'[j].account]
    BY DEF KeepersForgot, Forgot
  <2>1. j # k BY <1>3, <1>5, <1>7
  <2>2. Forgot(j) BY DEF ListInv, KeepersForgot
  <2>3. keeper[j].account \in DOMAIN listCache /\ DOMAIN listCache \subseteq Sources BY <1>0, <1>1, <1>8, <2>1 DEF ListTypes
  <2> QED BY <1>1, <1>2, <1>8, <2>1, <2>2, <2>3 DEF Forgot
<1>13. SettingsHold' BY <1>3, <1>5, <1>7, <1>1, <1>8 DEF ListInv, SettingsHold
<1> QED BY <1>9, <1>10, <1>11, <1>12, <1>13 DEF ListInv
\* The other steps of who changes credentials or settings.
LEMMA KeeperGoes ==
  ASSUME ListTypes, NEW k \in Keepers, NEW new \in KeeperRows, keeper' = [keeper EXCEPT ![k] = new]
  PROVE  keeper' \in [Keepers -> KeeperRows] /\ keeper'[k] = new /\ \A j \in Keepers \ {k} : keeper'[j] = keeper[j]
BY DEF ListTypes

LEMMA ForgetStep == ASSUME ListInv, NEW k \in Keepers, ForgetLists(k) PROVE ListInv'
<1>0. ListTypes /\ keeper[k] \in KeeperRows BY DEF ListInv, ListTypes
<1>1. /\ keeper[k].pc = "forget" /\ listCache' = [a \in DOMAIN listCache \ Forgotten(k) |-> listCache[a]]
      /\ UNCHANGED <<credential, resting, rowsKept, lister, kept, running, settled, overlaid>>
  BY DEF ForgetLists
<1>2. /\ DOMAIN listCache' = DOMAIN listCache \ Forgotten(k)
      /\ \A a \in DOMAIN listCache' : a \in DOMAIN listCache /\ listCache'[a] = listCache[a]
  BY <1>1
<1>3. PICK new : new = (IF keeper[k].op = "replace" THEN [keeper[k] EXCEPT !.pc = "invalidate"] ELSE NoKeeper) OBVIOUS
<1>4. /\ new \in KeeperRows /\ new.pc # "apply"
      /\ new.pc = "invalidate" => keeper[k].op = "replace" /\ new.account = keeper[k].account
  <2>1. CASE keeper[k].op = "replace" BY <1>3, <2>1, <1>0, <1>1 DEF KeeperRows, KeeperShapes
  <2>2. CASE keeper[k].op # "replace" BY <1>3, <2>2, NobodyYet
  <2> QED BY <2>1, <2>2
<1>5. keeper' = [keeper EXCEPT ![k] = new] BY <1>3 DEF ForgetLists, Keeps
<1>6. keeper' \in [Keepers -> KeeperRows] /\ keeper'[k] = new /\ \A j \in Keepers \ {k} : keeper'[j] = keeper[j]
  BY <1>0, <1>4, <1>5, KeeperGoes
<1>7. ListTypes' BY <1>0, <1>1, <1>2, <1>6 DEF ListTypes
<1>8. ListersKnow' /\ CacheKnows' /\ SettledKnow' BY <1>1, <1>2 DEF ListInv, ListersKnow, CacheKnows, SettledKnow
<1>9. Forgot(k)' BY <1>2, <1>4, <1>6 DEF Forgotten, Forgot
<1>10. \A j \in Keepers \ {k} : Forgot(j)' BY <1>1, <1>2, <1>6 DEF ListInv, KeepersForgot, Forgot
<1>11. SettingsHold' BY <1>1, <1>4, <1>6 DEF ListInv, SettingsHold
<1> QED BY <1>7, <1>8, <1>9, <1>10, <1>11 DEF ListInv, KeepersForgot

LEMMA InvalidateStep == ASSUME ListInv, NEW k \in Keepers, InvalidateRows(k) PROVE ListInv'
<1>0. ListTypes /\ keeper[k] \in KeeperRows BY DEF ListInv, ListTypes
<1>1. /\ keeper[k].pc = "invalidate" /\ rowsKept' = {} /\ keeper' = [keeper EXCEPT ![k] = NoKeeper]
      /\ UNCHANGED <<credential, resting, listCache, lister, kept, running, overlaid>>
  BY DEF InvalidateRows, Keeps
<1>2. keeper' \in [Keepers -> KeeperRows] /\ keeper'[k] = NoKeeper /\ \A j \in Keepers \ {k} : keeper'[j] = keeper[j]
  BY <1>0, <1>1, NobodyYet, KeeperGoes
<1>3. \/ settled' = settled
      \/ /\ settled' = settled \cup {keeper[k].account} /\ keeper[k].op = "replace" /\ ~keeper[k].raced
         /\ NobodyBehind(k, keeper[k].account)
  BY DEF InvalidateRows
<1>4. SettledKnow' BY <1>1, <1>3 DEF ListInv, SettledKnow, KeepersForgot, Forgot, NobodyBehind
<1>5. ListTypes'
  <2>1. settled' \subseteq Sources BY <1>0, <1>1, <1>3 DEF KeeperRows, ListTypes
  <2> QED BY <1>0, <1>1, <1>2, <2>1 DEF ListTypes
<1>6. ListersKnow' /\ CacheKnows' BY <1>1 DEF ListInv, ListersKnow, CacheKnows
<1>7. KeepersForgot' /\ SettingsHold'
  BY <1>1, <1>2, NobodyYet DEF ListInv, KeepersForgot, Forgot, SettingsHold
<1> QED BY <1>4, <1>5, <1>6, <1>7 DEF ListInv

LEMMA SettingsStep ==
  ASSUME ListInv, NEW k \in Keepers,
         ApplySettings(k) \/ KeeperDropped(k) \/ \E with \in Settings : SaveSettings(k, with)
  PROVE  ListInv'
<1>0. ListTypes /\ keeper[k] \in KeeperRows BY DEF ListInv, ListTypes
<1>1. UNCHANGED <<credential, resting, rowsKept, listCache, lister, settled>> BY DEF ApplySettings, KeeperDropped, SaveSettings
<1>2. ListersKnow' /\ CacheKnows' /\ SettledKnow' BY <1>1 DEF ListInv, ListersKnow, CacheKnows, SettledKnow
<1>3. ASSUME NEW new \in KeeperRows, new.pc # "invalidate", keeper' = [keeper EXCEPT ![k] = new] PROVE KeepersForgot'
  BY <1>0, <1>3, KeeperGoes, <1>1 DEF ListInv, KeepersForgot, Forgot
<1>4. CASE ApplySettings(k)
  <2>1. /\ keeper[k].pc = "apply" /\ running' = keeper[k].with /\ keeper' = [keeper EXCEPT ![k] = NoKeeper]
        /\ UNCHANGED <<kept, overlaid>>
    BY <1>4 DEF ApplySettings, Keeps
  <2>2. keeper' \in [Keepers -> KeeperRows] /\ keeper'[k] = NoKeeper /\ \A j \in Keepers \ {k} : keeper'[j] = keeper[j]
    BY <1>0, <2>1, NobodyYet, KeeperGoes
  <2>3. SettingsHold' BY <2>1, <2>2, NobodyYet DEF ListInv, SettingsHold
  <2>4. KeepersForgot' BY <1>3, <2>1, NobodyYet
  <2>5. running' \in Settings BY <1>0, <2>1 DEF KeeperRows
  <2>6. ListTypes' BY <1>0, <1>1, <2>1, <2>2, <2>5 DEF ListTypes
  <2> QED BY <1>2, <2>3, <2>4, <2>6 DEF ListInv
<1>5. CASE KeeperDropped(k)
  <2>1. /\ keeper' = [keeper EXCEPT ![k] = NoKeeper] /\ overlaid' = (overlaid \/ keeper[k].pc = "apply")
        /\ UNCHANGED <<kept, running>>
    BY <1>5 DEF KeeperDropped, Keeps
  <2>2. keeper' \in [Keepers -> KeeperRows] /\ keeper'[k] = NoKeeper /\ \A j \in Keepers \ {k} : keeper'[j] = keeper[j]
    BY <1>0, <2>1, NobodyYet, KeeperGoes
  <2>3. SettingsHold'
    <3> SUFFICES ASSUME ~overlaid'
                 PROVE  \/ running' = kept' /\ \A j \in Keepers : keeper'[j].pc # "apply"
                        \/ \E j \in Keepers : /\ keeper'[j].pc = "apply" /\ keeper'[j].with = kept'
                                              /\ \A i \in Keepers \ {j} : keeper'[i].pc # "apply"
      BY DEF SettingsHold
    <3>1. ~overlaid /\ keeper[k].pc # "apply" BY <2>1
    <3> QED BY <2>1, <2>2, <3>1, NobodyYet DEF ListInv, SettingsHold
  <2>4. KeepersForgot' BY <1>3, <2>1, NobodyYet
  <2>5. ListTypes' BY <1>0, <1>1, <2>1, <2>2 DEF ListTypes
  <2> QED BY <1>2, <2>3, <2>4, <2>5 DEF ListInv
<1>6. ASSUME NEW with \in Settings, SaveSettings(k, with) PROVE ListInv'
  <2>1. PICK new : new = [NoKeeper EXCEPT !.pc = "apply", !.with = with] OBVIOUS
  <2>2. new \in KeeperRows /\ new.pc = "apply" /\ new.with = with
    BY <2>1, SettingsAreWiths, NobodyYet DEF KeeperRows, KeeperShapes
  <2>3. /\ keeper' = [keeper EXCEPT ![k] = new] /\ kept' = with /\ overlaid' = \E j \in Keepers : keeper[j].pc = "apply"
        /\ UNCHANGED running
    BY <1>6, <2>1 DEF SaveSettings, Keeps
  <2>4. keeper' \in [Keepers -> KeeperRows] /\ keeper'[k] = new /\ \A j \in Keepers \ {k} : keeper'[j] = keeper[j]
    BY <1>0, <2>2, <2>3, KeeperGoes
  <2>5. SettingsHold' BY <2>2, <2>3, <2>4 DEF SettingsHold
  <2>6. KeepersForgot' BY <1>3, <2>2, <2>3
  <2>7. overlaid' \in BOOLEAN BY <2>3
  <2>8. ListTypes' BY <1>0, <1>1, <2>3, <2>4, <2>7 DEF ListTypes
  <2> QED BY <1>2, <2>5, <2>6, <2>8 DEF ListInv
<1> QED BY <1>4, <1>5, <1>6

LEMMA ListInvStep == ListInv /\ [ListNext]_listVars => ListInv'
<1> SUFFICES ASSUME ListInv, [ListNext]_listVars PROVE ListInv' OBVIOUS
<1>0. ListTypes BY DEF ListInv
<1>1. CASE UNCHANGED listVars
  BY <1>1 DEF listVars, ListInv, ListTypes, ListersKnow, CacheKnows, SettledKnow, KeepersForgot, Forgot, SettingsHold
<1>2. CASE RestartLists
  <2>1. /\ rowsKept' = {} /\ DOMAIN listCache' = {} /\ lister' = [l \in Listers |-> NoLister]
        /\ keeper' = [k \in Keepers |-> NoKeeper] /\ running' = kept /\ overlaid' = FALSE /\ settled' = Sources
        /\ UNCHANGED <<credential, resting, kept>>
    BY <1>2 DEF RestartLists
  <2>2. ListTypes' BY <1>0, <2>1, NobodyYet DEF ListTypes
  <2>3. ListersKnow' /\ CacheKnows' /\ SettledKnow' /\ KeepersForgot' /\ SettingsHold'
    BY <2>1, NobodyYet DEF ListersKnow, CacheKnows, SettledKnow, KeepersForgot, Forgot, SettingsHold
  <2> QED BY <2>2, <2>3 DEF ListInv
<1>3. CASE TickPasses
  <2>1. /\ rowsKept' = {} /\ resting' = {} /\ DOMAIN listCache' = DOMAIN listCache
        /\ \A a \in DOMAIN listCache : listCache'[a] = [listCache[a] EXCEPT !.age = @ + 1]
        /\ UNCHANGED <<credential, lister, keeper, kept, running, settled, overlaid>>
    BY <1>3 DEF TickPasses
  <2>2. ASSUME NEW a \in DOMAIN listCache
        PROVE  listCache'[a] \in CacheRows /\ listCache'[a].list = listCache[a].list /\ listCache'[a].of = listCache[a].of
    BY <1>0, <2>1 DEF ListTypes, CacheRows
  <2>3. ListTypes' BY <1>0, <2>1, <2>2 DEF ListTypes
  <2>4. ListersKnow' /\ CacheKnows' /\ SettledKnow' BY <2>1, <2>2 DEF ListInv, ListersKnow, CacheKnows, SettledKnow
  <2>5. KeepersForgot' /\ SettingsHold' BY <2>1, <2>2 DEF ListInv, KeepersForgot, Forgot, SettingsHold
  <2> QED BY <2>3, <2>4, <2>5 DEF ListInv
<1>4. ASSUME NEW l \in Listers, ListerReads(l) \/ KeepRows(l) \/ RestSource(l) \/ InsertList(l) PROVE ListInv'
  BY <1>4, ReadersStep, KeepRowsStep, InsertStep
<1>5. ASSUME NEW k \in Keepers,
             \/ \E op \in Operations, a \in Sources, c \in Credentials : WriteCredential(k, op, a, c)
             \/ ForgetLists(k) \/ InvalidateRows(k) \/ ApplySettings(k) \/ KeeperDropped(k)
             \/ \E with \in Settings : SaveSettings(k, with)
      PROVE  ListInv'
  BY WriteStep, ForgetStep, InvalidateStep, <1>5, SettingsStep
<1> QED BY <1>1, <1>2, <1>3, <1>4, <1>5 DEF ListNext, ListerReads

LEMMA ListInvSafe == ListInv => ListsSafe
<1> SUFFICES ASSUME ListInv PROVE ListsSafe OBVIOUS
<1>1. ListTypes /\ SettledKnow /\ SettingsHold BY DEF ListInv
<1>2. \A l \in Listers : ListerKnows(lister[l]) BY DEF ListInv, ListersKnow
<1>3. ListTypeOK BY <1>1, <1>2 DEF ListTypes, ListTypeOK, ListerKnows
<1>4. ListedWhole BY <1>2 DEF ListedWhole, ListerKnows, Listed
<1>5. CatalogComplete BY <1>2 DEF CatalogComplete, ListerKnows, Gathered, Listed
<1>6. ReplacedIsForgotten BY <1>1 DEF ReplacedIsForgotten, SettledKnow
<1>7. SettingsAgree BY <1>1 DEF SettingsAgree, SettingsHold
<1>8. ListIsLogged BY <1>2 DEF ListIsLogged, ListerKnows
<1> QED BY <1>3, <1>4, <1>5, <1>6, <1>7, <1>8 DEF ListsSafe

\* For any accounts, credentials, requests and saves: a client is shown one list
\* that its account had, as far as its key allows, and the catalogue is what the
\* accounts that answered list; replaced credentials' list stays forgotten, and
\* memory and database agree on settings once no save goes on (gateway.rs models,
\* available_model_catalog, replace_oauth_credentials, update_settings).
THEOREM ListsCorrect == ListSpec => []ListsSafe
<1>1. ListInit => ListInv BY ListInitInv
<1>2. ListInv /\ [ListNext]_listVars => ListInv' BY ListInvStep
<1>3. ListInv => ListsSafe BY ListInvSafe
<1> QED BY <1>1, <1>2, <1>3, PTL DEF ListSpec

-----------------------------------------------------------------------------
\* No code is lost without its user's reason, and no second factor without its
\* user's (email_flows.rs, totp.rs).
THEOREM ConsoleKeepsCorrect == EmailSpec /\ SessionSpec => ConsoleKeeps
BY CodesStay, FactorsStay DEF ConsoleKeeps


\* What the console promises in every state: each part keeps its own invariant.
THEOREM ConsoleCorrect ==
  EmailSpec /\ SessionSpec /\ MailSpec /\ ListSpec /\ FileSpec /\ ImageSpec => []ConsoleSafe
<1>1. AddressesSafe /\ SessionsSafe /\ MailSafe /\ ListsSafe /\ FilesSafe /\ ProvidersSafe => ConsoleSafe BY DEF ConsoleSafe
<1> QED BY <1>1, AddressesCorrect, SessionsCorrect, MailCorrect, ListsCorrect, FilesCorrect, ProvidersCorrect, PTL
================================================================================
