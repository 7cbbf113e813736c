------------------------------- MODULE MailDialog -------------------------------
(***************************************************************************)
(* How mail.rs hands a message over: settings that administrators save,    *)
(* and the dialogue with the SMTP server, command by command, which a      *)
(* timeout may end anywhere.  The webhook is one request and one answer.   *)
(* Addresses, subjects and the text of replies are left out; a reply is    *)
(* its code's class, and "bad" stands for one that cannot be read.         *)
(***************************************************************************)
EXTENDS Integers, FiniteSets

CONSTANTS
  Mailers,    \* messages on their way
  Savers,     \* requests of administrators that save the settings
  MailInputs, \* settings: [mode, security, loopback, user, host]
  MailStarts  \* stored settings and bounds to start from

VARIABLES
  mailSetting, \* app_settings: the input's fields, and whether a password is stored
  dialog,      \* messages: [pc, via, test, secure, setting, accepted, told]
  saver,       \* requests: [pc, input, password, change]
  saved,       \* saves overlapped (history)
  mailBudget

mailVars == <<mailSetting, dialog, saver, saved, mailBudget>>

NoDialog == [pc |-> "idle", via |-> "smtp", test |-> FALSE, secure |-> FALSE, setting |-> {}, accepted |-> FALSE, told |-> "nothing"]
NoSaver == [pc |-> "idle", input |-> {}, password |-> FALSE, change |-> "keep"]

MailInit ==
  /\ \E start \in MailStarts : mailSetting = start.setting /\ mailBudget = start.budget
  /\ dialog = [d \in Mailers |-> NoDialog]
  /\ saver = [x \in Savers |-> NoSaver]
  /\ saved = FALSE

SpendMail(what) == mailBudget[what] > 0 /\ mailBudget' = [mailBudget EXCEPT ![what] = @ - 1]

-----------------------------------------------------------------------------
(*                               Settings                                  *)

SmtpConfigured(s) == s.host /\ (s.user => s.password)
(* Variant: plain SMTP to any host.                                        *)
ValidAnywhere(s) == s.user => s.password
ValidMail(s) == (s.security = "plain" => s.loopback) /\ (s.user => s.password)

With(input, password) ==
  [mode |-> input.mode, security |-> input.security, loopback |-> input.loopback, host |-> input.host,
   user |-> input.user, password |-> password]

(* What may be stored: what passed validation.                             *)
MailModes == {"auto", "webhook", "smtp"}
MailSecurity == {"starttls", "implicit_tls", "plain"}
StoredSettings ==
  [mode : MailModes, security : MailSecurity, loopback : BOOLEAN, host : BOOLEAN, user : BOOLEAN, password : BOOLEAN]
ASSUME MailAssumption ==
  /\ MailInputs \subseteq [mode : MailModes, security : MailSecurity, loopback : BOOLEAN, host : BOOLEAN, user : BOOLEAN]
  /\ \A start \in MailStarts : start.setting \in StoredSettings /\ ValidMail(start.setting)

(* update_settings reads what is stored for the password it may keep.      *)
ReadsSettings(x, input, change) ==
  /\ saver[x].pc = "idle" /\ SpendMail("saves")
  /\ LET s == With(input, change = "set" \/ (change = "keep" /\ mailSetting.password)) IN
       /\ ValidMail(s) /\ (s.mode = "smtp" => SmtpConfigured(s))
       /\ saver' = [saver EXCEPT ![x] = [pc |-> "write", input |-> input, password |-> mailSetting.password, change |-> change]]
  /\ UNCHANGED <<mailSetting, dialog, saved>>

WritesSettings(x) ==
  LET w == saver[x] IN
  /\ w.pc = "write"
  /\ mailSetting' = With(w.input, CASE w.change = "set" -> TRUE
                                    [] w.change = "clear" -> FALSE
                                    [] OTHER -> mailSetting.password)
  /\ saved' = (saved \/ (w.change = "keep" /\ w.password # mailSetting.password))
  /\ saver' = [saver EXCEPT ![x] = NoSaver]
  /\ UNCHANGED <<dialog, mailBudget>>

-----------------------------------------------------------------------------
(*                              The dialogue                               *)

Tell(d, how) == dialog' = [dialog EXCEPT ![d].pc = "told", ![d].told = how]
Next1(d, pc) == dialog' = [dialog EXCEPT ![d].pc = pc]
Sets(d, row) == dialog' = [dialog EXCEPT ![d] = row]
DialogOnly == UNCHANGED <<mailSetting, saver, saved, mailBudget>>

(* deliver with the settings as they are: by the webhook or by SMTP, which *)
(* deliver_smtp refuses when it is not configured or not valid.            *)
(* "test": test_saved_smtp, the dialogue without a message.                *)
Deliver1(d, webhook, test) ==
  LET s == mailSetting
      smtp == test \/ s.mode = "smtp" \/ (s.mode = "auto" /\ ~webhook) IN
  /\ dialog[d].pc = "idle" /\ SpendMail("mails")
  /\ Sets(d, [NoDialog EXCEPT !.setting = {s}, !.via = IF smtp THEN "smtp" ELSE "webhook", !.test = test,
                !.pc = IF (smtp /\ SmtpConfigured(s) /\ ValidMail(s)) \/ (~smtp /\ webhook) THEN "connect" ELSE "told",
                !.told = IF (smtp /\ SmtpConfigured(s) /\ ValidMail(s)) \/ (~smtp /\ webhook) THEN "nothing" ELSE "failed"])
  /\ UNCHANGED <<mailSetting, saver, saved>>

Setting(d) == CHOOSE s \in dialog[d].setting : TRUE

(* deliver_webhook: accepted, refused, or the answer is lost.              *)
Webhook(d, arrives, answered) ==
  /\ dialog[d].pc = "connect" /\ dialog[d].via = "webhook" /\ (answered => arrives)
  /\ Sets(d, [dialog[d] EXCEPT !.pc = "told", !.accepted = arrives, !.told = IF answered THEN "sent" ELSE "failed"])
  /\ DialogOnly

(* smtp_session: with implicit TLS at once, with STARTTLS after a first    *)
(* EHLO, whose reply has to offer it.                                      *)
Connect(d) ==
  /\ dialog[d].pc = "connect" /\ dialog[d].via = "smtp"
  /\ Sets(d, [dialog[d] EXCEPT !.pc = "greeting", !.secure = Setting(d).security = "implicit_tls"])
  /\ DialogOnly

(* What a reply of class 2 leads to, as smtp_session and smtp_finish go    *)
(* on.  A message asks for AUTH only with a user name.                     *)
AfterAuth(d) == IF dialog[d].test THEN "quit" ELSE "from"
AfterEhlo(d) ==
  IF Setting(d).security = "starttls" /\ ~dialog[d].secure THEN "starttls"
  ELSE IF Setting(d).user THEN "auth" ELSE AfterAuth(d)

After(d) ==
  CASE dialog[d].pc = "greeting" -> "ehlo"
    [] dialog[d].pc = "ehlo" -> AfterEhlo(d)
    [] dialog[d].pc \in {"auth", "password"} -> AfterAuth(d)
    [] dialog[d].pc = "from" -> "recipient"
    [] dialog[d].pc = "recipient" -> "data"
    [] dialog[d].pc = "body" -> "quit"

(* The reply the command waits for.  "offers": EHLO lists STARTTLS.        *)
Expected(d, reply) ==
  CASE dialog[d].pc = "data" -> reply = "3"
    [] dialog[d].pc = "auth" -> reply \in {"2", "3"}
    [] OTHER -> reply = "2"

(* Variant: any positive reply after the message counts.                   *)
AcceptedByReply(d, reply) == reply \in {"2", "3"}
Accepted(d, reply) == reply = "2"

(* STARTTLS: after its 220 the plain connection gives way to TLS, and what *)
(* it had buffered is dropped; then EHLO again.                            *)
StartTls(d, reply, offers) ==
  /\ dialog[d].pc = "starttls"
  /\ IF offers /\ reply = "2" THEN Sets(d, [dialog[d] EXCEPT !.pc = "ehlo", !.secure = TRUE]) ELSE Tell(d, "failed")
  /\ DialogOnly

Command(d, reply) ==
  /\ dialog[d].pc \in {"greeting", "ehlo", "auth", "password", "from", "recipient", "data"}
  /\ IF ~Expected(d, reply) THEN Tell(d, "failed")
     ELSE Next1(d, CASE dialog[d].pc = "data" -> "body"
                     [] dialog[d].pc = "auth" /\ reply = "3" -> "password"
                     [] OTHER -> After(d))
  /\ DialogOnly

(* The message; the server takes it when it says 250, and may have taken   *)
(* it when its reply is lost.                                              *)
Body1(d, reply, taken) ==
  /\ dialog[d].pc = "body" /\ (reply = "2" => taken) /\ (reply \in {"3", "5"} => ~taken)
  /\ Sets(d, [dialog[d] EXCEPT !.accepted = taken, !.pc = IF Accepted(d, reply) THEN "quit" ELSE "told",
                               !.told = IF Accepted(d, reply) THEN "nothing" ELSE "failed"])
  /\ DialogOnly

(* Whatever QUIT is answered.                                              *)
Quit(d) == dialog[d].pc = "quit" /\ Tell(d, "sent") /\ DialogOnly

(* SMTP_TIMEOUT covers the whole dialogue, QUIT with it.                   *)
TimesOut(d) ==
  /\ dialog[d].pc \notin {"idle", "told"} /\ SpendMail("timeouts")
  /\ \E taken \in BOOLEAN :
       /\ (dialog[d].pc \notin {"body", "connect"} => taken = dialog[d].accepted)
       /\ (dialog[d].pc = "connect" /\ dialog[d].via = "smtp" => ~taken)
       /\ Sets(d, [dialog[d] EXCEPT !.pc = "told", !.told = "failed", !.accepted = taken])
  /\ UNCHANGED <<mailSetting, saver, saved>>

Forget(d) == dialog[d].pc = "told" /\ Sets(d, NoDialog) /\ DialogOnly

Replies == {"2", "3", "5", "bad"}

MailNext ==
  \/ \E d \in Mailers :
       \/ \E webhook, test \in BOOLEAN : Deliver1(d, webhook, test)
       \/ Connect(d) \/ Quit(d) \/ TimesOut(d) \/ Forget(d)
       \/ \E arrives, answered \in BOOLEAN : Webhook(d, arrives, answered)
       \/ \E reply \in Replies :
            \/ Command(d, reply)
            \/ \E yes \in BOOLEAN : StartTls(d, reply, yes) \/ Body1(d, reply, yes)
  \/ \E x \in Savers :
       WritesSettings(x) \/ \E input \in MailInputs, change \in {"keep", "set", "clear"} : ReadsSettings(x, input, change)

MailSpec == MailInit /\ [][MailNext]_mailVars

-----------------------------------------------------------------------------
(*                              Properties                                 *)

MailTypeOK ==
  /\ mailSetting.mode \in MailModes /\ mailSetting.security \in MailSecurity
  /\ \A d \in Mailers : dialog[d].told \in {"nothing", "sent", "failed"}

(* Who is told that a message was sent: the server has taken it.           *)
SentWasAccepted == \A d \in Mailers : dialog[d].told = "sent" => dialog[d].accepted \/ dialog[d].test

(* The user name and the message travel over TLS, or to this host itself,  *)
(* however the settings were edited while the dialogue went on.            *)
SpokenInPrivate ==
  \A d \in Mailers :
    dialog[d].via = "smtp" /\ dialog[d].pc \in {"auth", "password", "from", "recipient", "data", "body"} =>
      dialog[d].secure \/ Setting(d).loopback

(* Settings that passed validation can be used, unless another save took   *)
(* the password away between the two.                                      *)
SavedIsUsable == ValidMail(mailSetting) \/ saved

MailSafe == MailTypeOK /\ SentWasAccepted /\ SpokenInPrivate /\ SavedIsUsable
=================================================================================
