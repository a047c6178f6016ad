------------------------------ MODULE Delivery ------------------------------
(***************************************************************************)
(* The worker's delivery of one alert after another by the notifier of its *)
(* channel's type, call by call: what HandleCreate let through as the      *)
(* channel's configuration, the environment the process was started with,  *)
(* the mail server or HTTP endpoint at the other end, the network between. *)
(*                                                                         *)
(* The other end may refuse, hang up, or stay silent at every call; an     *)
(* answer may be lost after the alert was taken.  The alert's text, the    *)
(* queue and the row's foreign keys are left out: the last two are         *)
(* AlertPipeline's subject, for which a whole Send is one step.  So is the *)
(* reuse of an idle HTTP connection, which skips the dialling.             *)
(***************************************************************************)
EXTENDS Startup

CONSTANTS
    MaxAddrs,    \* bound on the addresses a name resolves to
    MaxHops      \* how many redirects the HTTP client follows (10)

ASSUME MaxAddrsAssumption == MaxAddrs \in Nat
ASSUME MaxHopsAssumption  == MaxHops \in Nat

VARIABLES
    job    \* the worker goroutine

vars == <<startupVars, job>>

-----------------------------------------------------------------------------
(***************************************************************************)
(* Channel configurations, by what the checks on them tell apart:          *)
(* "missing" is no JSON or an empty field, "address" a bare mail address,  *)
(* "named" one with a name, brackets or a comment, "slack" a URL below     *)
(* https://hooks.slack.com/, "slack junk" such a prefix of something that  *)
(* is no URL, "url" another http or https URL, "internal" one whose host   *)
(* is a name of a private address (localhost, a neighbour's name),         *)
(* "private" one whose host is such an address literally, "junk" anything  *)
(* else.                                                                   *)
(***************************************************************************)
Targets == {"missing", "address", "named", "slack", "slack junk", "url",
            "internal", "private", "junk"}

Channels == [type : {"email", "slack", "webhook", "other"}, target : Targets]

ValidateChannelConfig(ch) ==
    CASE ch.type = "email"   -> ch.target \in {"address", "named"}
      [] ch.type = "slack"   -> ch.target \in {"slack", "slack junk"}
      [] ch.type = "webhook" -> ch.target \in {"slack", "url", "internal"}
      [] OTHER               -> FALSE

(* What the channels table can hold. *)
Stored == {ch \in Channels : ValidateChannelConfig(ch)}

(* buildNotifiers. *)
Notifiers(e) ==
    {"slack", "webhook"} \cup
        (IF e.host # "unset" /\ e.from # "unset" THEN {"email"} ELSE {})

AuthFirst(e) ==    \* mutation: AUTH before STARTTLS
    <<"dial", "greeting">>
    \o (IF e.user THEN <<"auth">>     ELSE <<>>)
    \o (IF e.tls  THEN <<"starttls">> ELSE <<>>)
    \o <<"mail", "rcpt", "data", "close">>

(* The calls of sendSMTP that wait for the server, in their order: STARTTLS *)
(* with SMTP_TLS, then AUTH with SMTP_USER.                                 *)
MailCalls(e) ==
    CASE e.tls /\ e.user   -> <<"dial", "greeting", "starttls", "auth",
                               "mail", "rcpt", "data", "close">>
      [] e.tls /\ ~e.user  -> <<"dial", "greeting", "starttls",
                               "mail", "rcpt", "data", "close">>
      [] ~e.tls /\ e.user  -> <<"dial", "greeting", "auth",
                               "mail", "rcpt", "data", "close">>
      [] ~e.tls /\ ~e.user -> <<"dial", "greeting",
                               "mail", "rcpt", "data", "close">>

(* Those of an http.Client with the checked dialler. *)
HTTPCalls == <<"resolve", "dial", "exchange">>

CallsOf(type, e) == IF type = "email" THEN MailCalls(e) ELSE HTTPCalls

(***************************************************************************)
(* job: the event's channel; calls, what Send has still to do; addrs, the  *)
(* addresses left to dial, "up" or "dead"; post, whether the request still *)
(* carries the alert; hops, the redirects followed; error, what Send       *)
(* returned.  History: taken, the other end has taken the alert; fault, it *)
(* or the network has failed, a name nobody answers for included.          *)
(***************************************************************************)
Calls == {"dial", "greeting", "starttls", "auth", "mail", "rcpt", "data",
          "close", "resolve", "exchange"}

NoChannel == [type |-> "other", target |-> "missing"]

Idle == [pc |-> "idle", channel |-> NoChannel, calls |-> <<>>, addrs |-> <<>>,
         post |-> TRUE, hops |-> 0, error |-> FALSE, taken |-> FALSE,
         fault |-> FALSE]

Jobs ==
    [pc : {"idle", "send", "record"}, channel : Stored \cup {NoChannel},
     calls : Seq(Calls), addrs : Seq({"up", "dead"}), post : BOOLEAN,
     hops : 0..MaxHops, error : BOOLEAN, taken : BOOLEAN, fault : BOOLEAN]

TypeOK == StartupTypeOK /\ job \in Jobs

Init == StartupInit /\ job = Idle

-----------------------------------------------------------------------------
(* How a call ends. *)

Calling(call) == job.pc = "send" /\ job.calls # <<>> /\ Head(job.calls) = call

Finish(j) ==
    job' = [j EXCEPT !.pc = "record", !.calls = <<>>, !.addrs = <<>>]

FailedBy(j, fault) ==
    Finish([j EXCEPT !.error = TRUE, !.fault = @ \/ fault])

(* The next call; Send returns nil after the last one. *)
Continue(j) ==
    IF Len(j.calls) = 1
    THEN Finish(j)
    ELSE job' = [j EXCEPT !.calls = Tail(@)]

(* dispatch: without a notifier an error; Send builds message and request,  *)
(* which a URL that does not parse prevents.                                *)
Take ==
    /\ job.pc = "idle"
    /\ main \in {"listen", "serving", "stopping"}
    /\ \E ch \in Stored :
          LET j == [Idle EXCEPT !.pc = "send", !.channel = ch,
                                !.calls = CallsOf(ch.type, env)]
          IN  IF ch.type \notin Notifiers(env) \/ ch.target = "slack junk"
              THEN FailedBy(j, FALSE)
              ELSE job' = j
    /\ UNCHANGED startupVars

(* Dialling ends before anything is asked of the network. *)
NothingToDial ==
    Calling("dial") /\ job.channel.type = "email" /\ ~env.dialable

(***************************************************************************)
(* The other end refuses the call, or the network fails; if that loses the *)
(* last answer, the alert has been taken all the same.                     *)
(***************************************************************************)
Fault ==
    /\ job.pc = "send" /\ ~NothingToDial
    /\ \/ FailedBy(job, TRUE)
       \/ /\ job.calls # <<>> /\ Head(job.calls) \in {"close", "exchange"}
          /\ FailedBy([job EXCEPT !.taken = job.post], TRUE)
    /\ UNCHANGED startupVars

DialOnly == {"dial", "resolve", "exchange"}    \* mutation: no SetDeadline

(* The context ends resolving, dialling and HTTP; conn.SetDeadline the rest. *)
WithDeadline == Calls

TimeOut ==
    /\ job.pc = "send"
    /\ Head(job.calls) \in WithDeadline
    /\ FailedBy(job, TRUE)
    /\ UNCHANGED startupVars

-----------------------------------------------------------------------------
(* Mail. *)

Secure == \A i \in DOMAIN job.calls : job.calls[i] # "starttls"

(* The dialler takes SMTP_PORT as it is. *)
MailDial ==
    /\ Calling("dial") /\ job.channel.type = "email"
    /\ IF NothingToDial THEN FailedBy(job, FALSE) ELSE Continue(job)
    /\ UNCHANGED startupVars

(* A server that answers as the protocol has it. *)
MailStep ==
    /\ job.channel.type = "email"
    /\ \E call \in {"greeting", "starttls", "data"} : Calling(call)
    /\ Continue(job)
    /\ UNCHANGED startupVars

(***************************************************************************)
(* The code refuses to log in over a plain connection to any but a         *)
(* loopback host; PlainAuth (external) to any but "localhost".             *)
(***************************************************************************)
MailAuth ==
    /\ Calling("auth")
    /\ LET plain   == ~(env.tls /\ Secure)
           refuses == \/ ~env.tls /\ env.host = "remote"
                      \/ plain /\ env.host # "localhost"
       IN  IF refuses THEN FailedBy(job, FALSE) ELSE Continue(job)
    /\ UNCHANGED startupVars

(* Sender and recipient go into MAIL FROM and RCPT TO as they are; a server *)
(* takes nothing but an address there.                                      *)
MailEnvelope ==
    /\ \/ Calling("mail") /\ IF env.from = "other" THEN FailedBy(job, FALSE)
                                                   ELSE Continue(job)
       \/ Calling("rcpt") /\ IF job.channel.target = "named"
                              THEN FailedBy(job, FALSE)
                              ELSE Continue(job)
    /\ UNCHANGED startupVars

(* The server takes the mail when it answers the final dot. *)
MailClose ==
    /\ Calling("close")
    /\ Finish([job EXCEPT !.taken = TRUE])
    /\ UNCHANGED startupVars

-----------------------------------------------------------------------------
(* HTTP. *)

(***************************************************************************)
(* The checked dialler.  No address is an error, and so is a private one   *)
(* among them: of the host the channel names, or of one that the other end *)
(* has redirected to.                                                      *)
(***************************************************************************)
Resolve ==
    /\ Calling("resolve")
    /\ \/ FailedBy(job, TRUE)
       \/ job.channel.target = "internal" /\ FailedBy(job, FALSE)
       \/ /\ job.channel.target # "internal"
          /\ \E n \in 1..MaxAddrs : \E addrs \in [1..n -> {"up", "dead"}] :
                Continue([job EXCEPT
                             !.addrs = addrs,
                             !.fault = @ \/ \A i \in 1..n : addrs[i] = "dead"])
    /\ UNCHANGED startupVars

DialFirst ==    \* mutation: only the first address is tried
    /\ Calling("dial") /\ job.channel.type # "email"
    /\ IF Head(job.addrs) = "up" THEN Continue([job EXCEPT !.addrs = <<>>])
                                 ELSE FailedBy(job, FALSE)
    /\ UNCHANGED startupVars

(* One address after another until a connection is there. *)
Dial ==
    /\ Calling("dial") /\ job.channel.type # "email"
    /\ IF Head(job.addrs) = "up" THEN Continue([job EXCEPT !.addrs = <<>>])
       ELSE IF Len(job.addrs) = 1 THEN FailedBy(job, FALSE)
       ELSE job' = [job EXCEPT !.addrs = Tail(@)]
    /\ UNCHANGED startupVars

(***************************************************************************)
(* Answers: status 200 with body "ok", 200 with another body, another 2xx, *)
(* a redirect that turns a POST into a GET without its body (301, 302,     *)
(* 303), one that repeats the POST (307, 308), any other status.           *)
(***************************************************************************)
Answers == {"200 ok", "200", "2xx", "303", "307", "other"}

(* What the endpoint says with it: Slack refuses with 200 and a reason. *)
Takes(type, answer) ==
    IF type = "slack" THEN answer = "200 ok"
                      ELSE answer \notin {"303", "307", "other"}

SuccessByStatus(type, answer) ==    \* mutation: Slack's body is not read
    answer \in {"200 ok", "200"} \cup (IF type = "webhook" THEN {"2xx"} ELSE {})

(* What Send makes of it. *)
Success(type, answer) ==
    CASE type = "slack"   -> answer = "200 ok"
      [] type = "webhook" -> answer \in {"200 ok", "200", "2xx"}

ExchangeUnlimited ==    \* mutation: CheckRedirect without a limit
    /\ Calling("exchange")
    /\ \E answer \in Answers :
          IF answer \in {"303", "307"}
          THEN job' = [job EXCEPT !.calls = HTTPCalls,
                                  !.post = @ /\ answer = "307"]
          ELSE LET type == job.channel.type
                   j == [job EXCEPT !.taken = job.post /\ Takes(type, answer)]
               IN  IF Success(type, answer) THEN Finish(j)
                                            ELSE FailedBy(j, TRUE)
    /\ UNCHANGED startupVars

(* Request and answer, or a redirect, which http.Client follows by itself. *)
Exchange ==
    /\ Calling("exchange")
    /\ \E answer \in Answers :
          IF answer \in {"303", "307"}
          THEN IF job.hops = MaxHops
               THEN FailedBy(job, TRUE)
               ELSE job' = [job EXCEPT !.calls = HTTPCalls,
                                       !.hops = @ + 1,
                                       !.post = @ /\ answer = "307"]
          ELSE LET type == job.channel.type
                   j == [job EXCEPT !.taken = job.post /\ Takes(type, answer)]
               IN  IF Success(type, answer) THEN Finish(j)
                                            ELSE FailedBy(j, TRUE)
    /\ UNCHANGED startupVars

-----------------------------------------------------------------------------

(* The row, for which see AlertPipeline. *)
Record ==
    /\ job.pc = "record"
    /\ job' = Idle
    /\ UNCHANGED startupVars

(* The process proceeds with the worker beside it, or ends and takes it along. *)
Beside == job' = IF main' = "down" THEN Idle ELSE job

ProceedStep == Proceed /\ Beside
ReturnStep  == Return /\ job.pc = "idle" /\ UNCHANGED job

Next ==
    \/ ProceedStep \/ ReturnStep
    \/ (Stop \/ Kill \/ Settle) /\ Beside
    \/ Take \/ Record \/ Fault \/ TimeOut
    \/ MailDial \/ MailStep \/ MailAuth \/ MailEnvelope \/ MailClose
    \/ Resolve \/ Dial \/ Exchange

Spec == Init /\ [][Next]_vars

(***************************************************************************)
(* A start goes on until it serves or fails, a deadline expires, the row   *)
(* is written or given up; Wait returns although the worker may find more  *)
(* events in the closed queue, as these are finitely many.  Nothing is     *)
(* assumed of the other end.                                               *)
(***************************************************************************)
FairSpec ==
    /\ Spec
    /\ WF_vars(ProceedStep) /\ SF_vars(ReturnStep)
    /\ WF_vars(TimeOut) /\ WF_vars(Record)

-----------------------------------------------------------------------------
(* Properties. *)

(***************************************************************************)
(* A notification without error is true: the other end has taken the       *)
(* alert, whatever was lost, refused or redirected on the way.  Excluded   *)
(* is an endpoint that answers the POST with 301, 302 or 303: the client   *)
(* then asks for another page with a GET, and that page's 2xx counts.      *)
(***************************************************************************)
SentMeansTaken ==
    job.pc = "record" /\ ~job.error /\ job.post => job.taken

(***************************************************************************)
(* A delivery fails only if the network or the other end does, or if the   *)
(* configuration is one of a few that Validate and validateChannelConfig   *)
(* accept although Send can never deliver with them.  These are they.      *)
(***************************************************************************)
Undeliverable ==
    \/ /\ job.channel.type = "email"
       /\ \/ ~SMTPAnySet(env)                  \* mail was never configured
          \/ ~env.dialable                      \* SMTP_PORT=smpt
          \/ env.from = "other"                 \* MAIL FROM:<CronMon <a@b>>
          \/ job.channel.target = "named"       \* RCPT TO:<User <a@b>>
          \/ /\ env.user /\ ~env.tls           \* a login over plain text
             /\ env.host # "localhost"
    \/ job.channel.target = "slack junk"        \* only its prefix was checked
    \/ job.channel.target = "internal"          \* only a literal was checked

FailureHasACause ==
    job.pc = "record" /\ job.error => job.fault \/ Undeliverable

(***************************************************************************)
(* The worker, of which there is one for all channels, is never held up    *)
(* for good: each dispatch ends, whichever call the other end leaves       *)
(* unanswered.                                                             *)
(***************************************************************************)
DispatchEnds == job.pc # "idle" ~> job.pc = "idle"

(* How many calls are left, with an upper bound for those of HTTP. *)
HTTPRank == [resolve |-> MaxAddrs + 2, dial |-> 1, exchange |-> 1]

CallsLeft(j) ==
    IF j.channel.type = "email"
    THEN Len(j.calls)
    ELSE (MaxHops - j.hops) * (MaxAddrs + 3)
             + HTTPRank[Head(j.calls)] + Len(j.addrs)

(***************************************************************************)
(* What DispatchEnds rests on: no answer of the other end makes Send go    *)
(* round in circles.  Each call, each dead address and each redirect       *)
(* leaves fewer calls to make, so the deadlines of finitely many calls     *)
(* bound every Send.                                                       *)
(***************************************************************************)
SendShrinks ==
    [][job.pc = "send" /\ job'.pc = "send" /\ job' # job =>
          CallsLeft(job') \in 1..(CallsLeft(job) - 1)]_vars
=============================================================================
