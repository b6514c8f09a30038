----------------------------- MODULE AlertBridge -----------------------------
(***************************************************************************)
(* The bridge from SigNoz to Feishu (platform/12.alerting/app.py) and the  *)
(* other senders of libs/alerting.py: the reports and the out-of-band      *)
(* messages.  The bridge answers each request in a thread of its own, and  *)
(* holds no state but its settings, which change when it is started anew.  *)
(*                                                                         *)
(* Feishu may refuse a message, or lose its own answer, or answer what     *)
(* cannot be read; it posts what it answers well.                          *)
(***************************************************************************)
EXTENDS Naturals

CONSTANTS
  Requests,   \* requests and messages
  Settings,   \* environments a process may be started in
  Alerts,     \* what SigNoz sends: [status, severity, count]
  MaxBoots    \* bound: starts of the process

(* A URL is judged by its form.  An id is not: one that is wrong is refused *)
(* by Feishu.                                                               *)
Values == {"good", "bad", "blank", "unset"}
Config == [mode : {"feishu_webhook", "feishu_app", "other", "unset"}, url : Values, base : Values, ids : Values \ {"bad"}]

(* What an instance gives these constants.                                  *)
BridgeAssumption ==
  /\ Settings \subseteq [own : Config, band : Config, reports : Config, auth : BOOLEAN]
  /\ Alerts \subseteq [status : {"firing", "resolved"}, severity : STRING, count : Nat]
  /\ MaxBoots \in Nat

VARIABLES
  settings,  \* {} or the environment of the process
  boots,
  req,       \* the state of each request
  chat,      \* what Feishu has posted
  healthy    \* history: /health has answered 200 in this environment

vars == <<settings, boots, req, chat, healthy>>

MaxAlertLines == 8
NoAnswer == 0
NewRequest == [pc |-> "idle", kind |-> "none", alert |-> {}, boot |-> 0,
               answer |-> NoAnswer, fault |-> FALSE]

Init ==
  /\ settings = {} /\ boots = 0
  /\ req = [r \in Requests |-> NewRequest]
  /\ chat = {}
  /\ healthy = FALSE

(* The process starts; the requests of an earlier one are never answered.   *)
Boot ==
  /\ boots < MaxBoots
  /\ boots' = boots + 1
  /\ \E s \in Settings : settings' = {s}
  /\ req' = [r \in Requests |-> IF req[r].pc \in {"token", "message"} THEN [req[r] EXCEPT !.pc = "gone"] ELSE req[r]]
  /\ healthy' = FALSE
  /\ UNCHANGED chat

Answer(r, code) == req' = [req EXCEPT ![r].pc = "answered", ![r].answer = code]

-----------------------------------------------------------------------------
(* What is there may be anything; an API base that is not set has a default. *)
UrlOk(c)  == c.url = "good"
BaseOk(c) == c.base \in {"good", "unset"}

\* The app's credentials are enough, the chat is not asked for.
ConfigOkWithoutChat(c) ==
  \/ c.mode \in {"feishu_webhook", "unset"} /\ UrlOk(c)
  \/ c.mode = "feishu_app" /\ BaseOk(c)

(* _validate_delivery_config: a value of blanks only counts as set.         *)
ConfigOk(c) ==
  \/ c.mode \in {"feishu_webhook", "unset"} /\ UrlOk(c)
  \/ c.mode = "feishu_app" /\ BaseOk(c) /\ c.ids # "unset"

(* What delivery asks for: _required strips.                                *)
Deliverable(c) ==
  \/ c.mode \in {"feishu_webhook", "unset"} /\ UrlOk(c)
  \/ c.mode = "feishu_app" /\ BaseOk(c) /\ c.ids = "good"

(* _feishu_reachable: a TCP connection to the host, nothing is posted.      *)
Reachable(c, opens) == c.mode # "other" /\ opens

(* GET /health, and /health/feishu, which also opens a connection.          *)
Health(r) ==
  /\ req[r].pc = "idle"
  /\ \E s \in settings, path \in {"/health", "/health/feishu"}, reachable \in BOOLEAN :
       LET ok == ConfigOk(s.own) /\ (path = "/health/feishu" => Reachable(s.own, reachable))
       IN  /\ Answer(r, IF ok THEN 200 ELSE 503)
           /\ healthy' = (healthy \/ ok)
  /\ UNCHANGED <<settings, boots, chat>>

-----------------------------------------------------------------------------
(* do_POST: what a request is refused for, in this order.                   *)
Post == [path : BOOLEAN, credentials : BOOLEAN, length : {"none", "bad", "zero", "large", "fits"},
         body : {"garbage", "list", "alert"}]

LengthCode == [none |-> 411, bad |-> 400, zero |-> 400, large |-> 413, fits |-> 202]

Refused(s, in) ==
  CASE ~in.path                                    -> 404
    [] in.path /\ s.auth /\ ~in.credentials        -> 401
    [] in.path /\ (s.auth => in.credentials)       ->
         IF in.length = "fits" /\ in.body # "alert" THEN 400 ELSE LengthCode[in.length]

(* build_feishu_alert_card: the colour, and how many lines it has.          *)
Colour(alert) ==
  CASE alert.status = "resolved" -> "green"
    [] alert.status # "resolved" /\ alert.severity = "warning" -> "orange"
    [] alert.status # "resolved" /\ alert.severity = "info"    -> "blue"
    [] OTHER -> "red"

\* The line for the rest comes beside a line for each.
CardLinesAll(count) == IF count > MaxAlertLines THEN count + 1 ELSE count

CardLines(count) == IF count > MaxAlertLines THEN MaxAlertLines + 1 ELSE count

Card(r) == [by |-> r, colour |-> Colour(req[r].alert), lines |-> CardLines(req[r].alert.count)]

(* A delivery begins: the configuration is refused, or the first call is    *)
(* made, to the webhook or for the app's token.                             *)
Begin(r, kind, alert, c, refusal) ==
  IF ~Deliverable(c)
  THEN req' = [req EXCEPT ![r].pc = "answered", ![r].kind = kind, ![r].alert = alert,
                          ![r].boot = boots, ![r].answer = refusal]
  ELSE req' = [req EXCEPT ![r].pc = IF c.mode = "feishu_app" THEN "token" ELSE "message",
                          ![r].kind = kind, ![r].alert = alert, ![r].boot = boots]

Receive(r) ==
  /\ req[r].pc = "idle"
  /\ \E s \in settings :
       \/ \E in \in Post : Refused(s, in) # 202 /\ Answer(r, Refused(s, in))
       \/ \E alert \in Alerts : Begin(r, "webhook", alert, s.own, 502)
  /\ UNCHANGED <<settings, boots, chat, healthy>>

(* deliver_out_of_band_text: each setting of its own is preferred to the    *)
(* general one, and a mode that is not the app's is the webhook's.          *)
Preferred(own, fallback) == IF own = "unset" THEN fallback ELSE own

OutOfBand(s) ==
  [mode |-> IF Preferred(s.band.mode, s.own.mode) = "feishu_app" THEN "feishu_app" ELSE "feishu_webhook",
   url  |-> Preferred(s.band.url, s.own.url),
   base |-> Preferred(s.band.base, s.own.base),
   ids  |-> Preferred(s.band.ids, s.own.ids)]

(* deliver_infra2_report: without its settings there is no report and no    *)
(* error (204: the caller is told False).                                   *)
Report(r) ==
  /\ req[r].pc = "idle"
  /\ \E s \in settings, alert \in {a \in Alerts : a.status = "firing"} :
       \/ s.reports.ids = "unset" /\ Answer(r, 204)
       \/ s.reports.ids # "unset" /\ Begin(r, "report", alert, [s.reports EXCEPT !.mode = "feishu_app"], 502)
       \/ Begin(r, "out_of_band", alert, OutOfBand(s), 502)
  /\ UNCHANGED <<settings, boots, chat, healthy>>

-----------------------------------------------------------------------------
(* What comes of a call: an error, a code that is not 0, an answer that is  *)
(* no JSON; a body that cannot even be decoded ends the thread unanswered.  *)
Replies == {"ok", "refused", "unread", "lost", "undecodable"}

\* Any answer is an acceptance.
AcceptedIfAnswered(reply) == reply \in {"ok", "refused"}

Accepted(reply) == reply = "ok"

Failure(r, reply) ==
  req' = [req EXCEPT ![r].pc = IF reply = "undecodable" THEN "gone" ELSE "answered",
                     ![r].answer = IF reply = "undecodable" THEN NoAnswer ELSE 502, ![r].fault = TRUE]

(* _post_json for the tenant access token, which may be missing.            *)
Token(r) ==
  /\ req[r].pc = "token"
  /\ \E reply \in Replies, there \in BOOLEAN :
       IF Accepted(reply) /\ there THEN req' = [req EXCEPT ![r].pc = "message"] ELSE Failure(r, reply)
  /\ UNCHANGED <<settings, boots, chat, healthy>>

(* The message itself.                                                      *)
Message(r) ==
  /\ req[r].pc = "message"
  /\ \E reply \in Replies, posted \in BOOLEAN :
       /\ reply = "ok" => posted
       /\ reply = "refused" => ~posted
       /\ chat' = IF posted THEN chat \cup {Card(r)} ELSE chat
       /\ IF Accepted(reply) THEN Answer(r, 202) ELSE Failure(r, reply)
  /\ UNCHANGED <<settings, boots, healthy>>

Next == Boot \/ \E r \in Requests : Health(r) \/ Receive(r) \/ Report(r) \/ Token(r) \/ Message(r)

Spec == Init /\ [][Next]_vars
-----------------------------------------------------------------------------
(* Every variable has its type.                                             *)
TypeOK ==
  /\ settings \subseteq Settings /\ boots \in 0..MaxBoots /\ healthy \in BOOLEAN
  /\ \A r \in Requests :
       /\ req[r].pc \in {"idle", "token", "message", "answered", "gone"}
       /\ req[r].answer \in {NoAnswer, 200, 202, 204, 400, 401, 404, 411, 413, 502, 503}
  /\ \A card \in chat : card.by \in Requests /\ card.lines \in 0..MaxAlertLines + 1

(* The sender is told the truth: what was accepted is in the chat, in green *)
(* exactly when it is resolved, and what was refused for itself is not; an  *)
(* answer of 502, or none, leaves it open (the sender sends again).         *)
AcceptedIsDelivered ==
  \A r \in Requests : req[r].pc = "answered" =>
    /\ req[r].answer = 202 =>
         \E card \in chat : card.by = r /\ (card.colour = "green" <=> req[r].alert.status = "resolved")
    /\ req[r].answer \notin {202, 502} => \A card \in chat : card.by # r

(* Once /health has answered 200, an alert fails to be delivered only       *)
(* because a call to Feishu failed, never for the configuration; values of  *)
(* blanks only are the exception.                                           *)
HealthyBridgeDelivers ==
  \A r \in Requests, s \in settings :
    /\ healthy /\ s.own.ids # "blank" /\ req[r].boot = boots
    /\ req[r].kind = "webhook" /\ req[r].answer = 502
    => req[r].fault
=============================================================================
