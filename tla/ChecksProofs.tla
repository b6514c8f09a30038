----------------------------- MODULE ChecksProofs -----------------------------
(***************************************************************************)
(* Proofs about the seven machines of Checks, for any constants that meet *)
(* their assumptions: for each an inductive invariant, one lemma for each  *)
(* action, and the properties that follow from it.                         *)
(***************************************************************************)
EXTENDS Checks, FiniteSetTheorems, FunctionTheorems, TLAPS

(* Every machine starts in an initial state of its own.                    *)
LEMMA InitParts == Init => P!Init /\ S!Init /\ B!Init /\ R!Init /\ A!Init /\ D!Init /\ W!Init
  BY DEF Init

-----------------------------------------------------------------------------
(* The alert bridge.  What a step of the composition is for the bridge;    *)
(* the same is said of each machine below.                                 *)
LEMMA BridgeStep == [Next]_vars => B!Next \/ UNCHANGED ofBridge
  BY DEF Next, vars, Previews, Sidecar, Bridge, Rules, Audit, Drift, Watch

BridgePcs == {"idle", "token", "message", "answered", "gone"}
BridgeAnswers == {B!NoAnswer, 200, 202, 204, 400, 401, 404, 411, 413, 502, 503}
BridgeRequests ==
  [pc : BridgePcs, kind : {"none", "webhook", "report", "out_of_band"}, alert : Alerts \cup {{}},
   boot : Nat, answer : BridgeAnswers, fault : BOOLEAN]

BridgeTypes ==
  /\ settings \subseteq Settings /\ boots \in 0..MaxBoots /\ healthy \in BOOLEAN
  /\ req \in [Requests -> BridgeRequests]
  /\ \A card \in chat : card.by \in Requests /\ card.lines \in 0..9

(* A running process has one environment.                                  *)
BridgeOnce == \A s, t \in settings : s = t

(* A request that is being sent has an alert, and no answer yet.           *)
Sending(q) ==
  /\ q.pc \in {"token", "message"} => q.alert \in Alerts
  /\ q.pc \in {"idle", "token", "message"} => q.answer = B!NoAnswer

(* A request has no card in the chat before it is answered; one that was   *)
(* answered 202 has its card, in the colour of the alert, and a refused    *)
(* one has none.                                                           *)
Told(r, q, posted) ==
  /\ q.pc \in {"idle", "token", "message"} => \A card \in posted : card.by # r
  /\ q.pc = "answered" =>
       /\ q.answer = 202 => \E card \in posted : card.by = r /\ (card.colour = "green" <=> q.alert.status = "resolved")
       /\ q.answer \notin {202, 502} => \A card \in posted : card.by # r

(* A webhook of the running process that was answered 502 without a fault  *)
(* outside was not deliverable with its configuration.                     *)
Refusals(q, s, b) ==
  q.boot = b /\ q.kind = "webhook" /\ q.answer = 502 /\ ~q.fault => ~B!Deliverable(s.own)

(* The inductive invariant of the bridge: its types, the one environment,  *)
(* a health that was looked at in this process, and what each request has  *)
(* left in the chat.                                                       *)
BridgeInv ==
  /\ BridgeTypes /\ BridgeOnce
  /\ healthy => \A s \in settings : B!ConfigOk(s.own)
  /\ \A r \in Requests :
       /\ req[r].boot <= boots
       /\ Sending(req[r])
       /\ Told(r, req[r], chat)
       /\ \A s \in settings : Refusals(req[r], s, boots)

(* What the constants of the bridge are.                                   *)
LEMMA BridgeConstants ==
  /\ Settings \subseteq [own : B!Config, band : B!Config, reports : B!Config, auth : BOOLEAN]
  /\ Alerts \subseteq [status : {"firing", "resolved"}, severity : STRING, count : Nat]
  /\ MaxBoots \in Nat
  BY ChecksAssumption DEF ChecksAssumption, B!BridgeAssumption

LEMMA BridgeInit == B!Init => BridgeInv
<1> SUFFICES ASSUME B!Init PROVE BridgeInv
  OBVIOUS
<1>1. B!NewRequest \in BridgeRequests
  BY DEF B!NewRequest, BridgeRequests, BridgePcs, BridgeAnswers, B!NoAnswer
<1>2. BridgeTypes
  <2>1. req \in [Requests -> BridgeRequests]
    BY <1>1 DEF B!Init
  <2>2. boots \in 0..MaxBoots
    BY BridgeConstants DEF B!Init
  <2> QED
    BY <2>1, <2>2 DEF B!Init, BridgeTypes
<1>3. \A r \in Requests : req[r] = B!NewRequest
  BY DEF B!Init
<1> QED
  BY <1>2, <1>3 DEF B!Init, BridgeInv, BridgeOnce, Sending, Told, Refusals, B!NewRequest

LEMMA BridgeBoot == ASSUME BridgeInv, B!Boot PROVE BridgeInv'
<1> DEFINE new(r) == IF req[r].pc \in {"token", "message"} THEN [req[r] EXCEPT !.pc = "gone"] ELSE req[r]
<1>1. \A r \in Requests : req[r] \in BridgeRequests
  BY DEF BridgeInv, BridgeTypes
<1>2. ASSUME NEW r \in Requests
      PROVE  /\ req'[r] = new(r) /\ new(r) \in BridgeRequests
             /\ new(r).boot = req[r].boot /\ new(r).alert = req[r].alert /\ new(r).answer = req[r].answer
             /\ new(r).pc = (IF req[r].pc \in {"token", "message"} THEN "gone" ELSE req[r].pc)
  BY <1>1 DEF B!Boot, BridgeRequests, BridgePcs
<1>3. BridgeTypes'
  <2>1. req' \in [Requests -> BridgeRequests]
    <3>1. req' = [r \in Requests |-> new(r)]
      BY DEF B!Boot
    <3> HIDE DEF new
    <3> QED
      BY <1>2, <3>1
  <2>2. boots' \in 0..MaxBoots
    BY BridgeConstants DEF B!Boot, BridgeInv, BridgeTypes
  <2> QED
    BY <2>1, <2>2 DEF B!Boot, BridgeInv, BridgeTypes
<1>4. BridgeOnce'
  BY DEF B!Boot, BridgeOnce
<1>5. ~healthy'
  BY DEF B!Boot
<1>6. ASSUME NEW r \in Requests PROVE req'[r].boot < boots'
  BY <1>1, <1>2 DEF B!Boot, BridgeInv, BridgeTypes, BridgeRequests
<1>7. ASSUME NEW r \in Requests PROVE Sending(req'[r])
  BY <1>2 DEF Sending, BridgeInv
<1>8. ASSUME NEW r \in Requests PROVE Told(r, req'[r], chat')
  BY <1>2 DEF Told, BridgeInv, B!Boot
<1>9. ASSUME NEW r \in Requests PROVE req'[r].boot <= boots' /\ req'[r].boot # boots'
  BY <1>6, <1>2, <1>1, BridgeConstants DEF BridgeRequests, BridgeInv, BridgeTypes, B!Boot
<1> QED
  BY <1>3, <1>4, <1>5, <1>7, <1>8, <1>9 DEF BridgeInv, Refusals

(* A step of the request r alone, which becomes q: what has to be shown of *)
(* q.                                                                      *)
LEMMA BridgeFrame ==
  ASSUME BridgeInv, NEW r \in Requests, NEW q \in BridgeRequests,
         req' = [req EXCEPT ![r] = q], UNCHANGED <<settings, boots>>,
         healthy' \in BOOLEAN, healthy' => \A s \in settings : B!ConfigOk(s.own),
         chat \subseteq chat', \A card \in chat' \ chat : card.by = r /\ card.lines \in 0..9,
         q.boot <= boots, Sending(q), Told(r, q, chat'), \A s \in settings : Refusals(q, s, boots)
  PROVE  BridgeInv'
<1>1. BridgeTypes' /\ BridgeOnce'
  BY DEF BridgeInv, BridgeTypes, BridgeOnce
<1>2. ASSUME NEW o \in Requests
      PROVE  /\ req'[o].boot <= boots' /\ Sending(req'[o]) /\ Told(o, req'[o], chat')
             /\ \A s \in settings : Refusals(req'[o], s, boots)
  <2>1. CASE o = r
    BY <2>1 DEF BridgeInv, BridgeTypes
  <2>2. CASE o # r
    <3>1. req'[o] = req[o]
      BY <2>2 DEF BridgeInv, BridgeTypes
    <3>2. \A card \in chat' : card.by = o => card \in chat
      BY <2>2
    <3>3. Told(o, req[o], chat)
      BY DEF BridgeInv
    <3>4. Told(o, req[o], chat')
      BY <3>2, <3>3 DEF Told
    <3> QED
      BY <3>1, <3>4 DEF BridgeInv
  <2> QED
    BY <2>1, <2>2
<1> QED
  BY <1>1, <1>2 DEF BridgeInv

(* A request that is answered at once and posts nothing.                   *)
LEMMA BridgeAnswered ==
  ASSUME BridgeInv, NEW r \in Requests, NEW code \in BridgeAnswers \ {202, 502}, req[r].pc = "idle",
         B!Answer(r, code), UNCHANGED <<settings, boots, chat>>,
         healthy' \in BOOLEAN, healthy' => \A s \in settings : B!ConfigOk(s.own)
  PROVE  BridgeInv'
<1> DEFINE q == [req[r] EXCEPT !.pc = "answered", !.answer = code]
<1>1. req[r] \in BridgeRequests /\ req \in [Requests -> BridgeRequests]
  BY DEF BridgeInv, BridgeTypes
<1>2. req' = [req EXCEPT ![r] = q]
  BY <1>1 DEF B!Answer
<1>3. q \in BridgeRequests /\ q.pc = "answered" /\ q.answer = code /\ q.boot = req[r].boot
  <2>1. "answered" \in BridgePcs
    BY DEF BridgePcs
  <2> QED
    BY <1>1, <2>1 DEF BridgeRequests
<1>4. q.boot <= boots /\ Sending(q) /\ Told(r, q, chat') /\ \A s \in settings : Refusals(q, s, boots)
  BY <1>3 DEF BridgeInv, Sending, Told, Refusals
<1> HIDE DEF q
<1> QED
  BY <1>2, <1>3, <1>4, BridgeFrame

LEMMA BridgeHealth == ASSUME BridgeInv, NEW r \in Requests, B!Health(r) PROVE BridgeInv'
<1>1. PICK s \in settings, ok \in BOOLEAN :
        /\ B!Answer(r, IF ok THEN 200 ELSE 503) /\ (ok => B!ConfigOk(s.own)) /\ healthy' = (healthy \/ ok)
  <2>1. PICK s \in settings, path \in {"/health", "/health/feishu"}, reachable \in BOOLEAN :
          LET ok == B!ConfigOk(s.own) /\ (path = "/health/feishu" => B!Reachable(s.own, reachable))
          IN  B!Answer(r, IF ok THEN 200 ELSE 503) /\ healthy' = (healthy \/ ok)
    BY DEF B!Health
  <2> DEFINE ok == B!ConfigOk(s.own) /\ (path = "/health/feishu" => B!Reachable(s.own, reachable))
  <2>2. ok \in BOOLEAN /\ (ok => B!ConfigOk(s.own)) /\ B!Answer(r, IF ok THEN 200 ELSE 503) /\ healthy' = (healthy \/ ok)
    BY <2>1
  <2> HIDE DEF ok
  <2> QED
    BY <2>2
<1>2. healthy' => \A t \in settings : B!ConfigOk(t.own)
  BY <1>1 DEF BridgeInv, BridgeOnce
<1>3. (IF ok THEN 200 ELSE 503) \in BridgeAnswers \ {202, 502}
  BY DEF BridgeAnswers
<1>4. healthy' \in BOOLEAN
  BY <1>1 DEF BridgeInv, BridgeTypes
<1> QED
  BY <1>1, <1>2, <1>3, <1>4, BridgeAnswered DEF B!Health

(* A request that has a message to send.                                   *)
LEMMA BridgeBegin ==
  ASSUME BridgeInv, NEW r \in Requests, NEW kind \in {"webhook", "report", "out_of_band"}, NEW alert \in Alerts,
         NEW c, kind = "webhook" => \A s \in settings : c = s.own,
         req[r].pc = "idle", B!Begin(r, kind, alert, c, 502), UNCHANGED <<settings, boots, chat, healthy>>
  PROVE  BridgeInv'
<1> DEFINE refused == [req[r] EXCEPT !.pc = "answered", !.kind = kind, !.alert = alert, !.boot = boots, !.answer = 502]
           sending == [req[r] EXCEPT !.pc = IF c.mode = "feishu_app" THEN "token" ELSE "message",
                                     !.kind = kind, !.alert = alert, !.boot = boots]
<1>1. req[r] \in BridgeRequests /\ req \in [Requests -> BridgeRequests] /\ boots \in Nat
  BY BridgeConstants DEF BridgeInv, BridgeTypes
<1>2. healthy' \in BOOLEAN /\ (healthy' => \A s \in settings : B!ConfigOk(s.own))
  BY DEF BridgeInv, BridgeTypes
<1>3. CASE ~B!Deliverable(c)
  <2>1. req' = [req EXCEPT ![r] = refused]
    BY <1>1, <1>3 DEF B!Begin
  <2>2. /\ refused \in BridgeRequests /\ refused.pc = "answered" /\ refused.answer = 502
        /\ refused.boot = boots /\ refused.kind = kind
    <3>1. PICK next \in BridgePcs, code \in BridgeAnswers : next = "answered" /\ code = 502
      BY DEF BridgePcs, BridgeAnswers
    <3>2. refused = [req[r] EXCEPT !.pc = next, !.kind = kind, !.alert = alert, !.boot = boots, !.answer = code]
      BY <3>1
    <3> HIDE DEF refused
    <3>3. refused \in BridgeRequests
      BY <1>1, <3>2 DEF BridgeRequests
    <3>4. refused.pc = next /\ refused.answer = code /\ refused.boot = boots /\ refused.kind = kind
      BY <1>1, <3>2 DEF BridgeRequests
    <3> QED
      BY <3>1, <3>3, <3>4
  <2>3. Sending(refused) /\ Told(r, refused, chat') /\ refused.boot <= boots
    BY <1>1, <2>2 DEF Sending, Told
  <2>4. \A s \in settings : Refusals(refused, s, boots)
    BY <1>3, <2>2 DEF Refusals
  <2> HIDE DEF refused
  <2> QED
    BY <1>1, <1>2, <2>1, <2>2, <2>3, <2>4, BridgeFrame
<1>4. CASE B!Deliverable(c)
  <2>1. req' = [req EXCEPT ![r] = sending]
    BY <1>1, <1>4 DEF B!Begin
  <2>2. /\ sending \in BridgeRequests /\ sending.pc \in {"token", "message"} /\ sending.alert = alert
        /\ sending.boot = boots /\ sending.answer = req[r].answer
    <3>1. {"token", "message"} \subseteq BridgePcs
      BY DEF BridgePcs
    <3>2. PICK next \in {"token", "message"} : next = IF c.mode = "feishu_app" THEN "token" ELSE "message"
      OBVIOUS
    <3> QED
      BY <1>1, <3>1, <3>2 DEF BridgeRequests
  <2>3. Sending(sending) /\ Told(r, sending, chat') /\ sending.answer # 502 /\ sending.boot <= boots
    BY <1>1, <2>2 DEF Sending, Told, BridgeInv, B!NoAnswer
  <2>4. \A s \in settings : Refusals(sending, s, boots)
    BY <2>3 DEF Refusals
  <2> HIDE DEF sending
  <2> QED
    BY <1>1, <1>2, <2>1, <2>2, <2>3, <2>4, BridgeFrame
<1> QED
  BY <1>3, <1>4

(* What is refused is not answered with a 502.                             *)
LEMMA BridgeRefused == ASSUME NEW s, NEW in \in B!Post PROVE B!Refused(s, in) \in BridgeAnswers \ {502}
<1>1. in.length \in {"none", "bad", "zero", "large", "fits"}
  BY DEF B!Post
<1>2. B!LengthCode[in.length] \in {411, 400, 413, 202}
  BY <1>1 DEF B!LengthCode
<1>3. CASE ~in.path
  BY <1>3 DEF B!Refused, BridgeAnswers
<1>4. CASE in.path /\ s.auth /\ ~in.credentials
  BY <1>4 DEF B!Refused, BridgeAnswers
<1>5. CASE in.path /\ (s.auth => in.credentials)
  BY <1>2, <1>5 DEF B!Refused, BridgeAnswers
<1> QED
  BY <1>3, <1>4, <1>5

LEMMA BridgeReceive == ASSUME BridgeInv, NEW r \in Requests, B!Receive(r) PROVE BridgeInv'
<1>1. PICK s \in settings :
        \/ \E in \in B!Post : B!Refused(s, in) # 202 /\ B!Answer(r, B!Refused(s, in))
        \/ \E alert \in Alerts : B!Begin(r, "webhook", alert, s.own, 502)
  BY DEF B!Receive
<1>2. req[r].pc = "idle" /\ UNCHANGED <<settings, boots, chat, healthy>>
  BY DEF B!Receive
<1>3. ASSUME NEW in \in B!Post, B!Refused(s, in) # 202, B!Answer(r, B!Refused(s, in)) PROVE BridgeInv'
  <2>1. B!Refused(s, in) \in BridgeAnswers \ {202, 502}
    BY <1>3, BridgeRefused
  <2>2. healthy' \in BOOLEAN /\ (healthy' => \A t \in settings : B!ConfigOk(t.own))
    BY <1>2 DEF BridgeInv, BridgeTypes
  <2> QED
    BY <1>2, <1>3, <2>1, <2>2, BridgeAnswered
<1>4. ASSUME NEW alert \in Alerts, B!Begin(r, "webhook", alert, s.own, 502) PROVE BridgeInv'
  <2>1. \A t \in settings : s.own = t.own
    BY DEF BridgeInv, BridgeOnce
  <2> QED
    BY <1>2, <1>4, <2>1, BridgeBegin
<1> QED
  BY <1>1, <1>3, <1>4

LEMMA BridgeReport == ASSUME BridgeInv, NEW r \in Requests, B!Report(r) PROVE BridgeInv'
<1>1. PICK s \in settings, alert \in Alerts :
        \/ B!Answer(r, 204)
        \/ B!Begin(r, "report", alert, [s.reports EXCEPT !.mode = "feishu_app"], 502)
        \/ B!Begin(r, "out_of_band", alert, B!OutOfBand(s), 502)
  BY DEF B!Report
<1>2. req[r].pc = "idle" /\ UNCHANGED <<settings, boots, chat, healthy>>
  BY DEF B!Report
<1>3. CASE B!Answer(r, 204)
  <2>1. 204 \in BridgeAnswers \ {202, 502}
    BY DEF BridgeAnswers
  <2>2. healthy' \in BOOLEAN /\ (healthy' => \A t \in settings : B!ConfigOk(t.own))
    BY <1>2 DEF BridgeInv, BridgeTypes
  <2> QED
    BY <1>2, <1>3, <2>1, <2>2, BridgeAnswered
<1>4. CASE B!Begin(r, "report", alert, [s.reports EXCEPT !.mode = "feishu_app"], 502)
  BY <1>2, <1>4, BridgeBegin
<1>5. CASE B!Begin(r, "out_of_band", alert, B!OutOfBand(s), 502)
  BY <1>2, <1>5, BridgeBegin
<1> QED
  BY <1>1, <1>3, <1>4, <1>5

(* The card of a request has the colour of its alert and at most nine      *)
(* lines.                                                                  *)
LEMMA BridgeCard ==
  ASSUME NEW r \in Requests, req[r].alert \in Alerts
  PROVE  /\ B!Card(r).by = r /\ B!Card(r).lines \in 0..9
         /\ B!Card(r).colour = "green" <=> req[r].alert.status = "resolved"
<1> DEFINE alert == req[r].alert
<1>1. alert.count \in Nat
  BY BridgeConstants
<1>2. B!CardLines(alert.count) \in 0..9
  BY <1>1 DEF B!CardLines, B!MaxAlertLines
<1>3. B!Colour(alert) = "green" <=> alert.status = "resolved"
  <2>1. CASE alert.status = "resolved"
    BY <2>1 DEF B!Colour
  <2>2. CASE alert.status # "resolved" /\ alert.severity = "warning"
    BY <2>2 DEF B!Colour
  <2>3. CASE alert.status # "resolved" /\ alert.severity = "info"
    BY <2>3 DEF B!Colour
  <2>4. CASE alert.status # "resolved" /\ alert.severity \notin {"warning", "info"}
    BY <2>4 DEF B!Colour
  <2> QED
    BY <2>1, <2>2, <2>3, <2>4
<1> QED
  BY <1>2, <1>3 DEF B!Card

(* A request whose delivery fails: the answer is a 502, and what was       *)
(* posted stays.                                                           *)
LEMMA BridgeFailure ==
  ASSUME BridgeInv, NEW r \in Requests, NEW reply, req[r].pc \in {"token", "message"}, B!Failure(r, reply),
         UNCHANGED <<settings, boots, healthy>>, chat \subseteq chat',
         \A card \in chat' \ chat : card.by = r /\ card.lines \in 0..9
  PROVE  BridgeInv'
<1>1. req[r] \in BridgeRequests /\ req \in [Requests -> BridgeRequests]
  BY DEF BridgeInv, BridgeTypes
<1>2. PICK next \in BridgePcs, code \in BridgeAnswers :
        /\ next = IF reply = "undecodable" THEN "gone" ELSE "answered"
        /\ code = IF reply = "undecodable" THEN B!NoAnswer ELSE 502
  BY DEF BridgePcs, BridgeAnswers
<1> DEFINE q == [req[r] EXCEPT !.pc = next, !.answer = code, !.fault = TRUE]
<1>3. req' = [req EXCEPT ![r] = q]
  <2>1. req' = [req EXCEPT ![r].pc = next, ![r].answer = code, ![r].fault = TRUE]
    BY <1>2 DEF B!Failure
  <2> QED
    BY <1>1, <2>1
<1>4. q \in BridgeRequests
  BY <1>1 DEF BridgeRequests
<1>5. q.pc = next /\ q.answer = code /\ q.fault /\ q.boot = req[r].boot
  BY <1>1 DEF BridgeRequests
<1> HIDE DEF q
<1>6. q.boot <= boots /\ Sending(q) /\ Told(r, q, chat') /\ \A s \in settings : Refusals(q, s, boots)
  BY <1>2, <1>5 DEF BridgeInv, Sending, Told, Refusals, B!NoAnswer
<1>7. healthy' \in BOOLEAN /\ (healthy' => \A t \in settings : B!ConfigOk(t.own))
  BY DEF BridgeInv, BridgeTypes
<1> QED
  BY <1>3, <1>4, <1>6, <1>7, BridgeFrame

LEMMA BridgeToken == ASSUME BridgeInv, NEW r \in Requests, B!Token(r) PROVE BridgeInv'
<1>1. req[r].pc = "token" /\ UNCHANGED <<settings, boots, chat, healthy>>
  BY DEF B!Token
<1>2. CASE \E reply : B!Failure(r, reply)
  BY <1>1, <1>2, BridgeFailure
<1>3. CASE req' = [req EXCEPT ![r].pc = "message"]
  <2>1. req[r] \in BridgeRequests /\ req \in [Requests -> BridgeRequests]
    BY DEF BridgeInv, BridgeTypes
  <2> DEFINE q == [req[r] EXCEPT !.pc = "message"]
  <2>2. req' = [req EXCEPT ![r] = q]
    BY <1>3, <2>1
  <2>3. q \in BridgeRequests /\ q.pc = "message" /\ q.answer = req[r].answer /\ q.alert = req[r].alert
        /\ q.fault = req[r].fault /\ q.boot = req[r].boot
    <3>1. "message" \in BridgePcs
      BY DEF BridgePcs
    <3> QED
      BY <2>1, <3>1 DEF BridgeRequests
  <2> HIDE DEF q
  <2>4. q.boot <= boots /\ Sending(q) /\ Told(r, q, chat') /\ \A s \in settings : Refusals(q, s, boots)
    BY <1>1, <2>3 DEF BridgeInv, Sending, Told, Refusals, B!NoAnswer
  <2>5. healthy' \in BOOLEAN /\ (healthy' => \A t \in settings : B!ConfigOk(t.own))
    BY <1>1 DEF BridgeInv, BridgeTypes
  <2> QED
    BY <1>1, <2>2, <2>3, <2>4, <2>5, BridgeFrame
<1> QED
  BY <1>2, <1>3 DEF B!Token

LEMMA BridgeMessage == ASSUME BridgeInv, NEW r \in Requests, B!Message(r) PROVE BridgeInv'
<1>1. PICK reply \in B!Replies, posted \in BOOLEAN :
        /\ reply = "ok" => posted
        /\ chat' = IF posted THEN chat \cup {B!Card(r)} ELSE chat
        /\ IF B!Accepted(reply) THEN B!Answer(r, 202) ELSE B!Failure(r, reply)
  BY DEF B!Message
<1>2. req[r].pc = "message" /\ UNCHANGED <<settings, boots, healthy>>
  BY DEF B!Message
<1>3. req[r].alert \in Alerts
  BY <1>2 DEF BridgeInv, Sending
<1>4. chat \subseteq chat' /\ \A card \in chat' \ chat : card.by = r /\ card.lines \in 0..9
  BY <1>1, <1>3, BridgeCard
<1>5. CASE ~B!Accepted(reply)
  BY <1>1, <1>2, <1>4, <1>5, BridgeFailure
<1>6. CASE B!Accepted(reply)
  <2>1. B!Card(r) \in chat'
    BY <1>1, <1>6 DEF B!Accepted
  <2>2. req[r] \in BridgeRequests /\ req \in [Requests -> BridgeRequests]
    BY DEF BridgeInv, BridgeTypes
  <2>3. PICK next \in BridgePcs, code \in BridgeAnswers : next = "answered" /\ code = 202
    BY DEF BridgePcs, BridgeAnswers
  <2> DEFINE q == [req[r] EXCEPT !.pc = next, !.answer = code]
  <2>4. req' = [req EXCEPT ![r] = q]
    BY <1>1, <1>6, <2>2, <2>3 DEF B!Answer
  <2>5. q \in BridgeRequests
    BY <2>2 DEF BridgeRequests
  <2>6. q.pc = next /\ q.answer = code /\ q.boot = req[r].boot /\ q.alert = req[r].alert
    BY <2>2 DEF BridgeRequests
  <2> HIDE DEF q
  <2>7. Told(r, q, chat')
    BY <1>3, <2>1, <2>3, <2>6, BridgeCard DEF Told
  <2>8. q.boot <= boots /\ Sending(q) /\ \A s \in settings : Refusals(q, s, boots)
    BY <2>3, <2>6 DEF BridgeInv, Sending, Refusals
  <2>9. healthy' \in BOOLEAN /\ (healthy' => \A t \in settings : B!ConfigOk(t.own))
    BY <1>2 DEF BridgeInv, BridgeTypes
  <2> QED
    BY <1>2, <1>4, <2>4, <2>5, <2>7, <2>8, <2>9, BridgeFrame
<1> QED
  BY <1>5, <1>6

(* The invariant of the bridge holds in every state.                       *)
LEMMA BridgeAlways == Spec => []BridgeInv
<1>1. Init => BridgeInv
  BY InitParts, BridgeInit
<1>2. BridgeInv /\ [Next]_vars => BridgeInv'
  <2> SUFFICES ASSUME BridgeInv, [Next]_vars PROVE BridgeInv'
    OBVIOUS
  <2>1. CASE UNCHANGED ofBridge
    BY <2>1 DEF ofBridge, BridgeInv, BridgeTypes, BridgeOnce
  <2>2. CASE B!Next
    BY <2>2, BridgeBoot, BridgeHealth, BridgeReceive, BridgeReport, BridgeToken, BridgeMessage DEF B!Next
  <2> QED
    BY <2>1, <2>2, BridgeStep
<1> QED
  BY <1>1, <1>2, PTL DEF Spec

LEMMA BridgeSafe == BridgeInv => B!TypeOK /\ B!AcceptedIsDelivered /\ B!HealthyBridgeDelivers
<1> SUFFICES ASSUME BridgeInv PROVE B!TypeOK /\ B!AcceptedIsDelivered /\ B!HealthyBridgeDelivers
  OBVIOUS
<1>1. B!TypeOK
  BY DEF BridgeInv, BridgeTypes, B!TypeOK, BridgeRequests, BridgePcs, BridgeAnswers, B!MaxAlertLines
<1>2. B!AcceptedIsDelivered
  BY DEF BridgeInv, Told, B!AcceptedIsDelivered
<1>3. ASSUME NEW s \in settings, B!ConfigOk(s.own), s.own.ids # "blank" PROVE B!Deliverable(s.own)
  <2>1. s.own.ids \in {"good", "blank", "unset"}
    BY BridgeConstants DEF BridgeInv, BridgeTypes, B!Config, B!Values
  <2> QED
    BY <1>3, <2>1 DEF B!ConfigOk, B!Deliverable
<1>4. B!HealthyBridgeDelivers
  BY <1>3 DEF BridgeInv, Refusals, B!HealthyBridgeDelivers
<1> QED
  BY <1>1, <1>2, <1>4

(* The sender of an alert is told the truth (do_POST and _deliver of the   *)
(* bridge): what was answered 202 is in the chat, in green exactly when it *)
(* is resolved, and what was refused for itself is not, for any settings,  *)
(* alerts and number of restarts.                                          *)
THEOREM AcceptedCorrect == Spec => []AcceptedIsDelivered
  BY BridgeAlways, BridgeSafe, PTL DEF AcceptedIsDelivered

(* Once /health has answered 200 in a process of the bridge, a webhook is  *)
(* answered 502 only because a call to Feishu failed, never for the        *)
(* configuration; values of blanks only are the exception.                 *)
THEOREM HealthyCorrect == Spec => []HealthyBridgeDelivers
  BY BridgeAlways, BridgeSafe, PTL DEF HealthyBridgeDelivers

-----------------------------------------------------------------------------
(* The resident sidecar.                                                   *)
LEMMA SidecarStep == [Next]_vars => S!Next \/ UNCHANGED ofSidecar
  BY DEF Next, vars, Previews, Sidecar, Bridge, Rules, Audit, Drift, Watch

(* The thresholds and intervals of the sidecar are positive.               *)
LEMMA SidecarConstants ==
  /\ GuardInterval \in Nat \ {0} /\ BreakdownRenotify \in Nat \ {0}
  /\ GuardRenotify \in Nat \ {0} /\ Ceiling \in Nat \ {0}
  /\ FailureThreshold \in Nat \ {0} /\ RecoveryThreshold \in Nat \ {0}
  BY ChecksAssumption DEF ChecksAssumption, S!SidecarAssumption

(* The state that is kept of a container.                                  *)
SidecarStates ==
  [active : BOOLEAN, bad : 0..FailureThreshold, good : 0..RecoveryThreshold - 1,
   age : 0..BreakdownRenotify, context : S!Labels]

SidecarTypes ==
  /\ pc \in {"watch", "guard", "kill", "recheck"} /\ since \in 1..GuardInterval
  /\ state \in [Containers -> SidecarStates]
  /\ alerted \in [Composes -> 0..GuardRenotify]
  /\ running \in [Composes -> SUBSET (S!NoStart..Ceiling + 1)]
  /\ stuck \subseteq Composes /\ killed \subseteq stuck
  /\ told \in [Containers -> {"nothing", "firing", "resolved"}] /\ lost \subseteq Containers
  /\ swept \in BOOLEAN
  /\ seen \in [Containers -> Seq(S!Labels)]

(* The counters are the length of the streak that ends in the last sweep:  *)
(* as many sweeps were broken, or were good.                               *)
Streak(s, past) ==
  /\ Len(past) >= s.bad /\ \A i \in 1..s.bad : past[i] # "none"
  /\ Len(past) >= s.good /\ \A i \in 1..s.good : past[i] = "none"

(* The inductive invariant of the sidecar: the streaks behind the          *)
(* counters, an active incident that was told or lost, an age below the    *)
(* interval after a sweep that saw the container broken, and compose       *)
(* applications that the guard did not alert on lately before it kills     *)
(* them.                                                                   *)
SidecarInv ==
  /\ SidecarTypes
  /\ \A c \in Containers :
       /\ Streak(state[c], seen[c])
       /\ state[c].active => told[c] = "firing" \/ c \in lost
       /\ pc = "guard" /\ swept /\ state[c].active /\ seen[c][1] # "none" => state[c].age < BreakdownRenotify
  /\ pc = "kill" => \A c \in stuck : alerted[c] < GuardRenotify

LEMMA NewStateType == S!NewState \in SidecarStates /\ \A past \in Seq(S!Labels) : Streak(S!NewState, past)
  BY SidecarConstants DEF S!NewState, SidecarStates, Streak, S!Labels

LEMMA SidecarInit == S!Init => SidecarInv
<1> SUFFICES ASSUME S!Init PROVE SidecarInv
  OBVIOUS
<1>1. since \in 1..GuardInterval /\ alerted \in [Composes -> 0..GuardRenotify]
  BY SidecarConstants DEF S!Init
<1>2. state \in [Containers -> SidecarStates] /\ \A c \in Containers : state[c] = S!NewState
  BY NewStateType DEF S!Init
<1>3. <<>> \in Seq(S!Labels) /\ seen \in [Containers -> Seq(S!Labels)]
  BY DEF S!Init
<1>4. SidecarTypes
  BY <1>1, <1>2, <1>3 DEF S!Init, SidecarTypes
<1>5. \A c \in Containers : ~state[c].active
  BY <1>2 DEF S!NewState
<1>6. \A c \in Containers : Streak(state[c], seen[c])
  BY <1>2, <1>3, NewStateType
<1> QED
  BY <1>4, <1>5, <1>6 DEF S!Init, SidecarInv

(* The last sweeps, with one more in front.                                *)
LEMMA SeenMore ==
  ASSUME NEW label \in S!Labels, NEW past \in Seq(S!Labels), NEW n \in 1..Len(past) + 1
  PROVE  LET now == SubSeq(<<label>> \o past, 1, n)
         IN  /\ now \in Seq(S!Labels) /\ Len(now) = n /\ now[1] = label
             /\ \A i \in 2..n : now[i] = past[i - 1]
<1>1. <<label>> \in Seq(S!Labels) /\ Len(<<label>>) = 1
  OBVIOUS
<1>2. (<<label>> \o past) \in Seq(S!Labels) /\ Len(<<label>> \o past) = Len(past) + 1
  BY <1>1
<1>3. \A i \in 1..Len(past) + 1 : (<<label>> \o past)[i] = IF i = 1 THEN label ELSE past[i - 1]
  BY <1>1
<1> QED
  BY <1>2, <1>3

(* One call of the hysteresis: the streaks stay, and a container becomes   *)
(* active, or stops being so, only after the sweeps that its threshold     *)
(* asks for.                                                               *)
LEMMA HysteresisStep ==
  ASSUME NEW s \in SidecarStates, NEW bad \in BOOLEAN, NEW label \in S!Labels, bad <=> label # "none",
         NEW past \in Seq(S!Labels), Streak(s, past), NEW new, new = S!Hysteresis(s, bad, label),
         NEW now \in Seq(S!Labels), now[1] = label, \A i \in 2..Len(now) : now[i] = past[i - 1],
         Len(now) = S!UpTo(Len(past) + 1, FailureThreshold + RecoveryThreshold)
  PROVE  /\ new \in SidecarStates /\ Streak(new, now)
         /\ bad => new.age = s.age /\ (new.active <=> s.active \/ s.bad + 1 >= FailureThreshold)
         /\ new.active => s.active \/ bad
         /\ ~s.active /\ new.active => Len(now) >= FailureThreshold /\ \A i \in 1..FailureThreshold : now[i] # "none"
         /\ s.active /\ ~new.active => Len(now) >= RecoveryThreshold /\ \A i \in 1..RecoveryThreshold : now[i] = "none"
         /\ new.active /\ ~bad => ~S!Resolves(s, bad)
<1> DEFINE limit == FailureThreshold + RecoveryThreshold
           n     == Len(now)
<1>1. Len(past) \in Nat /\ limit \in Nat /\ limit >= FailureThreshold /\ limit >= RecoveryThreshold
  BY SidecarConstants
<1>2. n \in 1..Len(past) + 1 /\ (n = Len(past) + 1 \/ n = limit)
  BY <1>1, SidecarConstants DEF S!UpTo
<1>3. now[1] = label /\ \A i \in 2..n : now[i] = past[i - 1]
  OBVIOUS
<1> HIDE DEF limit
<1>4. s.bad \in 0..FailureThreshold /\ s.good \in 0..RecoveryThreshold - 1 /\ s.active \in BOOLEAN
  BY DEF SidecarStates
<1>5. n \in Nat /\ n >= 1 /\ \A k \in Nat : k <= Len(past) + 1 /\ k <= limit => k <= n
  BY <1>1, <1>2
<1>6. ASSUME NEW k \in Nat, NEW m \in Nat, m <= Len(past), k <= m + 1, k <= limit, NEW i \in 1..k
      PROVE  now[i] = label \/ \E j \in 1..m : now[i] = past[j]
  <2>1. CASE i = 1
    BY <1>3, <2>1
  <2>2. CASE i # 1
    <3>1. k <= n
      BY <1>1, <1>5, <1>6
    <3>2. i \in 2..n /\ i - 1 \in 1..m
      BY <1>5, <1>6, <2>2, <3>1
    <3> QED
      BY <1>3, <3>2
  <2> QED
    BY <2>1, <2>2
<1>7. CASE bad
  <2> DEFINE count  == S!UpTo(s.bad + 1, FailureThreshold)
             active == s.active \/ s.bad + 1 >= FailureThreshold
  <2>1. new = [s EXCEPT !.good = 0, !.bad = count, !.context = label, !.active = active]
    BY <1>7 DEF S!Hysteresis
  <2>2. count \in 0..FailureThreshold /\ 0 \in 0..RecoveryThreshold - 1 /\ active \in BOOLEAN
    BY <1>4, SidecarConstants DEF S!UpTo
  <2>3. s.bad <= Len(past) /\ count <= s.bad + 1 /\ count <= limit /\ count \in Nat /\ s.bad \in Nat
    BY <1>1, <1>4, SidecarConstants DEF Streak, S!UpTo
  <2>4. ASSUME NEW k \in Nat, k <= s.bad + 1, k <= limit PROVE k <= n /\ \A i \in 1..k : now[i] # "none"
    <3>1. ASSUME NEW i \in 1..k PROVE now[i] # "none"
      <4>1. now[i] = label \/ \E j \in 1..s.bad : now[i] = past[j]
        BY <1>6, <2>3, <2>4
      <4> QED
        BY <1>7, <4>1 DEF Streak
    <3>2. k <= n
      BY <1>1, <1>5, <2>3, <2>4
    <3> QED
      BY <3>1, <3>2
  <2>5. n >= count /\ \A i \in 1..count : now[i] # "none"
    BY <1>5, <2>3, <2>4
  <2>6. ~s.active /\ active => n >= FailureThreshold /\ \A i \in 1..FailureThreshold : now[i] # "none"
    BY <1>1, <1>4, <1>5, <2>4, SidecarConstants
  <2> HIDE DEF count
  <2>7. new \in SidecarStates
    BY <2>1, <2>2 DEF SidecarStates
  <2>8. new.good = 0 /\ new.bad = count /\ new.age = s.age /\ (new.active <=> active)
    BY <2>1 DEF SidecarStates
  <2>9. Streak(new, now)
    BY <1>3, <1>5, <2>5, <2>8 DEF Streak
  <2> QED
    BY <1>3, <1>5, <1>7, <2>6, <2>7, <2>8, <2>9
<1>9. ASSUME ~bad, s.good + 1 <= limit PROVE s.good + 1 <= n /\ \A i \in 1..s.good + 1 : now[i] = "none"
  <2>1. s.good \in Nat /\ s.good + 1 \in Nat /\ s.good <= Len(past)
    BY <1>4 DEF Streak
  <2>2. ASSUME NEW i \in 1..s.good + 1 PROVE now[i] = "none"
    <3>1. now[i] = label \/ \E j \in 1..s.good : now[i] = past[j]
      BY <1>6, <1>9, <2>1
    <3> QED
      BY <1>9, <3>1 DEF Streak
  <2>3. s.good + 1 <= n
    BY <1>1, <1>5, <1>9, <2>1
  <2> QED
    BY <2>2, <2>3
<1>8. CASE ~bad
  <2>1. CASE s.active /\ s.good + 1 < RecoveryThreshold
    <3>1. new = [s EXCEPT !.bad = 0, !.good = s.good + 1]
      BY <1>8, <2>1 DEF S!Hysteresis
    <3>2. 0 \in 0..FailureThreshold /\ s.good + 1 \in 0..RecoveryThreshold - 1
      BY <2>1, <1>4, SidecarConstants
    <3>3. new \in SidecarStates
      BY <3>1, <3>2 DEF SidecarStates
    <3>4. new.bad = 0 /\ new.good = s.good + 1 /\ new.active
      BY <2>1, <3>1 DEF SidecarStates
    <3>5. s.good \in Nat /\ s.good + 1 \in Nat /\ s.good + 1 <= limit /\ s.good <= Len(past)
      BY <1>1, <1>4, <2>1, SidecarConstants DEF Streak
    <3>6. s.good + 1 <= n /\ \A i \in 1..s.good + 1 : now[i] = "none"
      BY <1>8, <1>9, <3>5
    <3>7. Streak(new, now)
      BY <1>3, <1>5, <3>4, <3>6 DEF Streak
    <3>8. ~S!Resolves(s, bad)
      BY <1>4, <2>1, SidecarConstants DEF S!Resolves
    <3> QED
      BY <1>3, <1>5, <1>8, <2>1, <3>3, <3>4, <3>7, <3>8
  <2>2. CASE ~(s.active /\ s.good + 1 < RecoveryThreshold)
    <3>1. new = S!NewState
      BY <1>8, <2>2 DEF S!Hysteresis
    <3>2. new \in SidecarStates /\ Streak(new, now) /\ ~new.active
      BY <1>3, <3>1, NewStateType DEF S!NewState
    <3>3. ASSUME s.active PROVE n >= RecoveryThreshold /\ \A i \in 1..RecoveryThreshold : now[i] = "none"
      <4>1. s.good + 1 = RecoveryThreshold /\ s.good \in Nat /\ s.good <= Len(past)
        BY <1>1, <1>4, <2>2, <3>3, SidecarConstants DEF Streak
      <4> QED
        BY <1>1, <1>8, <1>9, <4>1
    <3> QED
      BY <1>3, <1>5, <1>8, <3>2, <3>3
  <2> QED
    BY <2>1, <2>2
<1> QED
  BY <1>7, <1>8

LEMMA LabelType == \A e : S!BrokenState(e) \in S!Labels
<1> SUFFICES ASSUME NEW e PROVE S!BrokenState(e) \in S!Labels
  OBVIOUS
<1>1. CASE e.state = "restarting"
  BY <1>1 DEF S!BrokenState, S!Labels
<1>2. CASE e.state # "restarting" /\ e.unhealthy
  BY <1>2 DEF S!BrokenState, S!Labels
<1>3. CASE e.state # "restarting" /\ ~e.unhealthy /\ e.state = "dead"
  BY <1>3 DEF S!BrokenState, S!Labels
<1>4. CASE e.state # "restarting" /\ ~e.unhealthy /\ e.state # "dead" /\ e.state = "exited" /\ ~e.clean
  BY <1>4 DEF S!BrokenState, S!Labels
<1>5. CASE e.state # "restarting" /\ ~e.unhealthy /\ e.state # "dead" /\ ~(e.state = "exited" /\ ~e.clean)
  BY <1>5 DEF S!BrokenState, S!Labels
<1> QED
  BY <1>1, <1>2, <1>3, <1>4, <1>5

Pages == {"firing", "resolved", "nothing"}

(* What a sweep assigns are functions over the containers.                 *)
AreFunctions ==
  /\ state' = [c \in Containers |-> state'[c]] /\ told' = [c \in Containers |-> told'[c]]
  /\ seen' = [c \in Containers |-> seen'[c]]

(* What a sweep does to the container c that it sees as label.             *)
SweptAs(c, label, page, delivered) ==
  LET new == S!Hysteresis(state[c], label # "none", label)
  IN  /\ page = S!Page(state[c], label # "none")
      /\ state'[c] = IF page = "firing" THEN [new EXCEPT !.age = 0] ELSE new
      /\ told'[c] = IF page # "nothing" /\ delivered THEN page ELSE told[c]
      /\ c \in lost' <=> IF page = "nothing" THEN c \in lost ELSE ~delivered
      /\ seen'[c] = SubSeq(<<label>> \o seen[c], 1, S!UpTo(Len(seen[c]) + 1, FailureThreshold + RecoveryThreshold))

(* A sweep fails, or it treats every container on its own.                 *)
LEMMA WatchCases ==
  ASSUME SidecarInv, S!Watch
  PROVE  \/ swept' = FALSE /\ UNCHANGED <<state, told, lost, seen>>
         \/ /\ \A c \in Containers :
                 \E label \in S!Labels, page \in Pages, delivered \in BOOLEAN : SweptAs(c, label, page, delivered)
            /\ AreFunctions
            /\ lost' \subseteq Containers /\ swept'
<1> SUFFICES ASSUME ~(swept' = FALSE /\ UNCHANGED <<state, told, lost, seen>>)
             PROVE  /\ \A c \in Containers :
                         \E label \in S!Labels, page \in Pages, delivered \in BOOLEAN : SweptAs(c, label, page, delivered)
                    /\ AreFunctions
                    /\ lost' \subseteq Containers /\ swept'
  OBVIOUS
<1>1. PICK entry \in [Containers -> Entries], delivered \in [{"firing", "resolved"} -> BOOLEAN] :
        LET label    == [c \in Containers |-> S!BrokenState(entry[c])]
            bad(c)   == c \in S!Broken(label)
            page(c)  == S!Page(state[c], bad(c))
        IN  /\ state' = [c \in Containers |->
                           IF page(c) = "firing" THEN [S!Hysteresis(state[c], bad(c), label[c]) EXCEPT !.age = 0]
                           ELSE S!Hysteresis(state[c], bad(c), label[c])]
            /\ told' = [c \in Containers |->
                          IF page(c) # "nothing" /\ delivered[page(c)] THEN page(c) ELSE told[c]]
            /\ lost' = {c \in Containers : IF page(c) = "nothing" THEN c \in lost ELSE ~delivered[page(c)]}
            /\ swept' = TRUE
            /\ seen' = [c \in Containers |->
                          SubSeq(<<label[c]>> \o seen[c], 1,
                                 S!UpTo(Len(seen[c]) + 1, FailureThreshold + RecoveryThreshold))]
  BY DEF S!Watch
<1> DEFINE labels  == [c \in Containers |-> S!BrokenState(entry[c])]
           page(c) == S!Page(state[c], c \in S!Broken(labels))
<1>2. ASSUME NEW c \in Containers
      PROVE  \E label \in S!Labels, p \in Pages, d \in BOOLEAN : SweptAs(c, label, p, d)
  <2>1. labels[c] \in S!Labels /\ (c \in S!Broken(labels) <=> labels[c] # "none")
    BY LabelType DEF S!Broken
  <2>2. page(c) \in {"firing", "resolved", "nothing"} /\ page(c) = S!Page(state[c], labels[c] # "none")
    BY <2>1 DEF S!Page, S!Fires, S!Resolves
  <2>3. page(c) # "nothing" => delivered[page(c)] \in BOOLEAN
    BY <2>2
  <2>4. PICK d \in BOOLEAN : page(c) # "nothing" => (d <=> delivered[page(c)])
    BY <2>3
  <2>5. S!Hysteresis(state[c], c \in S!Broken(labels), labels[c]) = S!Hysteresis(state[c], labels[c] # "none", labels[c])
    BY <2>1 DEF S!Hysteresis
  <2>6. SweptAs(c, labels[c], page(c), d)
    BY <1>1, <2>1, <2>2, <2>4, <2>5 DEF SweptAs
  <2> QED
    BY <2>1, <2>2, <2>6 DEF Pages
<1>3. AreFunctions
  BY <1>1 DEF AreFunctions
<1> QED
  BY <1>1, <1>2, <1>3

(* The property FlapsAreQuiet of one container and one step.               *)
Quiet(c) ==
  /\ ~state[c].active /\ state'[c].active => S!LastSeen(c, FailureThreshold, TRUE)
  /\ state[c].active /\ ~state'[c].active => S!LastSeen(c, RecoveryThreshold, FALSE) \/ seen'[c] = <<>>

(* A sweep keeps the invariant of each container, and is quiet.            *)
LEMMA SweptStep ==
  ASSUME SidecarInv, NEW c \in Containers, NEW label \in S!Labels, NEW page \in Pages, NEW delivered \in BOOLEAN,
         SweptAs(c, label, page, delivered)
  PROVE  /\ state'[c] \in SidecarStates /\ seen'[c] \in Seq(S!Labels)
         /\ told'[c] \in {"nothing", "firing", "resolved"}
         /\ Streak(state'[c], seen'[c])
         /\ state'[c].active => told'[c] = "firing" \/ c \in lost'
         /\ state'[c].active /\ seen'[c][1] # "none" => state'[c].age < BreakdownRenotify
         /\ Quiet(c)
<1> DEFINE s   == state[c]
           bad == label # "none"
           new == S!Hysteresis(s, bad, label)
           now == seen'[c]
<1>1. s \in SidecarStates /\ seen[c] \in Seq(S!Labels) /\ Streak(s, seen[c]) /\ (s.active => told[c] = "firing" \/ c \in lost)
      /\ told[c] \in {"nothing", "firing", "resolved"}
  BY DEF SidecarInv, SidecarTypes
<1>2. /\ now \in Seq(S!Labels) /\ now[1] = label /\ Len(now) >= 1
      /\ Len(now) = S!UpTo(Len(seen[c]) + 1, FailureThreshold + RecoveryThreshold)
      /\ \A i \in 2..Len(now) : now[i] = seen[c][i - 1]
  <2>1. PICK n \in 1..Len(seen[c]) + 1 : n = S!UpTo(Len(seen[c]) + 1, FailureThreshold + RecoveryThreshold)
    BY <1>1, SidecarConstants DEF S!UpTo
  <2>2. now = SubSeq(<<label>> \o seen[c], 1, n)
    BY <2>1 DEF SweptAs
  <2>3. /\ now \in Seq(S!Labels) /\ Len(now) = n /\ now[1] = label
        /\ \A i \in 2..n : now[i] = seen[c][i - 1]
    BY <1>1, <2>2, SeenMore
  <2> HIDE DEF now
  <2> QED
    BY <2>1, <2>3
<1>3. /\ page = S!Page(s, bad)
      /\ state'[c] = IF page = "firing" THEN [new EXCEPT !.age = 0] ELSE new
      /\ told'[c] = IF page # "nothing" /\ delivered THEN page ELSE told[c]
      /\ c \in lost' <=> IF page = "nothing" THEN c \in lost ELSE ~delivered
  BY DEF SweptAs
<1> HIDE DEF s, now
<1>0. bad \in BOOLEAN /\ (bad <=> label # "none")
  OBVIOUS
<1> HIDE DEF bad
<1>4. /\ new \in SidecarStates /\ Streak(new, now)
      /\ bad => new.age = s.age /\ (new.active <=> s.active \/ s.bad + 1 >= FailureThreshold)
      /\ new.active => s.active \/ bad
      /\ ~s.active /\ new.active => Len(now) >= FailureThreshold /\ \A i \in 1..FailureThreshold : now[i] # "none"
      /\ s.active /\ ~new.active => Len(now) >= RecoveryThreshold /\ \A i \in 1..RecoveryThreshold : now[i] = "none"
      /\ new.active /\ ~bad => ~S!Resolves(s, bad)
  BY <1>0, <1>1, <1>2, HysteresisStep
<1> HIDE DEF new
<1>5. /\ state'[c] \in SidecarStates /\ state'[c].active = new.active
      /\ state'[c].bad = new.bad /\ state'[c].good = new.good
      /\ state'[c].age = IF page = "firing" THEN 0 ELSE new.age
  <2>1. 0 \in 0..BreakdownRenotify
    BY SidecarConstants
  <2>2. CASE page = "firing"
    BY <1>3, <1>4, <2>1, <2>2 DEF SidecarStates
  <2>3. CASE page # "firing"
    BY <1>3, <1>4, <2>3
  <2> QED
    BY <2>2, <2>3
<1>6. Streak(state'[c], now)
  BY <1>4, <1>5 DEF Streak
<1>7. told'[c] \in {"nothing", "firing", "resolved"}
  BY <1>1, <1>3 DEF Pages
<1>8. ASSUME new.active PROVE told'[c] = "firing" \/ c \in lost'
  <2>1. CASE page = "firing"
    BY <1>3, <2>1
  <2>2. CASE page = "nothing"
    <3>1. s.active
      BY <1>3, <1>4, <1>8, <2>2 DEF S!Page, S!Fires
    <3> QED
      BY <1>1, <1>3, <2>2, <3>1
  <2>3. page # "resolved"
    <3>1. ~S!Resolves(s, bad)
      BY <1>4, <1>8 DEF S!Resolves
    <3> QED
      BY <1>3, <3>1 DEF S!Page
  <2> QED
    BY <2>1, <2>2, <2>3 DEF Pages
<1>9. ASSUME new.active, bad PROVE state'[c].age < BreakdownRenotify
  <2>1. CASE page = "firing"
    BY <1>5, <2>1, SidecarConstants
  <2>2. CASE page # "firing"
    <3>1. ~S!Fires(s, bad)
      BY <1>3, <2>2 DEF S!Page
    <3>2. s.active /\ ~(s.age >= BreakdownRenotify)
      BY <1>4, <1>9, <3>1 DEF S!Fires
    <3>3. s.age \in 0..BreakdownRenotify
      BY <1>1 DEF SidecarStates
    <3> QED
      BY <1>4, <1>5, <1>9, <2>2, <3>2, <3>3, SidecarConstants
  <2> QED
    BY <2>1, <2>2
<1>10. Quiet(c)
  BY <1>4, <1>5 DEF Quiet, S!LastSeen, s, now
<1> QED
  BY <1>2, <1>5, <1>6, <1>7, <1>8, <1>9, <1>10, <1>0 DEF now

LEMMA SidecarWatch == ASSUME SidecarInv, S!Watch PROVE SidecarInv' /\ \A c \in Containers : Quiet(c)
<1>1. /\ pc = "watch" /\ pc' = "guard"
      /\ UNCHANGED <<since, alerted, stuck, killed, running>>
  BY DEF S!Watch, S!guard
<1>2. CASE swept' = FALSE /\ UNCHANGED <<state, told, lost, seen>>
  <2>1. SidecarTypes'
    BY <1>1, <1>2 DEF SidecarInv, SidecarTypes
  <2> QED
    BY <1>1, <1>2, <2>1 DEF SidecarInv, Quiet
<1>3. CASE /\ \A c \in Containers :
                \E label \in S!Labels, page \in Pages, delivered \in BOOLEAN : SweptAs(c, label, page, delivered)
           /\ AreFunctions
           /\ lost' \subseteq Containers /\ swept'
  <2>1. \A c \in Containers :
          /\ state'[c] \in SidecarStates /\ seen'[c] \in Seq(S!Labels)
          /\ told'[c] \in {"nothing", "firing", "resolved"}
          /\ Streak(state'[c], seen'[c])
          /\ state'[c].active => told'[c] = "firing" \/ c \in lost'
          /\ state'[c].active /\ seen'[c][1] # "none" => state'[c].age < BreakdownRenotify
          /\ Quiet(c)
    BY <1>3, SweptStep
  <2>2. SidecarTypes'
    BY <1>1, <1>3, <2>1 DEF SidecarInv, SidecarTypes, AreFunctions
  <2> QED
    BY <1>1, <1>3, <2>1, <2>2 DEF SidecarInv
<1> QED
  BY <1>2, <1>3, WatchCases

(* The next iteration ages what is kept; what is counted and what is       *)
(* active stays.                                                           *)
LEMMA Iteration ==
  ASSUME SidecarInv, NEW composes \in SUBSET Composes, S!NextIteration(composes)
  PROVE  /\ pc' = "watch" /\ state' \in [Containers -> SidecarStates]
         /\ alerted' \in [Composes -> 0..GuardRenotify]
         /\ running' \in [Composes -> SUBSET (S!NoStart..Ceiling + 1)]
         /\ \A c \in Containers : /\ state'[c].active = state[c].active
                                  /\ state'[c].bad = state[c].bad /\ state'[c].good = state[c].good
<1>1. ASSUME NEW c \in Containers
      PROVE  /\ state'[c] \in SidecarStates /\ state'[c].active = state[c].active
             /\ state'[c].bad = state[c].bad /\ state'[c].good = state[c].good
  <2>1. state[c] \in SidecarStates
    BY DEF SidecarInv, SidecarTypes
  <2>2. PICK age \in 0..BreakdownRenotify : age = S!UpTo(state[c].age + 1, BreakdownRenotify)
    BY <2>1, SidecarConstants DEF SidecarStates, S!UpTo
  <2>3. state'[c] = [state[c] EXCEPT !.age = age]
    BY <2>2 DEF S!NextIteration
  <2> QED
    BY <2>1, <2>3 DEF SidecarStates
<1>2. state' \in [Containers -> SidecarStates]
  <2>1. DOMAIN state' = Containers /\ state' = [c \in Containers |-> state'[c]]
    BY DEF S!NextIteration
  <2> QED
    BY <1>1, <2>1
<1>3. alerted' \in [Composes -> 0..GuardRenotify]
  <2>1. ASSUME NEW c \in Composes PROVE S!UpTo(S!Paged(composes)[c] + 1, GuardRenotify) \in 0..GuardRenotify
    <3>1. S!Paged(composes)[c] \in 0..GuardRenotify
      BY SidecarConstants DEF S!Paged, SidecarInv, SidecarTypes
    <3> QED
      BY <3>1, SidecarConstants DEF S!UpTo
  <2> QED
    BY <2>1 DEF S!NextIteration
<1>4. running' \in [Composes -> SUBSET (S!NoStart..Ceiling + 1)]
  <2>1. ASSUME NEW c \in Composes, NEW age \in running[c]
        PROVE  (IF age = S!NoStart THEN S!NoStart ELSE S!UpTo(age + 1, Ceiling + 1)) \in S!NoStart..Ceiling + 1
    <3>1. age \in S!NoStart..Ceiling + 1
      BY DEF SidecarInv, SidecarTypes
    <3> QED
      BY <3>1, SidecarConstants DEF S!UpTo, S!NoStart
  <2> QED
    BY <2>1 DEF S!NextIteration
<1> QED
  BY <1>1, <1>2, <1>3, <1>4 DEF S!NextIteration

(* A step that leaves the containers alone.                                *)
LEMMA SidecarCalm ==
  ASSUME SidecarInv, SidecarTypes', UNCHANGED <<seen, told, lost>>, pc' # "guard" \/ UNCHANGED <<pc, state, swept>>,
         \A c \in Containers : /\ state'[c].active = state[c].active
                               /\ state'[c].bad = state[c].bad /\ state'[c].good = state[c].good,
         pc' = "kill" => \A c \in stuck' : alerted'[c] < GuardRenotify
  PROVE  SidecarInv' /\ \A c \in Containers : Quiet(c)
<1>1. \A c \in Containers : Streak(state'[c], seen'[c])
  BY DEF SidecarInv, Streak
<1>2. \A c \in Containers : Quiet(c)
  BY DEF Quiet
<1>3. ASSUME NEW c \in Containers
      PROVE pc' = "guard" /\ swept' /\ state'[c].active /\ seen'[c][1] # "none" => state'[c].age < BreakdownRenotify
  BY DEF SidecarInv
<1>4. \A c \in Containers : state'[c].active => told'[c] = "firing" \/ c \in lost'
  BY DEF SidecarInv
<1> QED
  BY <1>1, <1>2, <1>3, <1>4 DEF SidecarInv

LEMMA SidecarGuard == ASSUME SidecarInv, S!Guard PROVE SidecarInv' /\ \A c \in Containers : Quiet(c)
<1>1. pc = "guard" /\ UNCHANGED <<told, lost, seen, swept>> /\ since \in 1..GuardInterval /\ SidecarTypes
  BY DEF S!Guard, SidecarInv, SidecarTypes
<1>2. CASE since < GuardInterval
  <2>1. S!NextIteration({}) /\ since' = since + 1 /\ UNCHANGED <<stuck, killed>>
    BY <1>2 DEF S!Guard
  <2>2. SidecarTypes'
    BY <1>1, <1>2, <2>1, Iteration, SidecarConstants DEF SidecarTypes
  <2> QED
    BY <1>1, <2>1, <2>2, Iteration, SidecarCalm
<1>3. CASE ~(since < GuardInterval)
  <2>1. PICK readable \in S!Listed :
          LET found == {c \in readable : S!IsStuck(c)}
          IN  /\ stuck' = found
              /\ killed' = {}
              /\ IF found # {} /\ Remediate
                 THEN /\ pc' = "kill"
                      /\ alerted' = S!Paged(S!Fresh(found))
                      /\ UNCHANGED <<state, running>>
                 ELSE S!NextIteration(S!Fresh(found))
    BY <1>3 DEF S!Guard
  <2>2. since' = 1 /\ since' \in 1..GuardInterval
    BY <1>3, SidecarConstants DEF S!Guard
  <2> DEFINE found == {c \in readable : S!IsStuck(c)}
  <2>3. found \subseteq Composes /\ S!Fresh(found) \subseteq Composes
    BY DEF S!Listed, S!Fresh
  <2>4. CASE found # {} /\ Remediate
    <3>1. stuck' = found /\ killed' = {} /\ pc' = "kill" /\ alerted' = S!Paged(S!Fresh(found)) /\ UNCHANGED <<state, running>>
      BY <2>1, <2>4
    <3>2. ASSUME NEW c \in Composes
          PROVE  alerted'[c] \in 0..GuardRenotify /\ (c \in found => alerted'[c] < GuardRenotify)
      <4>1. alerted[c] \in 0..GuardRenotify
        BY <1>1 DEF SidecarTypes
      <4>2. alerted'[c] = IF c \in S!Fresh(found) THEN 0 ELSE alerted[c]
        BY <3>1 DEF S!Paged
      <4>3. c \in found /\ c \notin S!Fresh(found) => ~(alerted[c] >= GuardRenotify)
        BY DEF S!Fresh
      <4> HIDE DEF found
      <4> QED
        BY <4>1, <4>2, <4>3, SidecarConstants
    <3>3. alerted' \in [Composes -> 0..GuardRenotify]
      BY <3>1, <3>2 DEF S!Paged
    <3>4. SidecarTypes'
      BY <1>1, <2>2, <2>3, <3>1, <3>3 DEF SidecarTypes
    <3> QED
      BY <1>1, <2>3, <3>1, <3>2, <3>4, SidecarCalm
  <2>5. CASE ~(found # {} /\ Remediate)
    <3>1. stuck' = found /\ killed' = {} /\ S!NextIteration(S!Fresh(found))
      BY <2>1, <2>5
    <3> HIDE DEF found
    <3>2. SidecarTypes'
      BY <1>1, <2>2, <2>3, <3>1, Iteration DEF SidecarTypes
    <3> QED
      BY <1>1, <2>3, <3>1, <3>2, Iteration, SidecarCalm
  <2> QED
    BY <2>4, <2>5
<1> QED
  BY <1>2, <1>3

LEMMA SidecarKill == ASSUME SidecarInv, S!Kill PROVE SidecarInv' /\ \A c \in Containers : Quiet(c)
<1>1. PICK c \in stuck \ killed :
        /\ killed' = killed \cup {c}
        /\ \E rest \in SUBSET running[c] : running' = [running EXCEPT ![c] = rest]
        /\ pc' = IF killed' = stuck THEN "recheck" ELSE "kill"
  BY DEF S!Kill
<1>2. pc = "kill" /\ UNCHANGED <<since, state, alerted, stuck, told, lost, seen, swept>> /\ pc' \in {"recheck", "kill"}
  BY <1>1 DEF S!Kill
<1>3. running' \in [Composes -> SUBSET (S!NoStart..Ceiling + 1)]
  BY <1>1 DEF SidecarInv, SidecarTypes
<1>4. SidecarTypes'
  BY <1>1, <1>2, <1>3 DEF SidecarInv, SidecarTypes
<1>5. \A d \in stuck' : alerted'[d] < GuardRenotify
  BY <1>2 DEF SidecarInv
<1> QED
  BY <1>2, <1>4, <1>5, SidecarCalm

LEMMA SidecarRecheck == ASSUME SidecarInv, S!Recheck PROVE SidecarInv' /\ \A c \in Containers : Quiet(c)
<1>1. S!NextIteration({}) /\ killed' = {} /\ UNCHANGED <<since, told, lost, seen, swept>>
  BY DEF S!Recheck
<1>2. stuck' \subseteq Composes
  BY DEF S!Recheck, SidecarInv, SidecarTypes
<1>3. SidecarTypes'
  BY <1>1, <1>2, Iteration DEF SidecarInv, SidecarTypes
<1> QED
  BY <1>1, <1>3, Iteration, SidecarCalm

LEMMA SidecarDokploy == ASSUME SidecarInv, S!Dokploy PROVE SidecarInv' /\ \A c \in Containers : Quiet(c)
<1>1. UNCHANGED <<pc, state, told, lost, seen, swept, since, alerted, stuck, killed>>
  BY DEF S!Dokploy, S!watch, S!guard
<1>2. running' \in [Composes -> SUBSET (S!NoStart..Ceiling + 1)]
  <2>1. {0, S!NoStart} \subseteq S!NoStart..Ceiling + 1
    BY SidecarConstants DEF S!NoStart
  <2>2. PICK c \in Composes : \E rest : running' = [running EXCEPT ![c] = rest] /\ rest \subseteq running[c] \cup {0, S!NoStart}
    BY DEF S!Dokploy
  <2> QED
    BY <2>1, <2>2 DEF SidecarInv, SidecarTypes
<1>3. SidecarTypes'
  BY <1>1, <1>2 DEF SidecarInv, SidecarTypes
<1> QED
  BY <1>1, <1>3, SidecarCalm DEF SidecarInv

LEMMA SidecarRestart == ASSUME SidecarInv, S!Restart PROVE SidecarInv' /\ \A c \in Containers : Quiet(c)
<1>1. /\ pc' = "watch" /\ stuck' = {} /\ killed' = {} /\ lost' = {} /\ swept' = FALSE /\ UNCHANGED <<running, told>>
      /\ \A c \in Containers : state'[c] = S!NewState /\ seen'[c] = <<>>
  BY DEF S!Restart
<1>2. since' \in 1..GuardInterval /\ alerted' \in [Composes -> 0..GuardRenotify]
  BY SidecarConstants DEF S!Restart
<1>3. state' \in [Containers -> SidecarStates]
  BY NewStateType DEF S!Restart
<1>4. <<>> \in Seq(S!Labels)
  OBVIOUS
<1>5. seen' \in [Containers -> Seq(S!Labels)]
  BY <1>4 DEF S!Restart
<1>6. SidecarTypes'
  BY <1>1, <1>2, <1>3, <1>5 DEF SidecarInv, SidecarTypes
<1>7. ~S!NewState.active
  BY DEF S!NewState
<1>8. \A c \in Containers : Streak(state'[c], seen'[c])
  BY <1>1, <1>4, NewStateType
<1> QED
  BY <1>1, <1>6, <1>7, <1>8 DEF SidecarInv, Quiet

LEMMA SidecarNext == ASSUME SidecarInv, [Next]_vars PROVE SidecarInv' /\ (UNCHANGED ofSidecar \/ \A c \in Containers : Quiet(c))
<1>1. CASE UNCHANGED ofSidecar
  BY <1>1 DEF ofSidecar, SidecarInv, SidecarTypes
<1>2. CASE S!Next
  BY <1>2, SidecarWatch, SidecarGuard, SidecarKill, SidecarRecheck, SidecarDokploy, SidecarRestart DEF S!Next
<1> QED
  BY <1>1, <1>2, SidecarStep

LEMMA SidecarAlways == Spec => []SidecarInv
<1>1. Init => SidecarInv
  BY InitParts, SidecarInit
<1>2. SidecarInv /\ [Next]_vars => SidecarInv'
  BY SidecarNext
<1> QED
  BY <1>1, <1>2, PTL DEF Spec

LEMMA SidecarSafe == SidecarInv => S!TypeOK /\ S!TroubleIsPaged
<1> SUFFICES ASSUME SidecarInv PROVE S!TypeOK /\ S!TroubleIsPaged
  OBVIOUS
<1>1. \A c \in Containers : \A i \in DOMAIN seen[c] : seen[c][i] \in S!Labels
  BY DEF SidecarInv, SidecarTypes
<1>2. S!TypeOK
  BY <1>1 DEF SidecarInv, SidecarTypes, SidecarStates, S!TypeOK
<1>3. S!TroubleIsPaged
  BY DEF SidecarInv, S!TroubleIsPaged
<1> QED
  BY <1>2, <1>3

(* Trouble that stays is paged (run_once of container_breakdown_watch.py   *)
(* and of deploy_queue_guard.py): after a sweep, a running incident whose  *)
(* container was seen broken was told, or its page was lost within the     *)
(* last renotify interval, and what the guard found stuck is alerted on    *)
(* within its own, for any containers, thresholds and intervals.           *)
THEOREM TroubleCorrect == Spec => []TroubleIsPaged
  BY SidecarAlways, SidecarSafe, PTL DEF TroubleIsPaged

(* A flapping container does not page (evaluate_consecutive_hysteresis):   *)
(* an incident begins and ends only after as many sweeps in a row as the   *)
(* thresholds ask for, or the process starts anew.                         *)
THEOREM FlapsCorrect == Spec => FlapsAreQuiet
<1>1. SidecarInv /\ [Next]_vars =>
        [\A c \in Containers :
           /\ ~state[c].active /\ state'[c].active => S!LastSeen(c, FailureThreshold, TRUE)
           /\ state[c].active /\ ~state'[c].active => S!LastSeen(c, RecoveryThreshold, FALSE) \/ seen'[c] = <<>>]_(S!vars)
  <2>1. UNCHANGED ofSidecar => UNCHANGED S!vars
    BY DEF ofSidecar, S!vars
  <2> QED
    BY <2>1, SidecarNext DEF Quiet
<1> QED
  BY <1>1, SidecarAlways, PTL DEF Spec, FlapsAreQuiet, S!FlapsAreQuiet

-----------------------------------------------------------------------------
(* The previews.                                                           *)
LEMMA PreviewStep == [Next]_vars => P!Next \/ UNCHANGED ofPreview
  BY DEF Next, vars, Previews, Sidecar, Bridge, Rules, Audit, Drift, Watch

(* What the constants of the previews are.                                 *)
LEMMA PreviewConstants ==
  /\ \A a \in Asked : /\ a.op \in {"up", "down", "canary", "check", "remediate"} /\ a.image \in Nat
                      /\ a.op \in {"up", "down", "canary"} => P!Alias(a.kind, a.value) \in P!Aliases
  /\ Left \in Seq(P!Aliases) /\ Len(Left) \in Nat /\ Len(Left) <= MaxStacks
  /\ \A i, j \in DOMAIN Left : Left[i] = Left[j] => i = j
  /\ MaxStacks \in Nat /\ MaxTurns \in Nat /\ Polls \in Nat \ {0} /\ Attempts \in Nat \ {0} /\ Pulls \subseteq Nat
<1>1. P!PreviewAssumption
  BY ChecksAssumption DEF ChecksAssumption
<1>2. ASSUME NEW a \in Asked
      PROVE  /\ a.op \in {"up", "down", "canary", "check", "remediate"} /\ a.image \in Nat
             /\ a.op \in {"up", "down", "canary"} => P!Alias(a.kind, a.value) \in P!Aliases
  <2>1. a \in [op : {"up", "down", "canary", "check", "remediate"}, kind : P!RefKinds, value : Nat, image : Nat \ {0}]
    BY <1>1 DEF P!PreviewAssumption
  <2>2. a.op \in {"up", "down", "canary"} /\ a.kind \in {"branch", "tag"} => Slugs[a.value] \in Nat
    BY <1>1 DEF P!PreviewAssumption
  <2> QED
    BY <2>1, <2>2 DEF P!Alias, P!Aliases
<1>3. Left \in Seq(P!Aliases) /\ Len(Left) <= MaxStacks /\ \A i, j \in DOMAIN Left : Left[i] = Left[j] => i = j
  BY <1>1 DEF P!PreviewAssumption, P!Aliases
<1> QED
  BY <1>1, <1>2, <1>3 DEF P!PreviewAssumption

Stacks == [alias : P!Aliases, image : Nat, queued : BOOLEAN, status : {"idle", "running", "done", "error"}, runs : Nat]
PreviewPcs == {"idle", "find", "create", "configure", "deploy", "wait", "delete", "list", "fetch", "reap", "green", "red"}
PreviewOps == {"none", "up", "down", "canary", "teardown", "check", "remediate"}
Flagged == [id : Nat, alias : P!Aliases]
Procs ==
  [pc : PreviewPcs, op : PreviewOps, alias : P!Aliases \cup {<<>>}, image : Nat, id : Nat, tries : Nat,
   found : SUBSET Flagged, read : SUBSET Pulls, missed : SUBSET Pulls, healthy : BOOLEAN, down : BOOLEAN]

(* The world of the previews.                                              *)
StackTypes ==
  /\ created \in 0..MaxStacks /\ DOMAIN stack \subseteq 1..created /\ stack \in [DOMAIN stack -> Stacks]
  /\ open \subseteq Pulls /\ turns \in 0..MaxTurns
  /\ contested \subseteq P!Aliases /\ wasClosed \subseteq 1..created

(* Two stacks of one alias come from runs of that alias that overlapped.   *)
UniqueStacks ==
  \A i, j \in DOMAIN stack : i # j /\ stack[i].alias = stack[j].alias => stack[i].alias \in contested

(* A stack of a pull request that is not open was there when it was        *)
(* closed.                                                                 *)
ClosedKnown ==
  \A i \in DOMAIN stack : stack[i].alias.kind = "pr" /\ stack[i].alias.of \notin open => i \in wasClosed

(* A run that is under way.                                                *)
Working(p) == p.pc \notin {"idle", "green", "red"}

(* Runs of one alias that overlap contest it.                              *)
PairsContested ==
  \A q, r \in Runs : q # r /\ Working(proc[q]) /\ Working(proc[r]) /\ proc[q].alias = proc[r].alias =>
    proc[q].alias \in contested \cup {<<>>}

(* Which phases an operation has, and what it knows in them.               *)
Shape(p) ==
  /\ p.pc = "idle" => p.op = "none"
  /\ p.op \in {"check", "remediate"} => p.pc \in {"list", "fetch", "reap", "green", "red"}
  /\ p.op \in {"up", "down", "canary"} => p.pc \in {"find", "create", "configure", "deploy", "wait", "delete", "green", "red"}
  /\ p.op = "teardown" => p.pc \in {"find", "delete", "green", "red"}
  /\ p.op \in {"up", "down", "canary", "teardown"} => p.alias \in P!Aliases
  /\ p.op = "none" => p.pc = "idle"
  /\ p.tries <= (IF p.op = "teardown" THEN Attempts ELSE Polls) - 1
  /\ p.op = "teardown" /\ p.pc = "green" => p.down
  /\ p.pc = "list" => p.found = {}
  /\ Working(p) => ~p.down

(* What a run remembers of a stack is still so, as long as there is the    *)
(* stack: an id is never used again.                                       *)
Linked(p) ==
  /\ p.id <= created /\ (p.id \in DOMAIN stack => stack[p.id].alias = p.alias)
  /\ \A f \in p.found : f.id \in 1..created /\ (f.id \in DOMAIN stack => stack[f.id].alias = f.alias)
  /\ p.op \in {"check", "remediate"} /\ p.pc \in {"reap", "red"} =>
       \A f \in p.found : f.id \in DOMAIN stack =>
         f.alias.kind \notin P!RefKinds \/ f.id \in wasClosed \/ (f.alias.kind = "pr" /\ f.alias.of \in p.missed)
  /\ p.op = "teardown" /\ p.pc \in {"green", "red"} /\ p.down => p.id \notin DOMAIN stack
  
(* A run that creates a stack found none, and nobody else made one for its *)
(* alias unless the alias is contested.                                    *)
Creates(p) == p.pc = "create" => p.alias \in contested \/ \A i \in DOMAIN stack : stack[i].alias # p.alias

(* The inductive invariant of the previews.                                *)
PreviewInv ==
  /\ StackTypes /\ UniqueStacks /\ ClosedKnown /\ PairsContested
  /\ proc \in [Runs -> Procs]
  /\ \A r \in Runs : Shape(proc[r]) /\ Linked(proc[r]) /\ Creates(proc[r])

LEMMA PreviewInit == P!Init => PreviewInv
<1> SUFFICES ASSUME P!Init PROVE PreviewInv
  OBVIOUS
<1> DEFINE first(i) == [P!NewStack(Left[i]) EXCEPT !.image = 1, !.status = "done", !.runs = 1]
<1>1. ASSUME NEW i \in 1..Len(Left) PROVE first(i) \in Stacks /\ first(i).alias = Left[i]
  <2>1. P!NewStack(Left[i]) \in Stacks /\ P!NewStack(Left[i]).alias = Left[i]
    BY PreviewConstants DEF P!NewStack, P!NoImage, Stacks
  <2>2. PICK one \in Nat, done \in {"idle", "running", "done", "error"} : one = 1 /\ done = "done"
    OBVIOUS
  <2>3. first(i) = [P!NewStack(Left[i]) EXCEPT !.image = one, !.status = done, !.runs = one]
    BY <2>2
  <2> HIDE DEF first
  <2> QED
    BY <2>1, <2>3 DEF Stacks
<1>2. stack = [i \in 1..Len(Left) |-> first(i)] /\ created = Len(Left)
  BY DEF P!Init
<1> HIDE DEF first
<1>3. DOMAIN stack = 1..Len(Left) /\ stack \in [DOMAIN stack -> Stacks] /\ \A i \in DOMAIN stack : stack[i].alias = Left[i]
  BY <1>1, <1>2
<1>4. StackTypes
  <2>1. created \in 0..MaxStacks /\ 0 \in 0..MaxTurns
    BY <1>2, PreviewConstants
  <2>2. open = {} /\ turns = 0 /\ contested = {} /\ wasClosed = {i \in DOMAIN stack : stack[i].alias.kind = "pr"}
    BY DEF P!Init
  <2> QED
    BY <1>2, <1>3, <2>1, <2>2 DEF StackTypes
<1>5. UniqueStacks
  BY <1>3, PreviewConstants DEF UniqueStacks
<1>6. ClosedKnown
  BY DEF ClosedKnown, P!Init
<1>7. \A r \in Runs : proc[r] = P!IdleRun
  BY DEF P!Init
<1>8. P!IdleRun \in Procs
  BY DEF P!IdleRun, P!NoImage, Procs, PreviewPcs, PreviewOps
<1>9. proc \in [Runs -> Procs]
  BY <1>8 DEF P!Init
<1>10. Shape(P!IdleRun) /\ Creates(P!IdleRun) /\ ~Working(P!IdleRun)
  BY PreviewConstants DEF P!IdleRun, Shape, Creates, Working
<1>11. Linked(P!IdleRun)
  BY <1>2, <1>3, PreviewConstants DEF P!IdleRun, Linked
<1>12. PairsContested
  BY <1>7, <1>10 DEF PairsContested
<1> QED
  BY <1>4, <1>5, <1>6, <1>7, <1>9, <1>10, <1>11, <1>12 DEF PreviewInv

(* What every step does to the stacks: ids grow, and a stack keeps its     *)
(* alias.                                                                  *)
Onward ==
  /\ created <= created' /\ created' \in Nat
  /\ \A i \in DOMAIN stack' : i <= created => i \in DOMAIN stack /\ stack'[i].alias = stack[i].alias
  /\ wasClosed \subseteq wasClosed' /\ contested \subseteq contested'

(* What a run remembers outlives the steps of the others.                  *)
LEMMA LinkedOnward ==
  ASSUME NEW p \in Procs, Linked(p), Onward, created \in Nat
  PROVE  Linked(p)'
<1>1. p.id \in Nat /\ p.found \subseteq Flagged
  BY DEF Procs
<1>2. p.id <= created' /\ (p.id \in DOMAIN stack' => stack'[p.id].alias = p.alias)
  BY <1>1 DEF Linked, Onward
<1>3. ASSUME NEW f \in p.found
      PROVE f.id \in 1..created' /\ (f.id \in DOMAIN stack' => f.id \in DOMAIN stack /\ stack'[f.id].alias = f.alias)
  BY DEF Linked, Onward
<1>4. p.id \in DOMAIN stack' => p.id \in DOMAIN stack
  BY DEF Linked, Onward
<1> QED
  BY <1>2, <1>3, <1>4 DEF Linked, Onward

(* A step of the run r alone, which becomes q: what has to be shown of q.  *)
LEMMA PreviewFrame ==
  ASSUME PreviewInv, NEW r \in Runs, NEW q \in Procs, proc' = [proc EXCEPT ![r] = q],
         Onward, StackTypes', UniqueStacks', ClosedKnown', UNCHANGED contested,
         Working(proc[r]), q.alias = proc[r].alias,
         \A i \in DOMAIN stack' : i > created => stack'[i].alias = proc[r].alias,
         Shape(q), Linked(q)', Creates(q)'
  PROVE  PreviewInv'
<1>1. proc \in [Runs -> Procs] /\ created \in Nat
  BY DEF PreviewInv, StackTypes
<1>2. proc' \in [Runs -> Procs] /\ proc'[r] = q /\ \A o \in Runs : o # r => proc'[o] = proc[o]
  BY <1>1
<1>3. PairsContested'
  BY <1>2 DEF PreviewInv, PairsContested, Working
<1>4. ASSUME NEW o \in Runs, o # r PROVE Shape(proc[o]) /\ Linked(proc[o])' /\ Creates(proc[o])'
  <2>1. Shape(proc[o]) /\ Linked(proc[o]) /\ Creates(proc[o]) /\ proc[o] \in Procs
    BY <1>1 DEF PreviewInv
  <2> PICK p \in Procs : p = proc[o]
    BY <2>1
  <2>2. Linked(p)'
    BY <1>1, <2>1, LinkedOnward
  <2>3. Creates(p)'
    <3>1. CASE p.pc # "create"
      BY <3>1 DEF Creates
    <3>2. CASE p.pc = "create" /\ p.alias = proc[r].alias
      <4>1. p.alias \in contested \cup {<<>>}
        BY <1>4, <3>2 DEF PreviewInv, PairsContested, Working
      <4>2. p.alias \in P!Aliases
        BY <2>1, <3>2 DEF Shape, Procs, PreviewOps
      <4>3. <<>> \notin P!Aliases
        BY DEF P!Aliases
      <4> QED
        BY <4>1, <4>2, <4>3 DEF Creates
    <3>3. CASE p.pc = "create" /\ p.alias # proc[r].alias
      <4>1. ASSUME NEW i \in DOMAIN stack', stack'[i].alias = p.alias PROVE i \in DOMAIN stack /\ stack[i].alias = p.alias
        <5>1. i \in Nat /\ ~(i > created)
          BY <3>3, <4>1 DEF StackTypes
        <5> QED
          BY <1>1, <4>1, <5>1 DEF Onward
      <4> QED
        BY <2>1, <3>3, <4>1 DEF Creates
    <3> QED
      BY <3>1, <3>2, <3>3
  <2> QED
    BY <2>1, <2>2, <2>3
<1>5. \A o \in Runs : Shape(proc'[o]) /\ Linked(proc[o])' /\ Creates(proc[o])'
  BY <1>2, <1>4
<1> QED
  BY <1>2, <1>3, <1>5 DEF PreviewInv

(* Where a run goes on: a canary that ends tears down, and a teardown that *)
(* fails is tried again as often as Attempts.                              *)
LEMMA GoToCases ==
  ASSUME NEW p \in Procs, Shape(p), Working(p), NEW k \in PreviewPcs, NEW q, q = P!GoTo(p, k)
  PROVE  /\ q \in Procs /\ q.alias = p.alias /\ q.image = p.image /\ q.id = p.id /\ q.found = p.found /\ q.missed = p.missed
         /\ \/ /\ q.pc = k /\ q.op = p.op /\ q.tries = p.tries /\ q.down = p.down
               /\ k \in {"green", "red"} => p.op \notin {"canary", "teardown"}
            \/ k \in {"green", "red"} /\ p.op = "canary" /\ q.op = "teardown" /\ q.pc = "find" /\ q.tries = 0 /\ q.down = p.down
            \/ k = "green" /\ p.op = "teardown" /\ q.op = "teardown" /\ q.pc \in {"green", "red"} /\ q.tries = p.tries /\ q.down
            \/ /\ k = "red" /\ p.op = "teardown" /\ q.op = "teardown" /\ q.down = p.down
               /\ \/ q.pc = "find" /\ q.tries <= Attempts - 1
                  \/ q.pc = "red" /\ q.tries = p.tries
<1>1. CASE ~(k \in P!Ends /\ p.op \in {"canary", "teardown"})
  <2>1. q = [p EXCEPT !.pc = k]
    BY <1>1 DEF P!GoTo
  <2>2. q \in Procs
    BY <2>1 DEF Procs
  <2> QED
    BY <1>1, <2>1, <2>2 DEF Procs, P!Ends
<1>2. CASE k \in P!Ends /\ p.op = "canary"
  <2>1. PICK op \in PreviewOps, next \in PreviewPcs, well \in BOOLEAN, zero \in Nat :
          op = "teardown" /\ next = "find" /\ (well <=> k = "green") /\ zero = 0
    BY DEF PreviewOps, PreviewPcs
  <2>2. well = (k = "green")
    BY <2>1
  <2>3. q = [p EXCEPT !.op = op, !.pc = next, !.tries = zero, !.healthy = well]
    BY <1>2, <2>1, <2>2 DEF P!GoTo, P!TearDown
  <2>4. q \in Procs
    BY <2>3 DEF Procs
  <2>5. /\ q.op = op /\ q.pc = next /\ q.tries = zero
        /\ q.alias = p.alias /\ q.image = p.image /\ q.id = p.id /\ q.found = p.found /\ q.missed = p.missed /\ q.down = p.down
    BY <2>3 DEF Procs
  <2> QED
    BY <1>2, <2>1, <2>4, <2>5 DEF P!Ends
<1>3. CASE k = "green" /\ p.op = "teardown"
  <2>1. PICK next \in PreviewPcs : next = IF p.healthy THEN "green" ELSE "red"
    BY DEF PreviewPcs
  <2>2. q = [p EXCEPT !.pc = next, !.down = TRUE]
    BY <1>3, <2>1 DEF P!GoTo, P!TornDown, P!Ends
  <2>3. q \in Procs
    BY <2>2 DEF Procs
  <2>4. /\ q.op = p.op /\ q.pc = next /\ q.tries = p.tries
        /\ q.alias = p.alias /\ q.image = p.image /\ q.id = p.id /\ q.found = p.found /\ q.missed = p.missed /\ q.down
    BY <2>2 DEF Procs
  <2> QED
    BY <1>3, <2>1, <2>3, <2>4
<1>4. CASE k = "red" /\ p.op = "teardown"
  <2>1. p.tries \in Nat
    BY DEF Procs
  <2>2. CASE p.tries + 1 < Attempts
    <3>1. PICK next \in PreviewPcs, tries \in Nat : next = "find" /\ tries = p.tries + 1
      BY <2>1 DEF PreviewPcs
    <3>2. q = [p EXCEPT !.pc = next, !.tries = tries]
      BY <1>4, <2>2, <3>1 DEF P!GoTo, P!TornDown, P!Ends
    <3>3. q \in Procs
      BY <3>2 DEF Procs
    <3>4. /\ q.op = p.op /\ q.pc = next /\ q.tries = tries
          /\ q.alias = p.alias /\ q.image = p.image /\ q.id = p.id /\ q.found = p.found /\ q.missed = p.missed /\ q.down = p.down
      BY <3>2 DEF Procs
    <3>5. tries <= Attempts - 1
      BY <2>1, <2>2, <3>1, PreviewConstants
    <3> QED
      BY <1>4, <3>1, <3>3, <3>4, <3>5
  <2>3. CASE ~(p.tries + 1 < Attempts)
    <3>1. q = [p EXCEPT !.pc = k]
      BY <1>4, <2>3 DEF P!GoTo, P!TornDown, P!Ends
    <3>2. q \in Procs
      BY <3>1 DEF Procs
    <3> QED
      BY <1>4, <3>1, <3>2 DEF Procs
  <2> QED
    BY <2>2, <2>3
<1> QED
  BY <1>1, <1>2, <1>3, <1>4 DEF P!Ends

(* A run that goes on, with the state p, to the phase k.                   *)
LEMMA PreviewMove ==
  ASSUME PreviewInv, NEW r \in Runs, NEW p \in Procs, NEW k \in PreviewPcs, Working(proc[r]),
         proc' = [proc EXCEPT ![r] = P!GoTo(p, k)],
         p.pc = proc[r].pc, p.op = proc[r].op, p.alias = proc[r].alias, Shape(p), Linked(p)',
         Onward, StackTypes', UniqueStacks', ClosedKnown', UNCHANGED contested,
         \A i \in DOMAIN stack' : i > created => stack'[i].alias = proc[r].alias,
         p.op \in {"up", "down", "canary"} => k \in {"create", "configure", "deploy", "wait", "delete", "green", "red"},
         p.op = "teardown" => k \in {"delete", "green", "red"},
         p.op \in {"check", "remediate"} => k = "red" /\ p.pc \in {"list", "reap"},
         k = "create" => \A i \in DOMAIN stack' : stack'[i].alias # p.alias,
         k = "green" /\ p.op = "teardown" => p.id \notin DOMAIN stack'
  PROVE  PreviewInv'
<1>1. PICK q : q = P!GoTo(p, k)
  OBVIOUS
<1>2. Working(p) /\ ~p.down
  BY DEF Working, Shape
<1>3. /\ q \in Procs /\ q.alias = p.alias /\ q.image = p.image /\ q.id = p.id /\ q.found = p.found /\ q.missed = p.missed
      /\ \/ /\ q.pc = k /\ q.op = p.op /\ q.tries = p.tries /\ q.down = p.down
            /\ k \in {"green", "red"} => p.op \notin {"canary", "teardown"}
         \/ k \in {"green", "red"} /\ p.op = "canary" /\ q.op = "teardown" /\ q.pc = "find" /\ q.tries = 0 /\ q.down = p.down
         \/ k = "green" /\ p.op = "teardown" /\ q.op = "teardown" /\ q.pc \in {"green", "red"} /\ q.tries = p.tries /\ q.down
         \/ /\ k = "red" /\ p.op = "teardown" /\ q.op = "teardown" /\ q.down = p.down
            /\ \/ q.pc = "find" /\ q.tries <= Attempts - 1
               \/ q.pc = "red" /\ q.tries = p.tries
  BY <1>1, <1>2, GoToCases
<1>4. p.op \in PreviewOps
  BY DEF Procs
<1>5. p.op # "none"
  BY <1>2 DEF Working, Shape
<1>6. Shape(q)
  <2>1. 0 <= Attempts - 1
    BY PreviewConstants
  <2> QED
    BY <1>2, <1>3, <1>4, <1>5, <2>1 DEF Shape, Working, PreviewOps
<1>7. Linked(q)'
  <2>1. q.id <= created' /\ (q.id \in DOMAIN stack' => stack'[q.id].alias = q.alias)
    BY <1>3 DEF Linked
  <2>2. \A f \in q.found : f.id \in 1..created' /\ (f.id \in DOMAIN stack' => stack'[f.id].alias = f.alias)
    BY <1>3 DEF Linked
  <2>3. q.op \in {"check", "remediate"} =>
          \A f \in q.found : f.id \in DOMAIN stack' =>
            f.alias.kind \notin P!RefKinds \/ f.id \in wasClosed' \/ (f.alias.kind = "pr" /\ f.alias.of \in q.missed)
    <3>1. q.op \in {"check", "remediate"} => q.op = p.op
      BY <1>3
    <3>2. CASE p.pc = "list"
      BY <1>3, <3>2 DEF Shape
    <3>3. CASE p.pc = "reap"
      BY <1>3, <3>1, <3>3 DEF Linked
    <3> QED
      BY <3>1, <3>2, <3>3
  <2>4. q.op = "teardown" /\ q.pc \in {"green", "red"} /\ q.down => q.id \notin DOMAIN stack'
    BY <1>2, <1>3
  <2> QED
    BY <2>1, <2>2, <2>3, <2>4 DEF Linked
<1>8. Creates(q)'
  BY <1>3 DEF Creates
<1> QED
  BY <1>1, <1>3, <1>6, <1>7, <1>8, PreviewFrame

(* The stacks are the same or fewer, and keep their aliases.               *)
Fewer ==
  /\ UNCHANGED <<created, open, turns, contested, wasClosed>>
  /\ DOMAIN stack' \subseteq DOMAIN stack /\ stack' \in [DOMAIN stack' -> Stacks]
  /\ \A i \in DOMAIN stack' : stack'[i].alias = stack[i].alias

LEMMA WorldFewer ==
  ASSUME PreviewInv, Fewer
  PROVE  /\ Onward /\ StackTypes' /\ UniqueStacks' /\ ClosedKnown' /\ UNCHANGED contested
         /\ \A i \in DOMAIN stack' : ~(i > created)
<1>1. created \in Nat
  BY DEF PreviewInv, StackTypes
<1> QED
  BY <1>1 DEF PreviewInv, Fewer, Onward, StackTypes, UniqueStacks, ClosedKnown

LEMMA SameWorld == PreviewInv /\ UNCHANGED <<stack, created, open, turns, contested, wasClosed>> => Fewer
  BY DEF PreviewInv, StackTypes, Fewer

(* A run that goes on to the phase k with the state it has.                *)
LEMMA PreviewGo ==
  ASSUME PreviewInv, NEW r \in Runs, NEW k \in PreviewPcs, Working(proc[r]), P!Step(r, k), Fewer,
         proc[r].op \in {"up", "down", "canary"} => k \in {"create", "configure", "deploy", "wait", "delete", "green", "red"},
         proc[r].op = "teardown" => k \in {"delete", "green", "red"},
         proc[r].op \in {"check", "remediate"} => k = "red" /\ proc[r].pc \in {"list", "reap"},
         k = "create" => \A i \in DOMAIN stack' : stack'[i].alias # proc[r].alias,
         k = "green" /\ proc[r].op = "teardown" => proc[r].id \notin DOMAIN stack'
  PROVE  PreviewInv'
<1>1. PICK p \in Procs : p = proc[r]
  BY DEF PreviewInv
<1>2. Shape(p) /\ Linked(p) /\ created \in Nat
  BY <1>1 DEF PreviewInv, StackTypes
<1>3. /\ Onward /\ StackTypes' /\ UniqueStacks' /\ ClosedKnown' /\ UNCHANGED contested
      /\ \A i \in DOMAIN stack' : i > created => stack'[i].alias = proc[r].alias
  BY WorldFewer
<1>4. Linked(p)'
  BY <1>2, <1>3, LinkedOnward
<1>5. proc' = [proc EXCEPT ![r] = P!GoTo(p, k)]
  BY <1>1 DEF P!Step, PreviewInv
<1> QED
  BY <1>1, <1>2, <1>3, <1>4, <1>5, PreviewMove

(* A run that fails.                                                       *)
LEMMA PreviewRed ==
  ASSUME PreviewInv, NEW r \in Runs, Working(proc[r]), proc[r].pc # "fetch", P!Red(r),
         UNCHANGED <<open, turns, contested, wasClosed>>
  PROVE  PreviewInv'
<1>1. Shape(proc[r])
  BY DEF PreviewInv
<1>2. proc[r].op \in {"check", "remediate"} => proc[r].pc \in {"list", "reap"}
  BY <1>1 DEF Shape, Working
<1>3. Fewer
  BY SameWorld DEF P!Red
<1>4. "red" \in PreviewPcs /\ P!Step(r, "red")
  BY DEF PreviewPcs, P!Red
<1> QED
  BY <1>2, <1>3, <1>4, PreviewGo

(* The parts of the invariant that the steps of a run start from.          *)
LEMMA AtSites ==
  ASSUME PreviewInv, NEW r \in Runs
  PROVE  /\ proc[r] \in Procs /\ Shape(proc[r]) /\ Linked(proc[r]) /\ Creates(proc[r])
         /\ proc[r].pc \in {"find", "create", "configure", "deploy", "wait", "delete"} =>
              /\ proc[r].op \in {"up", "down", "canary", "teardown"} /\ proc[r].alias \in P!Aliases
         /\ proc[r].pc \in {"create", "configure", "deploy", "wait"} => proc[r].op \in {"up", "down", "canary"}
         /\ proc[r].pc \in {"list", "fetch", "reap"} => proc[r].op \in {"check", "remediate"}
<1>1. proc[r] \in Procs /\ Shape(proc[r]) /\ Linked(proc[r]) /\ Creates(proc[r])
  BY DEF PreviewInv
<1>2. proc[r].op \in PreviewOps
  BY <1>1 DEF Procs
<1> QED
  BY <1>1, <1>2 DEF Shape, PreviewOps

LEMMA PreviewFind == ASSUME PreviewInv, NEW r \in Runs, P!Find(r) PROVE PreviewInv'
<1> DEFINE ids == P!Found(proc[r].alias)
<1>1. proc[r].pc = "find" /\ Working(proc[r]) /\ UNCHANGED <<open, turns, contested, wasClosed>>
  BY DEF P!Find, P!At, P!world, P!history, Working
<1>2. CASE P!Red(r)
  BY <1>1, <1>2, PreviewRed
<1>3. CASE ids = {} /\ P!Step(r, IF P!Deploys(r) THEN "create" ELSE "green") /\ UNCHANGED <<stack, created>>
  <2>1. PICK k \in {"create", "green"} : k = IF P!Deploys(r) THEN "create" ELSE "green"
    OBVIOUS
  <2>2. \A i \in DOMAIN stack : stack[i].alias # proc[r].alias
    BY <1>3 DEF P!Found, P!Named
  <2>3. Fewer
    BY <1>1, <1>3, SameWorld
  <2>4. k \in PreviewPcs
    BY <2>1 DEF PreviewPcs
  <2>5. proc[r].op = "teardown" => k = "green"
    BY <2>1 DEF P!Deploys
  <2>6. proc[r].id \notin DOMAIN stack
    BY <2>2 DEF PreviewInv, Linked
  <2>7. proc[r].op \in {"up", "down", "canary", "teardown"}
    BY <1>1, AtSites
  <2> QED
    BY <1>1, <1>3, <2>1, <2>2, <2>3, <2>4, <2>5, <2>6, <2>7, PreviewGo
<1>4. CASE /\ \E i \in ids : proc' = [proc EXCEPT ![r].pc = IF P!Deploys(r) THEN "configure" ELSE "delete", ![r].id = i]
           /\ UNCHANGED <<stack, created>>
  <2>1. PICK i \in ids : proc' = [proc EXCEPT ![r].pc = IF P!Deploys(r) THEN "configure" ELSE "delete", ![r].id = i]
    BY <1>4
  <2>2. PICK next \in {"configure", "delete"} : next = IF P!Deploys(r) THEN "configure" ELSE "delete"
    OBVIOUS
  <2>3. next \in PreviewPcs /\ i \in Nat /\ i <= created /\ i \in DOMAIN stack /\ stack[i].alias = proc[r].alias
    BY <2>2 DEF PreviewPcs, P!Found, P!Named, PreviewInv, StackTypes
  <2>4. PICK p \in Procs : p = proc[r]
    BY AtSites
  <2> DEFINE q == [p EXCEPT !.pc = next, !.id = i]
  <2>5. proc' = [proc EXCEPT ![r] = q]
    BY <2>1, <2>2, <2>4 DEF PreviewInv
  <2>6. q \in Procs
    BY <2>3 DEF Procs
  <2>7. q.pc = next /\ q.id = i /\ q.op = p.op /\ q.alias = p.alias /\ q.tries = p.tries /\ q.found = p.found /\ q.down = p.down
    BY DEF Procs
  <2> HIDE DEF q
  <2>8. Shape(p) /\ Linked(p) /\ p.op \in {"up", "down", "canary", "teardown"} /\ ~p.down
    BY <1>1, <2>4, AtSites DEF Shape
  <2>9. Shape(q)
    BY <2>2, <2>4, <2>7, <2>8 DEF Shape, Working, P!Deploys
  <2>10. Fewer
    BY <1>1, <1>4, SameWorld
  <2>11. Linked(q) /\ Creates(q)
    BY <2>2, <2>3, <2>4, <2>7, <2>8 DEF Linked, Creates
  <2>12. Linked(q)' /\ Creates(q)'
    BY <1>1, <1>4, <2>11 DEF Linked, Creates
  <2> QED
    BY <1>1, <2>4, <2>5, <2>6, <2>7, <2>9, <2>10, <2>12, WorldFewer, PreviewFrame
<1> QED
  BY <1>2, <1>3, <1>4 DEF P!Find

LEMMA PreviewCreate == ASSUME PreviewInv, NEW r \in Runs, P!Create(r) PROVE PreviewInv'
<1>1. proc[r].pc = "create" /\ Working(proc[r]) /\ UNCHANGED <<open, turns, contested>>
  BY DEF P!Create, P!At, P!world, Working
<1>2. CASE P!Red(r) /\ UNCHANGED wasClosed
  BY <1>1, <1>2, PreviewRed
<1>3. CASE ~(P!Red(r) /\ UNCHANGED wasClosed)
  <2> DEFINE new == created + 1
             alias == proc[r].alias
  <2>1. /\ created < MaxStacks /\ created' = new
        /\ stack' = [i \in DOMAIN stack \cup {new} |-> IF i = new THEN P!NewStack(alias) ELSE stack[i]]
        /\ wasClosed' = wasClosed \cup (IF alias.kind = "pr" /\ alias.of \notin open THEN {new} ELSE {})
    BY <1>3 DEF P!Create
  <2>2. PICK k \in {"configure", "red"} : proc' = [proc EXCEPT ![r] = P!GoTo([proc[r] EXCEPT !.id = new], k)]
    BY <1>3 DEF P!Create, PreviewInv
  <2>3. created \in Nat /\ new \in Nat /\ new > created /\ new \notin DOMAIN stack /\ alias \in P!Aliases
        /\ proc[r].op \in {"up", "down", "canary"}
    BY <1>1, AtSites DEF PreviewInv, StackTypes
  <2>4. P!NewStack(alias) \in Stacks /\ P!NewStack(alias).alias = alias
    BY <2>3 DEF P!NewStack, P!NoImage, Stacks
  <2>5. /\ DOMAIN stack' = DOMAIN stack \cup {new} /\ stack'[new].alias = alias
        /\ \A i \in DOMAIN stack : i # new /\ stack'[i] = stack[i]
    BY <2>1, <2>3, <2>4
  <2>6. stack' \in [DOMAIN stack' -> Stacks]
    BY <2>1, <2>4, <2>5 DEF PreviewInv, StackTypes
  <2>7. StackTypes'
    <3>1. DOMAIN stack' \subseteq 1..created' /\ wasClosed' \subseteq 1..created' /\ created' \in 0..MaxStacks
      BY <2>1, <2>3, <2>5, PreviewConstants DEF PreviewInv, StackTypes
    <3> QED
      BY <1>1, <2>6, <3>1 DEF PreviewInv, StackTypes
  <2>8. Onward
    BY <1>1, <2>1, <2>3, <2>5 DEF Onward
  <2>9. alias \in contested \/ \A i \in DOMAIN stack : stack[i].alias # alias
    BY <1>1 DEF PreviewInv, Creates
  <2>10. UniqueStacks'
    BY <1>1, <2>5, <2>9 DEF PreviewInv, UniqueStacks
  <2>11. ClosedKnown'
    BY <1>1, <2>1, <2>5 DEF PreviewInv, ClosedKnown
  <2>12. PICK was \in Procs : was = proc[r]
    BY AtSites
  <2>23. [was EXCEPT !.id = new] \in Procs
    BY <2>3 DEF Procs
  <2>13. PICK p \in Procs : p = [was EXCEPT !.id = new]
    BY <2>23
  <2>14. /\ p.id = new /\ p.pc = was.pc /\ p.op = was.op /\ p.alias = was.alias /\ p.tries = was.tries
         /\ p.found = was.found /\ p.down = was.down
    BY <2>13 DEF Procs
  <2>15. proc' = [proc EXCEPT ![r] = P!GoTo(p, k)]
    BY <2>2, <2>12, <2>13
  <2> HIDE DEF new
  <2>16. Shape(was) /\ Linked(was)
    BY <2>12, AtSites
  <2>17. Linked(was)'
    BY <2>3, <2>8, <2>16, LinkedOnward
  <2>18. Shape(p)
    BY <2>14, <2>16 DEF Shape, Working
  <2>22. p.op \in {"up", "down", "canary"} /\ p.pc = proc[r].pc /\ p.op = proc[r].op /\ p.alias = alias
    BY <2>3, <2>12, <2>14
  <2>19. Linked(p)'
    <3>1. p.id <= created' /\ (p.id \in DOMAIN stack' => stack'[p.id].alias = p.alias)
      BY <2>1, <2>3, <2>5, <2>14, <2>22
    <3>2. \A f \in p.found : f.id \in 1..created' /\ (f.id \in DOMAIN stack' => stack'[f.id].alias = f.alias)
      BY <2>14, <2>17 DEF Linked
    <3> QED
      BY <2>22, <3>1, <3>2 DEF Linked
  <2>20. k \in PreviewPcs
    BY <2>2 DEF PreviewPcs
  <2>21. \A i \in DOMAIN stack' : i > created => stack'[i].alias = alias
    BY <2>5 DEF PreviewInv, StackTypes, new
  <2> QED
    BY <1>1, <2>2, <2>7, <2>8, <2>10, <2>11, <2>13, <2>15, <2>18, <2>19, <2>20, <2>21, <2>22, PreviewMove
<1> QED
  BY <1>2, <1>3

(* One stack changes, but not its alias.                                   *)
LEMMA Restacked ==
  ASSUME PreviewInv, NEW i \in DOMAIN stack, NEW s \in Stacks, stack' = [stack EXCEPT ![i] = s], s.alias = stack[i].alias,
         UNCHANGED <<created, open, turns, contested, wasClosed>>
  PROVE  Fewer
  BY DEF PreviewInv, StackTypes, Fewer

LEMMA PreviewConfigure == ASSUME PreviewInv, NEW r \in Runs, P!Configure(r) PROVE PreviewInv'
<1>1. proc[r].pc = "configure" /\ Working(proc[r]) /\ UNCHANGED <<open, turns, contested, wasClosed>>
  BY DEF P!Configure, P!At, P!world, P!history, Working
<1>2. CASE P!Red(r)
  BY <1>1, <1>2, PreviewRed
<1>3. CASE ~P!Red(r)
  <2>1. PICK i : i = proc[r].id
    OBVIOUS
  <2>2. i \in DOMAIN stack /\ stack' = [stack EXCEPT ![i].image = proc[r].image] /\ UNCHANGED created
    BY <1>3, <2>1 DEF P!Configure
  <2>3. stack[i] \in Stacks /\ proc[r].image \in Nat /\ stack \in [DOMAIN stack -> Stacks]
    BY <2>2, AtSites DEF PreviewInv, StackTypes, Procs
  <2>4. [stack[i] EXCEPT !.image = proc[r].image] \in Stacks /\ [stack[i] EXCEPT !.image = proc[r].image].alias = stack[i].alias
    BY <2>3 DEF Stacks
  <2>5. stack' = [stack EXCEPT ![i] = [stack[i] EXCEPT !.image = proc[r].image]]
    BY <2>2, <2>3
  <2>6. Fewer
    BY <1>1, <2>2, <2>4, <2>5, Restacked
  <2>7. PICK k \in {"deploy", "red"} : P!Step(r, k)
    BY <1>3 DEF P!Configure
  <2>8. k \in PreviewPcs
    BY <2>7 DEF PreviewPcs
  <2>9. proc[r].op \in {"up", "down", "canary"}
    BY <1>1, AtSites
  <2> QED
    BY <1>1, <2>6, <2>7, <2>8, <2>9, PreviewGo
<1> QED
  BY <1>2, <1>3

LEMMA PreviewDeploy == ASSUME PreviewInv, NEW r \in Runs, P!Deploy(r) PROVE PreviewInv'
<1>1. proc[r].pc = "deploy" /\ Working(proc[r]) /\ UNCHANGED <<open, turns, contested, wasClosed>>
  BY DEF P!Deploy, P!At, P!world, P!history, Working
<1>2. CASE P!Red(r)
  BY <1>1, <1>2, PreviewRed
<1>3. CASE ~P!Red(r)
  <2>1. PICK i : i = proc[r].id
    OBVIOUS
  <2>2. i \in DOMAIN stack /\ stack' = [stack EXCEPT ![i].queued = TRUE] /\ UNCHANGED created
    BY <1>3, <2>1 DEF P!Deploy
  <2>3. stack[i] \in Stacks /\ stack \in [DOMAIN stack -> Stacks]
    BY <2>2 DEF PreviewInv, StackTypes
  <2>4. [stack[i] EXCEPT !.queued = TRUE] \in Stacks /\ [stack[i] EXCEPT !.queued = TRUE].alias = stack[i].alias
    BY <2>3 DEF Stacks
  <2>5. stack' = [stack EXCEPT ![i] = [stack[i] EXCEPT !.queued = TRUE]]
    BY <2>2, <2>3
  <2>6. Fewer
    BY <1>1, <2>2, <2>4, <2>5, Restacked
  <2>7. PICK k \in {"wait", "red"} : P!Step(r, k)
    BY <1>3 DEF P!Deploy
  <2>8. k \in PreviewPcs
    BY <2>7 DEF PreviewPcs
  <2>9. proc[r].op \in {"up", "down", "canary"}
    BY <1>1, AtSites
  <2> QED
    BY <1>1, <2>6, <2>7, <2>8, <2>9, PreviewGo
<1> QED
  BY <1>2, <1>3

LEMMA PreviewWait == ASSUME PreviewInv, NEW r \in Runs, P!Wait(r) PROVE PreviewInv'
<1>1. proc[r].pc = "wait" /\ Working(proc[r]) /\ UNCHANGED <<stack, created, open, turns, contested, wasClosed>>
  BY DEF P!Wait, P!At, P!world, P!history, Working
<1>2. Fewer
  BY <1>1, SameWorld
<1>3. proc[r].op \in {"up", "down", "canary"} /\ proc[r] \in Procs /\ Shape(proc[r]) /\ Linked(proc[r])
  BY <1>1, AtSites
<1>4. CASE \E k \in {"red", "green"} : P!Step(r, k)
  <2>1. {"red", "green"} \subseteq PreviewPcs
    BY DEF PreviewPcs
  <2> QED
    BY <1>1, <1>2, <1>3, <1>4, <2>1, PreviewGo
<1>5. CASE proc[r].tries + 1 < Polls /\ proc' = [proc EXCEPT ![r].tries = @ + 1]
  <2>1. PICK p \in Procs, tries \in Nat : p = proc[r] /\ tries = p.tries + 1
    BY <1>3 DEF Procs
  <2> DEFINE q == [p EXCEPT !.tries = tries]
  <2>2. proc' = [proc EXCEPT ![r] = q]
    BY <1>5, <2>1 DEF PreviewInv
  <2>3. q \in Procs
    BY DEF Procs
  <2>4. /\ q.tries = tries /\ q.id = p.id /\ q.pc = p.pc /\ q.op = p.op /\ q.alias = p.alias
        /\ q.found = p.found /\ q.down = p.down /\ q.missed = p.missed
    BY DEF Procs
  <2> HIDE DEF q
  <2>5. q.tries <= Polls - 1
    BY <1>5, <2>1, <2>4, PreviewConstants
  <2>6. Shape(q)
    BY <1>1, <1>3, <2>1, <2>4, <2>5 DEF Shape, Working
  <2>7. Linked(q) /\ Creates(q)
    BY <1>1, <1>3, <2>1, <2>4 DEF Linked, Creates
  <2>8. Linked(q)' /\ Creates(q)'
    BY <1>1, <2>7 DEF Linked, Creates
  <2> QED
    BY <1>1, <1>2, <2>1, <2>2, <2>3, <2>4, <2>6, <2>8, WorldFewer, PreviewFrame
<1> QED
  BY <1>4, <1>5 DEF P!Wait

LEMMA PreviewDelete == ASSUME PreviewInv, NEW r \in Runs, P!Delete(r) PROVE PreviewInv'
<1>1. proc[r].pc = "delete" /\ Working(proc[r]) /\ UNCHANGED <<open, turns, contested, wasClosed>>
  BY DEF P!Delete, P!At, P!world, P!history, Working
<1>2. CASE P!Red(r)
  BY <1>1, <1>2, PreviewRed
<1>3. CASE ~P!Red(r)
  <2>1. stack' = [i \in DOMAIN stack \ {proc[r].id} |-> stack[i]] /\ UNCHANGED created
    BY <1>3 DEF P!Delete, P!Without
  <2>2. Fewer
    BY <1>1, <2>1 DEF Fewer, PreviewInv, StackTypes
  <2>3. PICK k \in {"green", "red"} : P!Step(r, k)
    BY <1>3 DEF P!Delete
  <2>4. k \in PreviewPcs
    BY <2>3 DEF PreviewPcs
  <2>5. proc[r].op \in {"up", "down", "canary", "teardown"}
    BY <1>1, AtSites
  <2> QED
    BY <1>1, <2>1, <2>2, <2>3, <2>4, <2>5, PreviewGo
<1> QED
  BY <1>2, <1>3

LEMMA PreviewList == ASSUME PreviewInv, NEW r \in Runs, P!List(r) PROVE PreviewInv'
<1>1. proc[r].pc = "list" /\ Working(proc[r]) /\ UNCHANGED <<open, turns, contested, wasClosed>>
  BY DEF P!List, P!At, P!world, P!history, Working
<1>2. CASE P!Red(r)
  BY <1>1, <1>2, PreviewRed
<1>3. CASE ~P!Red(r)
  <2> DEFINE all == {[id |-> i, alias |-> stack[i].alias] : i \in DOMAIN stack}
  <2>1. proc' = [proc EXCEPT ![r].pc = "fetch", ![r].found = all] /\ UNCHANGED <<stack, created>>
    BY <1>3 DEF P!List
  <2>2. all \subseteq Flagged
    <3>1. \A i \in DOMAIN stack : i \in Nat /\ stack[i].alias \in P!Aliases
      BY DEF PreviewInv, StackTypes, Stacks
    <3> QED
      BY <3>1 DEF Flagged
  <2>3. \A f \in all : f.id \in 1..created /\ (f.id \in DOMAIN stack => stack[f.id].alias = f.alias)
    BY DEF PreviewInv, StackTypes
  <2>4. PICK p \in Procs, next \in PreviewPcs, found \in SUBSET Flagged : p = proc[r] /\ next = "fetch" /\ found = all
    BY <2>2, AtSites DEF PreviewPcs
  <2> HIDE DEF all
  <2>5. [p EXCEPT !.pc = next, !.found = found] \in Procs
    BY DEF Procs
  <2>6. PICK q \in Procs : q = [p EXCEPT !.pc = next, !.found = found]
    BY <2>5
  <2>7. proc' = [proc EXCEPT ![r] = q]
    BY <2>1, <2>4, <2>6 DEF PreviewInv
  <2>8. /\ q.pc = "fetch" /\ q.found = found /\ q.op = p.op /\ q.alias = p.alias /\ q.tries = p.tries /\ q.down = p.down
        /\ q.id = p.id /\ q.missed = p.missed
    BY <2>4, <2>6 DEF Procs
  <2>9. Shape(p) /\ Linked(p) /\ p.op \in {"check", "remediate"} /\ Working(p)
    BY <1>1, <2>4, AtSites
  <2>10. Shape(q)
    BY <2>8, <2>9 DEF Shape, Working
  <2>11. Linked(q) /\ Creates(q)
    BY <2>3, <2>4, <2>8, <2>9 DEF Linked, Creates
  <2>12. Linked(q)' /\ Creates(q)'
    BY <1>1, <2>1, <2>11 DEF Linked, Creates
  <2> QED
    BY <1>1, <2>1, <2>4, <2>7, <2>8, <2>10, <2>12, SameWorld, WorldFewer, PreviewFrame
<1> QED
  BY <1>2, <1>3

LEMMA PreviewPage == ASSUME PreviewInv, NEW r \in Runs, P!Page(r) PROVE PreviewInv'
<1>1. proc[r].pc = "fetch" /\ Working(proc[r]) /\ UNCHANGED <<stack, created, open, turns, contested, wasClosed>>
  BY DEF P!Page, P!At, P!world, P!history, Working
<1>2. PICK page \in SUBSET open : proc' = [proc EXCEPT ![r].read = @ \cup page]
  BY DEF P!Page
<1>3. PICK p \in Procs, read \in SUBSET Pulls : p = proc[r] /\ read = p.read \cup page
  BY AtSites DEF Procs, PreviewInv, StackTypes
<1>4. Shape(p) /\ Linked(p)
  BY <1>1, <1>3, AtSites
<1>5. [p EXCEPT !.read = read] \in Procs
  BY DEF Procs
<1>6. PICK q \in Procs : q = [p EXCEPT !.read = read]
  BY <1>5
<1>7. proc' = [proc EXCEPT ![r] = q]
  BY <1>2, <1>3, <1>6 DEF PreviewInv
<1>8. /\ q.pc = p.pc /\ q.found = p.found /\ q.op = p.op /\ q.alias = p.alias /\ q.tries = p.tries
      /\ q.down = p.down /\ q.id = p.id /\ q.missed = p.missed
  BY <1>6 DEF Procs
<1>9. Shape(q)
  BY <1>4, <1>8 DEF Shape, Working
<1>10. Linked(q) /\ Creates(q)
  BY <1>1, <1>3, <1>4, <1>8 DEF Linked, Creates
<1>11. Linked(q)' /\ Creates(q)'
  BY <1>1, <1>10 DEF Linked, Creates
<1> QED
  BY <1>1, <1>3, <1>7, <1>8, <1>9, <1>11, SameWorld, WorldFewer, PreviewFrame

LEMMA PreviewFetch == ASSUME PreviewInv, NEW r \in Runs, P!Fetch(r) PROVE PreviewInv'
<1>1. proc[r].pc = "fetch" /\ Working(proc[r]) /\ UNCHANGED <<stack, created, open, turns, contested, wasClosed>>
  BY DEF P!Fetch, P!At, P!world, P!history, Working
<1>2. PICK known \in BOOLEAN, last \in SUBSET open :
        LET read  == proc[r].read \cup last
            leaks == {f \in proc[r].found : P!Orphan(f.alias, known, read)}
        IN  proc' = [proc EXCEPT ![r].found = leaks, ![r].read = {},
                                 ![r].missed = IF known THEN open \ read ELSE {},
                                 ![r].pc = IF leaks = {} THEN "green"
                                           ELSE IF proc[r].op = "check" THEN "red" ELSE "reap"]
  BY DEF P!Fetch
<1> DEFINE read == proc[r].read \cup last
           leaks == {f \in proc[r].found : P!Orphan(f.alias, known, read)}
           gone == IF known THEN open \ read ELSE {}
<1>3. PICK p \in Procs : p = proc[r]
  BY AtSites
<1>4. Shape(p) /\ Linked(p) /\ p.op \in {"check", "remediate"} /\ Working(p)
  BY <1>1, <1>3, AtSites
<1>5. leaks \subseteq p.found
  BY <1>3
<1>6. ASSUME NEW f \in leaks, f.id \in DOMAIN stack
      PROVE  f.alias.kind \notin P!RefKinds \/ f.id \in wasClosed \/ (f.alias.kind = "pr" /\ f.alias.of \in gone)
  <2> SUFFICES ASSUME f.alias.kind \in P!RefKinds, f.alias.of \notin gone PROVE f.id \in wasClosed
    BY DEF P!Orphan
  <2>1. stack[f.id].alias = f.alias
    BY <1>4, <1>5, <1>6 DEF Linked
  <2>2. f.alias.kind = "pr" /\ f.alias.of \notin open
    BY DEF P!Orphan
  <2> QED
    BY <1>6, <2>1, <2>2 DEF PreviewInv, ClosedKnown
<1>7. PICK next \in {"green", "red", "reap"}, found \in SUBSET Flagged, missed \in SUBSET Pulls, none \in SUBSET Pulls :
        /\ found = leaks /\ next = IF leaks = {} THEN "green" ELSE IF proc[r].op = "check" THEN "red" ELSE "reap"
        /\ missed = gone /\ none = {}
  <2>1. leaks \in SUBSET Flagged
    BY <1>5 DEF Procs
  <2>2. gone \in SUBSET Pulls
    BY DEF PreviewInv, StackTypes
  <2> HIDE DEF leaks, gone
  <2> QED
    BY <2>1, <2>2
<1>8. proc' = [proc EXCEPT ![r].found = found, ![r].read = none, ![r].missed = missed, ![r].pc = next]
  BY <1>2, <1>7
<1> HIDE DEF leaks, gone
<1>9. next \in PreviewPcs
  BY DEF PreviewPcs
<1>10. [p EXCEPT !.found = found, !.read = none, !.missed = missed, !.pc = next] \in Procs
  BY <1>9 DEF Procs
<1>11. PICK q \in Procs : q = [p EXCEPT !.found = found, !.read = none, !.missed = missed, !.pc = next]
  BY <1>10
<1>12. proc' = [proc EXCEPT ![r] = q]
  BY <1>3, <1>8, <1>11 DEF PreviewInv
<1>13. /\ q.pc = next /\ q.found = found /\ q.op = p.op /\ q.alias = p.alias /\ q.tries = p.tries /\ q.down = p.down
       /\ q.id = p.id /\ q.missed = missed
  BY <1>11 DEF Procs
<1>14. Shape(q)
  BY <1>4, <1>13 DEF Shape, Working
<1>15. Linked(q)
  BY <1>4, <1>5, <1>6, <1>7, <1>13 DEF Linked
<1>16. Creates(q)
  BY <1>7, <1>13 DEF Creates
<1>17. Linked(q)' /\ Creates(q)'
  BY <1>1, <1>15, <1>16 DEF Linked, Creates
<1> QED
  BY <1>1, <1>3, <1>12, <1>13, <1>14, <1>17, SameWorld, WorldFewer, PreviewFrame

LEMMA PreviewReap == ASSUME PreviewInv, NEW r \in Runs, P!Reap(r) PROVE PreviewInv'
<1>1. proc[r].pc = "reap" /\ Working(proc[r]) /\ UNCHANGED <<open, turns, contested, wasClosed>>
  BY DEF P!Reap, P!At, P!world, P!history, Working
<1>2. CASE P!Red(r)
  BY <1>1, <1>2, PreviewRed
<1>3. CASE ~P!Red(r)
  <2>1. PICK f \in proc[r].found :
          /\ stack' = [i \in DOMAIN stack \ {f.id} |-> stack[i]]
          /\ proc' = [proc EXCEPT ![r].found = @ \ {f}, ![r].pc = IF proc[r].found = {f} THEN "green" ELSE "reap"]
    BY <1>3 DEF P!Reap, P!Without
  <2>2. UNCHANGED created
    BY <1>3 DEF P!Reap
  <2>3. Fewer
    BY <1>1, <2>1, <2>2 DEF Fewer, PreviewInv, StackTypes
  <2>4. PICK p \in Procs : p = proc[r]
    BY AtSites
  <2>5. PICK next \in {"green", "reap"} : next = IF proc[r].found = {f} THEN "green" ELSE "reap"
    OBVIOUS
  <2>6. next \in PreviewPcs /\ p.found \ {f} \in SUBSET Flagged
    BY DEF PreviewPcs, Procs
  <2>7. [p EXCEPT !.found = p.found \ {f}, !.pc = next] \in Procs
    BY <2>6 DEF Procs
  <2>8. PICK q \in Procs : q = [p EXCEPT !.found = p.found \ {f}, !.pc = next]
    BY <2>7
  <2>9. proc' = [proc EXCEPT ![r].found = p.found \ {f}, ![r].pc = next]
    BY <2>1, <2>4, <2>5 DEF PreviewInv
  <2>10. proc' = [proc EXCEPT ![r] = q]
    BY <2>4, <2>8, <2>9 DEF PreviewInv
  <2>11. /\ q.pc = next /\ q.found \subseteq p.found /\ q.op = p.op
         /\ q.alias = p.alias /\ q.tries = p.tries /\ q.down = p.down /\ q.id = p.id /\ q.missed = p.missed
    BY <2>8 DEF Procs
  <2>12. Shape(p) /\ Linked(p) /\ p.op \in {"check", "remediate"} /\ Working(p) /\ p.pc = "reap"
    BY <1>1, <2>4, AtSites
  <2>13. Shape(q)
    BY <2>11, <2>12 DEF Shape, Working
  <2>14. Linked(q) /\ Creates(q)
    BY <2>5, <2>11, <2>12 DEF Linked, Creates
  <2>15. Onward /\ created \in Nat
    BY <2>3, WorldFewer DEF PreviewInv, StackTypes
  <2>16. Linked(q)' /\ Creates(q)'
    BY <2>5, <2>11, <2>14, <2>15, LinkedOnward DEF Creates
  <2> QED
    BY <1>1, <2>3, <2>4, <2>10, <2>11, <2>13, <2>16, WorldFewer, PreviewFrame
<1> QED
  BY <1>2, <1>3

LEMMA PreviewStart == ASSUME PreviewInv, NEW r \in Runs, P!Start(r) PROVE PreviewInv'
<1>1. proc[r].pc = "idle" /\ UNCHANGED <<stack, created, open, turns, wasClosed>>
  BY DEF P!Start, P!At, P!world
<1>2. PICK a \in Asked :
        LET alias == IF a.op \in {"up", "down", "canary"} THEN P!Alias(a.kind, a.value) ELSE <<>>
        IN  /\ proc' = [proc EXCEPT ![r] = [P!IdleRun EXCEPT !.pc = IF alias = <<>> THEN "list" ELSE "find",
                                             !.op = a.op, !.alias = alias, !.image = a.image]]
            /\ contested' = contested \cup {b \in {alias} \ {<<>>} : \E q \in Runs : P!Active(q) /\ proc[q].alias = b}
  BY DEF P!Start
<1>3. PICK alias : alias = IF a.op \in {"up", "down", "canary"} THEN P!Alias(a.kind, a.value) ELSE <<>>
  OBVIOUS
<1>4. <<>> \notin P!Aliases
  BY DEF P!Aliases
<1>5. PICK op \in PreviewOps, next \in PreviewPcs, image \in Nat :
        op = a.op /\ next = (IF alias = <<>> THEN "list" ELSE "find") /\ image = a.image
  BY PreviewConstants DEF PreviewOps, PreviewPcs
<1>6. /\ op \in {"up", "down", "canary"} => alias \in P!Aliases /\ next = "find"
      /\ op \notin {"up", "down", "canary"} => alias = <<>> /\ next = "list"
      /\ op \in {"up", "down", "canary", "check", "remediate"}
  BY <1>3, <1>4, <1>5, PreviewConstants
<1>7. P!IdleRun \in Procs /\ P!IdleRun.id = 0 /\ P!IdleRun.tries = 0 /\ P!IdleRun.found = {} /\ P!IdleRun.down = FALSE
  BY DEF P!IdleRun, P!NoImage, Procs, PreviewPcs, PreviewOps
<1>8. [P!IdleRun EXCEPT !.pc = next, !.op = op, !.alias = alias, !.image = image] \in Procs
  BY <1>6, <1>7 DEF Procs
<1>9. PICK q \in Procs : q = [P!IdleRun EXCEPT !.pc = next, !.op = op, !.alias = alias, !.image = image]
  BY <1>8
<1>10. proc' = [proc EXCEPT ![r] = q]
  BY <1>2, <1>3, <1>5, <1>9
<1>11. q.pc = next /\ q.op = op /\ q.alias = alias /\ q.id = 0 /\ q.tries = 0 /\ q.found = {} /\ ~q.down
  BY <1>7, <1>9 DEF Procs
<1>12. contested' = contested \cup {b \in {alias} \ {<<>>} : \E o \in Runs : P!Active(o) /\ proc[o].alias = b}
  BY <1>2, <1>3
<1>13. proc \in [Runs -> Procs] /\ proc' \in [Runs -> Procs] /\ proc'[r] = q /\ \A o \in Runs : o # r => proc'[o] = proc[o]
  BY <1>10 DEF PreviewInv
<1>14. contested \subseteq contested' /\ contested' \subseteq P!Aliases
  BY <1>6, <1>12 DEF PreviewInv, StackTypes
<1>15. StackTypes' /\ UniqueStacks' /\ ClosedKnown' /\ Onward
  <2>1. created \in Nat
    BY DEF PreviewInv, StackTypes
  <2> QED
    BY <1>1, <1>14, <2>1 DEF PreviewInv, StackTypes, UniqueStacks, ClosedKnown, Onward
<1>16. ASSUME NEW o \in Runs, o # r, Working(proc[o]), proc[o].alias = alias PROVE alias \in contested' \cup {<<>>}
  BY <1>12, <1>16 DEF P!Active, P!Ends, Working
<1>17. PairsContested'
  BY <1>11, <1>13, <1>14, <1>16 DEF PreviewInv, PairsContested, Working
<1>18. ASSUME NEW o \in Runs, o # r PROVE Shape(proc[o]) /\ Linked(proc[o])' /\ Creates(proc[o])'
  <2>1. Shape(proc[o]) /\ Linked(proc[o]) /\ Creates(proc[o])
    BY DEF PreviewInv
  <2>2. proc'[o] = proc[o]
    BY <1>13, <1>18
  <2> QED
    BY <1>1, <1>14, <2>1, <2>2 DEF Linked, Creates
<1>19. Shape(q)
  BY <1>6, <1>11, PreviewConstants DEF Shape, Working
<1>20. Linked(q)' /\ Creates(q)'
  <2>1. 0 <= created' /\ 0 \notin DOMAIN stack'
    BY <1>1 DEF PreviewInv, StackTypes
  <2> QED
    BY <1>6, <1>11, <2>1 DEF Linked, Creates
<1>21. \A o \in Runs : Shape(proc'[o]) /\ Linked(proc[o])' /\ Creates(proc[o])'
  BY <1>13, <1>18, <1>19, <1>20
<1> QED
  BY <1>13, <1>15, <1>17, <1>21 DEF PreviewInv

(* A step of the world leaves the runs alone.                              *)
LEMMA PreviewWorld ==
  ASSUME PreviewInv, Onward, StackTypes', UniqueStacks', ClosedKnown', UNCHANGED <<proc, contested>>,
         \A i \in DOMAIN stack' : ~(i > created)
  PROVE  PreviewInv'
<1>1. created \in Nat
  BY DEF PreviewInv, StackTypes
<1>2. ASSUME NEW r \in Runs PROVE Shape(proc[r])' /\ Linked(proc[r])' /\ Creates(proc[r])'
  <2>1. PICK p \in Procs : p = proc[r]
    BY DEF PreviewInv
  <2>2. Shape(p) /\ Linked(p) /\ Creates(p)
    BY <2>1 DEF PreviewInv
  <2>3. Linked(p)'
    BY <1>1, <2>2, LinkedOnward
  <2>4. \A i \in DOMAIN stack' : i \in DOMAIN stack /\ stack'[i].alias = stack[i].alias
    BY <1>1 DEF Onward, StackTypes
  <2>5. Creates(p)'
    BY <2>2, <2>4 DEF Creates
  <2> QED
    BY <2>1, <2>2, <2>3, <2>5 DEF Shape, Working
<1>3. PairsContested'
  BY DEF PreviewInv, PairsContested, Working
<1> QED
  BY <1>2, <1>3 DEF PreviewInv

LEMMA PreviewTakeUp == ASSUME PreviewInv, P!TakeUp PROVE PreviewInv'
<1>1. UNCHANGED <<created, open, turns, contested, wasClosed, proc>>
  BY DEF P!TakeUp, P!world, P!history
<1>2. PICK i \in DOMAIN stack : stack' = [stack EXCEPT ![i].queued = FALSE, ![i].status = "running"]
  BY DEF P!TakeUp
<1>3. PICK s \in Stacks, status \in {"idle", "running", "done", "error"} : s = stack[i] /\ status = "running"
  BY DEF PreviewInv, StackTypes
<1>4. /\ [s EXCEPT !.queued = FALSE, !.status = status] \in Stacks
      /\ [s EXCEPT !.queued = FALSE, !.status = status].alias = s.alias
  BY DEF Stacks
<1>5. stack' = [stack EXCEPT ![i] = [s EXCEPT !.queued = FALSE, !.status = status]]
  BY <1>2, <1>3 DEF PreviewInv, StackTypes
<1>6. Fewer
  BY <1>1, <1>3, <1>4, <1>5, Restacked
<1> QED
  BY <1>1, <1>6, WorldFewer, PreviewWorld

LEMMA PreviewFinish == ASSUME PreviewInv, P!Finish PROVE PreviewInv'
<1>1. UNCHANGED <<created, open, turns, contested, wasClosed, proc>>
  BY DEF P!Finish, P!world, P!history
<1>2. PICK i \in DOMAIN stack :
        \/ stack' = [stack EXCEPT ![i].status = "done", ![i].runs = stack[i].image]
        \/ stack' = [stack EXCEPT ![i].status = "error"]
  BY DEF P!Finish
<1>3. PICK s \in Stacks, done \in {"idle", "running", "done", "error"}, error \in {"idle", "running", "done", "error"},
           image \in Nat :
        s = stack[i] /\ done = "done" /\ error = "error" /\ image = s.image
  BY DEF PreviewInv, StackTypes, Stacks
<1>4. /\ [s EXCEPT !.status = done, !.runs = image] \in Stacks /\ [s EXCEPT !.status = done, !.runs = image].alias = s.alias
      /\ [s EXCEPT !.status = error] \in Stacks /\ [s EXCEPT !.status = error].alias = s.alias
  BY DEF Stacks
<1>5. \/ stack' = [stack EXCEPT ![i] = [s EXCEPT !.status = done, !.runs = image]]
      \/ stack' = [stack EXCEPT ![i] = [s EXCEPT !.status = error]]
  BY <1>2, <1>3 DEF PreviewInv, StackTypes
<1>6. Fewer
  BY <1>1, <1>3, <1>4, <1>5, Restacked
<1> QED
  BY <1>1, <1>6, WorldFewer, PreviewWorld

LEMMA PreviewTurn == ASSUME PreviewInv, P!Turn PROVE PreviewInv'
<1>1. UNCHANGED <<stack, created, proc, contested>> /\ turns < MaxTurns /\ turns' = turns + 1
  BY DEF P!Turn
<1>2. PICK n \in Pulls :
        /\ open' = IF n \in open THEN open \ {n} ELSE open \cup {n}
        /\ wasClosed' = wasClosed \cup
             (IF n \in open THEN {i \in DOMAIN stack : stack[i].alias = P!Alias("pr", n)} ELSE {})
  BY DEF P!Turn
<1>3. turns' \in 0..MaxTurns
  BY <1>1, PreviewConstants DEF PreviewInv, StackTypes
<1>4. StackTypes'
  BY <1>1, <1>2, <1>3 DEF PreviewInv, StackTypes
<1>5. Onward /\ \A i \in DOMAIN stack' : ~(i > created)
  BY <1>1, <1>2 DEF Onward, PreviewInv, StackTypes
<1>6. ASSUME NEW i \in DOMAIN stack, stack[i].alias.kind = "pr", stack[i].alias.of = n PROVE stack[i].alias = P!Alias("pr", n)
  <2>1. stack[i].alias \in P!Aliases
    BY DEF PreviewInv, StackTypes, Stacks
  <2> QED
    BY <1>6, <2>1 DEF P!Alias, P!Aliases
<1>7. ClosedKnown'
  BY <1>1, <1>2, <1>6 DEF PreviewInv, ClosedKnown
<1>8. UniqueStacks'
  BY <1>1 DEF PreviewInv, UniqueStacks
<1> QED
  BY <1>1, <1>4, <1>5, <1>7, <1>8, PreviewWorld

LEMMA PreviewAlways == Spec => []PreviewInv
<1>1. Init => PreviewInv
  BY InitParts, PreviewInit
<1>2. PreviewInv /\ [Next]_vars => PreviewInv'
  <2> SUFFICES ASSUME PreviewInv, [Next]_vars PROVE PreviewInv'
    OBVIOUS
  <2>1. CASE UNCHANGED ofPreview
    BY <2>1 DEF ofPreview, PreviewInv, StackTypes, UniqueStacks, ClosedKnown, PairsContested, Shape, Linked, Creates, Working
  <2>2. CASE P!Next
    <3>1. CASE P!Rest
      BY <2>1, <3>1 DEF P!Rest, P!vars, ofPreview
    <3> QED
      BY <2>2, <3>1, PreviewStart, PreviewFind, PreviewCreate, PreviewConfigure, PreviewDeploy, PreviewWait, PreviewDelete,
         PreviewList, PreviewPage, PreviewFetch, PreviewReap, PreviewTakeUp, PreviewFinish, PreviewTurn DEF P!Next, P!Work
  <2> QED
    BY <2>1, <2>2, PreviewStep
<1> QED
  BY <1>1, <1>2, PTL DEF Spec

LEMMA PreviewSafe == PreviewInv => P!TypeOK /\ NoStackIsLeftOver /\ P!FlaggedOnlyWhenClosed
<1> SUFFICES ASSUME PreviewInv PROVE P!TypeOK /\ NoStackIsLeftOver /\ P!FlaggedOnlyWhenClosed
  OBVIOUS
<1>1. ASSUME NEW r \in Runs
      PROVE  /\ proc[r].tries \in 0..(IF proc[r].op = "teardown" THEN Attempts ELSE Polls) - 1
             /\ proc[r].healthy \in BOOLEAN /\ proc[r].down \in BOOLEAN
             /\ \A f \in proc[r].found : f.id \in 1..created
             /\ proc[r].read \subseteq Pulls /\ proc[r].missed \subseteq Pulls
  <2>1. Shape(proc[r]) /\ Linked(proc[r]) /\ proc[r] \in Procs
    BY DEF PreviewInv
  <2>2. proc[r].tries \in Nat
    BY <2>1 DEF Procs
  <2>3. proc[r].tries \in 0..(IF proc[r].op = "teardown" THEN Attempts ELSE Polls) - 1
    BY <2>1, <2>2, PreviewConstants DEF Shape
  <2> QED
    BY <2>1, <2>3 DEF Procs, Linked
<1>2. P!TypeOK
  BY <1>1 DEF PreviewInv, StackTypes, Stacks, P!TypeOK
<1>3. P!OneStackPerAlias
  BY DEF PreviewInv, UniqueStacks, P!OneStackPerAlias
<1>4. P!CanaryLeavesNothing
  BY DEF PreviewInv, Shape, Linked, P!CanaryLeavesNothing, P!Ends
<1>5. P!FlaggedOnlyWhenClosed
  BY DEF PreviewInv, Linked, P!FlaggedOnlyWhenClosed
<1> QED
  BY <1>2, <1>3, <1>4, <1>5 DEF NoStackIsLeftOver

(* Ups and downs of an alias that follow each other leave it with one      *)
(* stack (up and down of deploy/preview.py), although a create may succeed *)
(* without its answer; and a canary that could tear down has left nothing  *)
(* of its own (run_canary).                                                *)
THEOREM LeftOverCorrect == Spec => []NoStackIsLeftOver
  BY PreviewAlways, PreviewSafe, PTL

(* What the leak check flags and is still there is of the old form, or its *)
(* pull request was closed at a time when it existed (detect of            *)
(* preview_leak_check.py, which lists the stacks before it reads the pages *)
(* of open pull requests), whatever is opened, closed and deployed in      *)
(* between; or the answer left the pull request out, which                 *)
(* fetch_open_pr_numbers does not notice.                                  *)
THEOREM FlaggedCorrect == Spec => []FlaggedOnlyWhenClosed
  BY PreviewAlways, PreviewSafe, PTL DEF FlaggedOnlyWhenClosed

-----------------------------------------------------------------------------
(* The report of the configuration drift.                                  *)
LEMMA DriftStep == [Next]_vars => D!Next \/ UNCHANGED ofDrift
  BY DEF Next, vars, Previews, Sidecar, Bridge, Rules, Audit, Drift, Watch

(* What the constants of the drift report are.                             *)
LEMMA DriftConstants ==
  /\ First \in D!Tree /\ First.file[D!Compose] # 0
  /\ D!Compose \notin Artifacts \cup Dependencies
  /\ Transient \cap D!Files = {}
  BY ChecksAssumption DEF ChecksAssumption, D!DriftAssumption, D!Absent

(* Every commit of main has a compose file.                                *)
DriftHistory ==
  /\ main \in Seq(D!Tree) /\ Len(main) # 0
  /\ \A n \in 1..Len(main) : main[n].file[D!Compose] # 0

(* The three labels of an identity.                                        *)
Fields(i) == [runtime |-> i.runtime, source |-> i.source, ref |-> i.ref]

DriftTypes ==
  /\ tag \in 0..Len(main) /\ secret \in {1, 2} /\ tampered \in BOOLEAN
  /\ identity = Fields(identity) /\ identity.ref \in 0..Len(main)
  /\ daily.pc \in {"idle", "looking", "green", "red", "paged", "quiet"}
  /\ daily.head \in 0..Len(main) /\ daily.tag \in 0..Len(main)
  /\ daily.pc \in {"looking", "red"} => daily.head # 0

(* The source hash that a sync computes in a fresh checkout of t.          *)
Contents(t) == D!LocalHash(t, t.env, FALSE)

(* The identity that a sync stored: the hash of the inputs at its commit.  *)
(* A promotion may have busted its runtime hash.                           *)
Stored(i, trees) ==
  i.ref # 0 => /\ i.source = Contents(trees[i.ref])
               /\ i.runtime = D!Bust \/ \E s \in {1, 2} : i.runtime = <<i.source, s>>

(* The inductive invariant of the drift report: an identity nobody         *)
(* tampered with is the hash of the tree it names.                         *)
DriftInv ==
  /\ DriftHistory /\ DriftTypes
  /\ ~tampered => Stored(identity, main)
  /\ DriftIsTheTruth

(* What the interpreter leaves in a checkout is not among the inputs.      *)
LEMMA TransientsDoNotCount ==
  ASSUME NEW t, NEW used \in BOOLEAN
  PROVE  D!Enumerated(D!OnDisk(t, used)) = D!OnDisk(t, FALSE)
  BY DriftConstants DEF D!Enumerated, D!OnDisk

(* A used checkout has the hash of a fresh one.                            *)
LEMMA HashOfUsed ==
  ASSUME NEW t, NEW env, NEW used \in BOOLEAN PROVE D!LocalHash(t, env, used) = D!LocalHash(t, env, FALSE)
  BY TransientsDoNotCount DEF D!LocalHash

LEMMA DriftInit == D!Init => DriftInv
<1> SUFFICES ASSUME D!Init PROVE DriftInv
  OBVIOUS
<1>1. DriftHistory
  BY DriftConstants DEF D!Init, DriftHistory
<1>2. DriftTypes
  <2>1. Len(main) = 1 /\ tag = 0 /\ secret = 1 /\ tampered = FALSE
    BY DEF D!Init
  <2>2. identity = Fields(identity) /\ identity.ref = 0 /\ daily.pc = "idle" /\ daily.head = 0 /\ daily.tag = 0
    BY DEF D!Init, D!NoIdentity, D!NoRef, D!NoJob, Fields
  <2>3. daily.pc \notin {"looking", "red"}
    BY <2>2
  <2>4. 0 \in 0..Len(main) /\ 1 \in {1, 2}
    BY <2>1
  <2>5. tampered \in BOOLEAN
    BY <2>1
  <2> QED
    BY <2>1, <2>2, <2>3, <2>4, <2>5, Zenon DEF DriftTypes
<1>3. Stored(identity, main)
  BY DEF D!Init, D!NoIdentity, D!NoRef, Stored
<1>4. DriftIsTheTruth
  BY DEF D!Init, D!NoReport, D!NoIdentity, D!NoRef, DriftIsTheTruth, D!DriftIsTheTruth, D!Judged
<1> QED
  BY <1>1, <1>2, <1>3, <1>4 DEF DriftInv

(* Where there is no report nothing is said.                               *)
LEMMA NothingReported == ASSUME drift' = D!NoReport PROVE DriftIsTheTruth'
  BY DEF D!NoReport, D!NoIdentity, D!NoRef, DriftIsTheTruth, D!DriftIsTheTruth, D!Judged

(* The daily job while the others step: its checkout may end.              *)
LEMMA JobElsewhere ==
  ASSUME DriftTypes, D!Elsewhere, Len(main) \in Nat, Len(main') \in Nat, Len(main') >= Len(main)
  PROVE  /\ daily'.pc \in {"idle", "looking", "green", "red", "paged", "quiet"}
         /\ daily'.head \in 0..Len(main') /\ daily'.tag \in 0..Len(main')
         /\ daily'.pc \in {"looking", "red"} => daily'.head # 0
         /\ DriftIsTheTruth'
<1>1. DriftIsTheTruth'
  BY NothingReported DEF D!Elsewhere
<1>2. CASE daily.pc \in {"looking", "red"}
  BY <1>1, <1>2 DEF D!Elsewhere, DriftTypes
<1>3. CASE daily.pc \notin {"looking", "red"}
  BY <1>1, <1>3 DEF D!Elsewhere, DriftTypes, D!NoJob
<1> QED
  BY <1>2, <1>3

LEMMA DriftMerge == ASSUME DriftInv, D!Merge PROVE DriftInv'
<1> DEFINE last == main[Len(main)]
<1>1. main \in Seq(D!Tree) /\ Len(main) \in Nat /\ last \in D!Tree /\ last.file[D!Compose] # 0
  BY DEF DriftInv, DriftHistory
<1>2. PICK t : /\ t \in {[last EXCEPT !.file[f] = content] : f \in D!Files \ {D!Compose}, content \in {D!Absent, 1, 2}}
                        \cup {[last EXCEPT !.file[D!Compose] = @ + 1], [last EXCEPT !.env = @ + 1]}
               /\ main' = Append(main, t)
  BY DEF D!Merge
<1>3. t \in D!Tree /\ t.file[D!Compose] # 0
  <2>1. ASSUME NEW f \in D!Files \ {D!Compose}, NEW content \in {D!Absent, 1, 2}, t = [last EXCEPT !.file[f] = content]
        PROVE  t \in D!Tree /\ t.file[D!Compose] # 0
    <3>1. t = [last EXCEPT !.file = [last.file EXCEPT ![f] = content]]
      BY <2>1
    <3>2. /\ [last.file EXCEPT ![f] = content] \in [D!Files -> Nat]
          /\ [last.file EXCEPT ![f] = content][D!Compose] # 0
      <4>1. last.file \in [D!Files -> Nat] /\ content \in Nat /\ D!Compose \in D!Files /\ f # D!Compose
        BY <1>1 DEF D!Tree, D!Absent, D!Files
      <4> QED
        BY <1>1, <4>1
    <3> QED
      BY <1>1, <3>1, <3>2 DEF D!Tree
  <2>2. CASE t = [last EXCEPT !.file[D!Compose] = @ + 1]
    <3>1. t = [last EXCEPT !.file = [last.file EXCEPT ![D!Compose] = last.file[D!Compose] + 1]]
      BY <2>2
    <3>2. D!Compose \in D!Files /\ last.file \in [D!Files -> Nat]
      BY <1>1 DEF D!Files, D!Tree
    <3>3. /\ [last.file EXCEPT ![D!Compose] = last.file[D!Compose] + 1] \in [D!Files -> Nat]
          /\ last.file[D!Compose] + 1 # 0
      BY <3>2
    <3> QED
      BY <1>1, <3>1, <3>2, <3>3 DEF D!Tree
  <2>3. CASE t = [last EXCEPT !.env = @ + 1]
    BY <1>1, <2>3 DEF D!Tree
  <2> QED
    BY <1>2, <2>1, <2>2, <2>3
<1>4. /\ main' \in Seq(D!Tree) /\ Len(main') = Len(main) + 1
      /\ \A n \in 1..Len(main) : main'[n] = main[n]
      /\ main'[Len(main) + 1] = t
  BY <1>1, <1>2, <1>3
<1>5. DriftHistory'
  BY <1>1, <1>3, <1>4 DEF DriftInv, DriftHistory
<1>6. DriftTypes'
  BY <1>1, <1>4, JobElsewhere DEF DriftInv, DriftTypes, D!Merge
<1>7. ~tampered' => Stored(identity', main')
  BY <1>1, <1>4 DEF DriftInv, DriftTypes, Stored, D!Merge
<1>8. DriftIsTheTruth'
  BY <1>1, <1>4, JobElsewhere DEF DriftInv, D!Merge
<1> QED
  BY <1>5, <1>6, <1>7, <1>8 DEF DriftInv

(* A step that leaves main alone: what has to be shown of the identity.    *)
LEMMA DriftElsewhere ==
  ASSUME DriftInv, D!Elsewhere, UNCHANGED main, tag' \in 0..Len(main), secret' \in {1, 2}, tampered' \in BOOLEAN,
         identity' = Fields(identity'), identity'.ref \in 0..Len(main), ~tampered' => Stored(identity', main)
  PROVE  DriftInv'
<1>1. Len(main) \in Nat
  BY DEF DriftInv, DriftHistory
<1>2. DriftTypes' /\ DriftIsTheTruth'
  BY <1>1, JobElsewhere DEF DriftInv, DriftTypes
<1> QED
  BY <1>2 DEF DriftInv, DriftHistory

LEMMA DriftSync == ASSUME DriftInv, D!Sync PROVE DriftInv'
<1>1. PICK used \in BOOLEAN :
        identity' = [runtime |-> <<D!LocalHash(main[tag], main[tag].env, used), secret>>,
                     source |-> D!LocalHash(main[tag], main[tag].env, used), ref |-> tag]
  BY DEF D!Sync
<1>2. Stored(identity', main)
  BY <1>1, HashOfUsed DEF Stored, Contents, DriftInv, DriftTypes
<1> QED
  BY <1>1, <1>2, DriftElsewhere DEF D!Sync, DriftInv, DriftTypes, Fields

LEMMA DriftOthers ==
  ASSUME DriftInv, D!CutTag \/ D!Rotate \/ D!Tamper \/ D!Promote PROVE DriftInv'
<1>1. main \in Seq(D!Tree) /\ Len(main) \in Nat /\ Len(main) # 0
  BY DEF DriftInv, DriftHistory
<1>2. CASE D!CutTag
  BY <1>1, <1>2, DriftElsewhere DEF D!CutTag, DriftInv, DriftTypes
<1>3. CASE D!Rotate
  BY <1>1, <1>3, DriftElsewhere DEF D!Rotate, DriftInv, DriftTypes
<1>4. CASE D!Promote
  BY <1>1, <1>4, DriftElsewhere DEF D!Promote, DriftInv, DriftTypes, Stored, D!NoRef, Fields
<1>5. CASE D!Tamper
  <2>1. identity' = Fields(identity') /\ identity'.ref \in 0..Len(main)
    <3>1. identity = Fields(identity) /\ identity.ref \in 0..Len(main)
      BY DEF DriftInv, DriftTypes
    <3>2. /\ identity' = [runtime |-> identity'.runtime, source |-> identity'.source, ref |-> identity'.ref]
          /\ identity'.ref \in {identity.ref, D!NoRef, 1}
      BY <1>5, <3>1 DEF D!Tamper, Fields
    <3> QED
      BY <1>1, <3>1, <3>2 DEF Fields, D!NoRef
  <2> QED
    BY <1>1, <1>5, <2>1, DriftElsewhere DEF D!Tamper, DriftInv, DriftTypes
<1> QED
  BY <1>2, <1>3, <1>4, <1>5

(* The inputs are the compose file, the artifacts and the dependencies.    *)
LEMMA Paths == /\ D!Compose \in D!Files
               /\ \A f \in D!Files \ {D!Compose} : f \in Artifacts \cup Dependencies
               /\ \A t : D!OnDisk(t, FALSE) = {f \in D!Files \ {D!Compose} : t.file[f] # 0}
  BY DEF D!Files, D!OnDisk, D!Absent

(* Two lists of items are the same exactly when they name the same files   *)
(* with the same contents.                                                 *)
LEMMA SameItems ==
  ASSUME NEW t, NEW o, NEW F \in SUBSET D!Files, NEW G \in SUBSET D!Files
  PROVE  D!Items(t, F) = D!Items(o, G) <=> F = G /\ \A f \in F : t.file[f] = o.file[f]
<1>1. /\ D!Items(t, F) = {<<f, t.file[f]>> : f \in F}
      /\ D!Items(o, G) = {<<f, o.file[f]>> : f \in G}
  BY DEF D!Items
<1>2. ASSUME D!Items(t, F) = D!Items(o, G) PROVE F = G /\ \A f \in F : t.file[f] = o.file[f]
  <2>1. ASSUME NEW f \in F PROVE f \in G /\ t.file[f] = o.file[f]
    <3>1. PICK g \in G : <<f, t.file[f]>> = <<g, o.file[g]>>
      BY <1>1, <1>2
    <3> QED
      BY <3>1
  <2>2. ASSUME NEW g \in G PROVE g \in F
    <3>1. PICK f \in F : <<g, o.file[g]>> = <<f, t.file[f]>>
      BY <1>1, <1>2
    <3> QED
      BY <3>1
  <2> QED
    BY <2>1, <2>2
<1>3. ASSUME F = G, \A f \in F : t.file[f] = o.file[f] PROVE D!Items(t, F) = D!Items(o, G)
  BY <1>1, <1>3
<1> QED
  BY <1>2, <1>3

(* The hash with a list of files of its own.                               *)
Fingerprint(t, env, files) ==
  D!Hash(t.file[D!Compose], env, D!Items(t, D!ArtifactsOf(files)), D!Items(t, D!DependenciesOf(files)))

(* Two such hashes are the same exactly when the inputs are.               *)
LEMMA SameFingerprint ==
  ASSUME NEW t, NEW o, NEW env, NEW other, NEW F \in SUBSET D!Files, NEW G \in SUBSET D!Files
  PROVE  Fingerprint(t, env, F) = Fingerprint(o, other, G)
           <=> t.file[D!Compose] = o.file[D!Compose] /\ env = other /\ F = G /\ \A f \in F : t.file[f] = o.file[f]
<1> DEFINE FA == D!ArtifactsOf(F)
           FD == D!DependenciesOf(F)
           GA == D!ArtifactsOf(G)
           GD == D!DependenciesOf(G)
<1>1. /\ FA \in SUBSET D!Files /\ FD \in SUBSET D!Files /\ F = FA \cup FD
      /\ GA \in SUBSET D!Files /\ GD \in SUBSET D!Files /\ G = GA \cup GD
      /\ F = G => FA = GA /\ FD = GD
  BY DEF D!ArtifactsOf, D!DependenciesOf
<1>3. Fingerprint(t, env, F) = Fingerprint(o, other, G)
        <=> /\ t.file[D!Compose] = o.file[D!Compose] /\ env = other
            /\ D!Items(t, FA) = D!Items(o, GA) /\ D!Items(t, FD) = D!Items(o, GD)
  BY DEF Fingerprint, D!Hash
<1> HIDE DEF FA, FD, GA, GD
<1>2. ASSUME NEW X \in SUBSET D!Files, NEW Y \in SUBSET D!Files
      PROVE  D!Items(t, X) = D!Items(o, Y) <=> X = Y /\ \A f \in X : t.file[f] = o.file[f]
  BY SameItems
<1>4. D!Items(t, FA) = D!Items(o, GA) <=> FA = GA /\ \A f \in FA : t.file[f] = o.file[f]
  BY <1>1, <1>2
<1>5. D!Items(t, FD) = D!Items(o, GD) <=> FD = GD /\ \A f \in FD : t.file[f] = o.file[f]
  BY <1>1, <1>2
<1> QED
  BY <1>1, <1>3, <1>4, <1>5

(* What the comparison computes, without the files of the interpreter.     *)
LEMMA HashesAreFingerprints ==
  ASSUME NEW head, NEW ref, NEW used \in BOOLEAN, NEW t
  PROVE  /\ D!HashAt(head, ref, used) = Fingerprint(main[ref], main[head].env, D!OnDisk(main[head], FALSE))
         /\ Contents(t) = Fingerprint(t, t.env, D!OnDisk(t, FALSE))
         /\ D!OnDisk(t, FALSE) \in SUBSET D!Files
<1>1. D!Listed(head, used) = D!OnDisk(main[head], FALSE)
  BY TransientsDoNotCount DEF D!Listed
<1>2. D!HashAt(head, ref, used) = Fingerprint(main[ref], main[head].env, D!OnDisk(main[head], FALSE))
  BY <1>1 DEF D!HashAt, Fingerprint
<1>3. D!Enumerated(D!OnDisk(t, FALSE)) = D!OnDisk(t, FALSE)
  BY TransientsDoNotCount
<1>4. Contents(t) = Fingerprint(t, t.env, D!OnDisk(t, FALSE))
  BY <1>3 DEF Contents, D!LocalHash, Fingerprint
<1> QED
  BY <1>2, <1>4, Paths

(* Commits with the same files miss nothing of each other.                 *)
LEMMA NothingMissing ==
  ASSUME DriftHistory, NEW head \in 1..Len(main), NEW ref \in 1..Len(main), NEW used \in BOOLEAN,
         D!OnDisk(main[ref], FALSE) = D!OnDisk(main[head], FALSE)
  PROVE  D!Missing(head, ref, used) = {}
<1>1. D!Listed(head, used) = D!OnDisk(main[ref], FALSE)
  BY TransientsDoNotCount DEF D!Listed
<1>2. \A f \in D!OnDisk(main[ref], FALSE) : f \in D!Files /\ main[ref].file[f] # 0
  BY Paths
<1>3. main[ref].file[D!Compose] # 0
  BY DEF DriftHistory
<1> QED
  BY <1>1, <1>2, <1>3, Paths DEF D!Missing, D!Absent

(* Where the hashes agree, the files that exist at the head of main are    *)
(* those of the tag.                                                       *)
LEMMA InSyncIsTrue ==
  ASSUME DriftHistory, NEW head \in 1..Len(main), NEW tags \in 1..Len(main), NEW ref \in 1..Len(main), NEW used \in BOOLEAN,
         Contents(main[ref]) = D!HashAt(head, tags, used)
  PROVE  \A f \in D!Files : main[ref].file[f] = IF main[head].file[f] = D!Absent THEN D!Absent ELSE main[tags].file[f]
<1> DEFINE of(n) == D!OnDisk(main[n], FALSE)
<1>1. Fingerprint(main[ref], main[ref].env, of(ref)) = Fingerprint(main[tags], main[head].env, of(head))
  BY HashesAreFingerprints
<1>2. of(ref) \in SUBSET D!Files /\ of(head) \in SUBSET D!Files
  BY Paths
<1> HIDE DEF of
<1>3. /\ main[ref].file[D!Compose] = main[tags].file[D!Compose] /\ of(ref) = of(head)
      /\ \A f \in of(ref) : main[ref].file[f] = main[tags].file[f]
  BY <1>1, <1>2, SameFingerprint
<1>4. \A f \in D!Files \ {D!Compose}, n \in 1..Len(main) : f \notin of(n) <=> main[n].file[f] = 0
  BY Paths DEF of
<1>5. main[head].file[D!Compose] # 0
  BY DEF DriftHistory
<1> QED
  BY <1>3, <1>4, <1>5 DEF D!Absent

(* Trees are the same when their files are.                                *)
LEMMA SameTrees ==
  ASSUME DriftHistory, NEW n \in 1..Len(main), NEW o \in 1..Len(main)
  PROVE  main[n].file = main[o].file <=>
           /\ main[n].file[D!Compose] = main[o].file[D!Compose]
           /\ D!OnDisk(main[n], FALSE) = D!OnDisk(main[o], FALSE)
           /\ \A f \in D!OnDisk(main[n], FALSE) : main[n].file[f] = main[o].file[f]
<1>1. main[n].file \in [D!Files -> Nat] /\ main[o].file \in [D!Files -> Nat]
  <2>1. main[n] \in D!Tree /\ main[o] \in D!Tree
    BY DEF DriftHistory
  <2> QED
    BY <2>1 DEF D!Tree
<1>2. ASSUME main[n].file = main[o].file
      PROVE  D!OnDisk(main[n], FALSE) = D!OnDisk(main[o], FALSE)
  BY <1>2, Paths
<1>3. ASSUME main[n].file[D!Compose] = main[o].file[D!Compose],
             D!OnDisk(main[n], FALSE) = D!OnDisk(main[o], FALSE),
             \A f \in D!OnDisk(main[n], FALSE) : main[n].file[f] = main[o].file[f]
      PROVE  main[n].file = main[o].file
  <2>1. ASSUME NEW f \in D!Files PROVE main[n].file[f] = main[o].file[f]
    BY <1>3, Paths
  <2> QED
    BY <1>1, <2>1
<1> QED
  BY <1>2, <1>3

(* Two commits with the same list of files and the same settings.          *)
SameInputs(n, head) == D!OnDisk(main[n], FALSE) = D!OnDisk(main[head], FALSE) /\ main[n].env = main[head].env

(* Between commits with the same inputs the comparison says whether the    *)
(* files differ.                                                           *)
LEMMA SameInputsTell ==
  ASSUME DriftHistory, NEW head \in 1..Len(main), NEW tags \in 1..Len(main), NEW ref \in 1..Len(main), NEW used \in BOOLEAN,
         SameInputs(tags, head), SameInputs(ref, head)
  PROVE  /\ D!HashAt(head, ref, used) = Contents(main[ref])
         /\ Contents(main[ref]) = D!HashAt(head, tags, used) <=> main[ref].file = main[tags].file
<1> DEFINE of(n) == D!OnDisk(main[n], FALSE)
<1>1. /\ D!HashAt(head, ref, used) = Fingerprint(main[ref], main[head].env, of(head))
      /\ D!HashAt(head, tags, used) = Fingerprint(main[tags], main[head].env, of(head))
      /\ Contents(main[ref]) = Fingerprint(main[ref], main[ref].env, of(ref))
      /\ of(head) \in SUBSET D!Files
  BY HashesAreFingerprints
<1>2. of(ref) = of(head) /\ of(tags) = of(head) /\ main[ref].env = main[head].env
  BY DEF SameInputs
<1>3. main[ref].file = main[tags].file <=>
        /\ main[ref].file[D!Compose] = main[tags].file[D!Compose] /\ of(ref) = of(tags)
        /\ \A f \in of(ref) : main[ref].file[f] = main[tags].file[f]
  BY SameTrees
<1> HIDE DEF of
<1>4. Fingerprint(main[ref], main[head].env, of(head)) = Fingerprint(main[tags], main[head].env, of(head))
        <=> main[ref].file[D!Compose] = main[tags].file[D!Compose] /\ \A f \in of(head) : main[ref].file[f] = main[tags].file[f]
  BY <1>1, SameFingerprint
<1> QED
  BY <1>1, <1>2, <1>3, <1>4

(* What a verdict says of the commits it compares.                         *)
Truth(verdict, head, tags, i) ==
  /\ i.runtime = D!Bust <=> verdict = "cache_bust"
  /\ verdict = "in_sync" =>
       \A f \in D!Files : main[i.ref].file[f] = IF main[head].file[f] = D!Absent THEN D!Absent ELSE main[tags].file[f]
  /\ i.runtime # D!Bust /\ SameInputs(tags, head) /\ SameInputs(i.ref, head) =>
       verdict = IF main[i.ref].file = main[tags].file THEN "in_sync" ELSE "DRIFT"

(* The verdict of the report on an identity that a sync stored.            *)
LEMMA VerdictIsTrue ==
  ASSUME DriftHistory, NEW head \in 1..Len(main), NEW tags \in 1..Len(main), NEW i, i.ref \in 1..Len(main),
         Stored(i, main), NEW used \in BOOLEAN
  PROVE  Truth(D!ConfigVerdict(head, tags, i, used), head, tags, i)
<1> DEFINE verdict == D!ConfigVerdict(head, tags, i, used)
<1>1. i.ref # 0 /\ i.source = Contents(main[i.ref])
  BY DEF Stored, DriftHistory
<1>2. i.source # D!None
  BY <1>1 DEF Contents, D!LocalHash, D!Hash, D!None
<1>3. i # D!NoIdentity
  BY <1>1 DEF D!NoIdentity, D!NoRef
<1>4. CASE i.runtime = D!Bust
  <2>1. verdict = "cache_bust"
    BY <1>3, <1>4 DEF D!ConfigVerdict
  <2> QED
    BY <1>4, <2>1 DEF Truth
<1>5. CASE i.runtime # D!Bust
  <2>1. verdict = IF D!Missing(head, tags, used) # {} THEN "structural"
                  ELSE IF D!Provenance(head, i, used) /\ i.source = D!HashAt(head, tags, used) THEN "in_sync" ELSE "DRIFT"
    BY <1>1, <1>2, <1>3, <1>5 DEF D!ConfigVerdict, D!NoRef
  <2>2. ASSUME verdict = "in_sync"
        PROVE  \A f \in D!Files : main[i.ref].file[f] = IF main[head].file[f] = D!Absent THEN D!Absent ELSE main[tags].file[f]
    <3>1. Contents(main[i.ref]) = D!HashAt(head, tags, used)
      BY <1>1, <2>1, <2>2
    <3> QED
      BY <3>1, InSyncIsTrue
  <2>3. ASSUME SameInputs(tags, head), SameInputs(i.ref, head)
        PROVE  verdict = IF main[i.ref].file = main[tags].file THEN "in_sync" ELSE "DRIFT"
    <3>1. D!Missing(head, tags, used) = {} /\ D!Missing(head, i.ref, used) = {}
      BY <2>3, NothingMissing DEF SameInputs
    <3>2. /\ D!HashAt(head, i.ref, used) = Contents(main[i.ref])
          /\ Contents(main[i.ref]) = D!HashAt(head, tags, used) <=> main[i.ref].file = main[tags].file
      BY <2>3, SameInputsTell
    <3> QED
      BY <1>1, <2>1, <3>1, <3>2 DEF D!Provenance
  <2>4. verdict # "cache_bust"
    BY <2>1
  <2> QED
    BY <1>5, <2>2, <2>3, <2>4 DEF Truth
<1> QED
  BY <1>4, <1>5

LEMMA DriftReport == ASSUME DriftInv, D!Report PROVE DriftInv'
<1>1. PICK config \in D!Verdicts, id \in D!IdVerdicts :
        /\ drift' = [of |-> identity, config |-> config]
        /\ daily' = [daily EXCEPT !.pc = IF daily.pc = "looking" THEN IF D!Blocks(config, id) THEN "red" ELSE "green"
                                         ELSE IF D!Confirmed(config, id) THEN "paged" ELSE "quiet"]
  BY DEF D!Report
<1>2. DriftHistory /\ DriftTypes /\ DriftHistory' /\ Len(main) \in Nat /\ daily.head # 0
  BY DEF DriftInv, D!Report, DriftHistory, DriftTypes
<1>3. daily'.head = daily.head /\ daily'.tag = daily.tag /\ daily'.pc \in {"red", "green", "paged", "quiet"}
  BY <1>1, <1>2 DEF DriftTypes
<1>4. DriftTypes'
  BY <1>2, <1>3 DEF D!Report, DriftTypes
<1>5. ~tampered' => Stored(identity', main')
  BY DEF D!Report, DriftInv
<1>6. DriftIsTheTruth'
  <2>1. SUFFICES ASSUME ~tampered, identity.ref # 0, config \notin {"error", "failed"}
                 PROVE  Truth(config, daily.head, daily.tag, identity)
    BY <1>1, <1>3 DEF D!Report, DriftIsTheTruth, D!DriftIsTheTruth, D!Judged, D!SameInputs, D!NoRef, SameInputs, Truth
  <2>2. daily.tag # 0 /\ config \in D!Computed
    BY <1>1, <2>1 DEF D!Verdicts
  <2>3. PICK used \in BOOLEAN : config = D!ConfigVerdict(daily.head, daily.tag, identity, used)
    BY <2>2 DEF D!Computed
  <2>4. daily.head \in 1..Len(main) /\ daily.tag \in 1..Len(main) /\ identity.ref \in 1..Len(main)
    BY <1>2, <2>1, <2>2 DEF DriftTypes
  <2>5. Stored(identity, main)
    BY <2>1 DEF DriftInv
  <2> QED
    BY <1>2, <2>3, <2>4, <2>5, VerdictIsTrue
<1> QED
  BY <1>2, <1>4, <1>5, <1>6 DEF DriftInv

LEMMA DriftCheckout == ASSUME DriftInv, D!Checkout PROVE DriftInv'
<1>1. DriftHistory' /\ Len(main) \in Nat /\ Len(main) # 0
  BY DEF DriftInv, D!Checkout, DriftHistory
<1>2. daily' = [pc |-> "looking", head |-> Len(main), tag |-> tag]
  BY DEF D!Checkout
<1>3. DriftTypes'
  BY <1>1, <1>2 DEF DriftInv, D!Checkout, DriftTypes
<1>4. DriftIsTheTruth'
  BY NothingReported DEF D!Checkout
<1> QED
  BY <1>1, <1>3, <1>4 DEF DriftInv, D!Checkout

LEMMA DriftUnchanged == ASSUME DriftInv, UNCHANGED ofDrift PROVE DriftInv'
  BY DEF DriftInv, ofDrift, DriftHistory, DriftTypes, Stored, DriftIsTheTruth, D!DriftIsTheTruth, D!Judged, D!SameInputs

LEMMA DriftNext == ASSUME DriftInv, [Next]_vars PROVE DriftInv'
<1>1. CASE D!Next
  BY <1>1, DriftMerge, DriftSync, DriftOthers, DriftReport, DriftCheckout DEF D!Next
<1> QED
  BY <1>1, DriftStep, DriftUnchanged

LEMMA DriftAlways == Spec => []DriftInv
<1>1. Init => DriftInv
  BY InitParts, DriftInit
<1> QED
  BY <1>1, DriftNext, PTL DEF Spec

LEMMA DriftSafe == DriftInv => D!TypeOK /\ DriftIsTheTruth
  BY DEF DriftInv, DriftHistory, DriftTypes, D!TypeOK

(* The comparison of the configuration tells the truth (scan of            *)
(* dokploy_config_drift.py) as far as its checkout goes: in sync means that *)
(* what was synced are the files that the checkout has, with the contents  *)
(* of the release; when the release, the synced commit and the checkout    *)
(* have the same files and env the verdict says whether a content differs; *)
(* and what a promotion has taken over is not compared, for any trees,     *)
(* merges, tags, syncs and promotions.                                     *)
THEOREM DriftCorrect == Spec => []DriftIsTheTruth
  BY DriftAlways, DriftSafe, PTL

-----------------------------------------------------------------------------
(* The self-refresh audit.                                                 *)
LEMMA AuditStep == [Next]_vars => A!Next \/ UNCHANGED ofAudit
  BY DEF Next, vars, Previews, Sidecar, Bridge, Rules, Audit, Drift, Watch

(* What the constants of the audit are.                                    *)
LEMMA AuditConstants ==
  /\ \A f \in A!Audited : f.auth \in {"token", "approle"} /\ f.exempt \in BOOLEAN
  /\ IsFiniteSet(A!Audited) /\ Cardinality(A!Audited) \in Nat
  /\ MaxRestartCount \in Nat /\ Window \in Nat /\ MaxTrouble \in Nat
  /\ Losses \subseteq SUBSET A!Calls
<1>1. A!AuditAssumption
  BY ChecksAssumption DEF ChecksAssumption
<1>2. A!Audited \in SUBSET Facets
  BY DEF A!Audited
<1>3. IsFiniteSet(A!Audited)
  <2>1. IsFiniteSet(Facets)
    BY <1>1 DEF A!AuditAssumption, A!IsFiniteSet, IsFiniteSet
  <2> QED
    BY <1>2, <2>1, FS_Subset
<1> QED
  BY <1>1, <1>2, <1>3, FS_CardinalityType DEF A!AuditAssumption, A!Auths

(* The three ages: within the window, old, never.                          *)
LEMMA Ages == /\ Window \in Nat /\ A!Old = Window + 1 /\ A!Never = Window + 2
              /\ A!Old \in Nat /\ A!Never \in Nat
              /\ \A n \in 0..A!Never : A!Aged(n) \in 0..A!Never /\ A!Aged(n) >= n
              /\ \A n \in 0..A!Old : A!Aged(n) \in 0..A!Old
              /\ \A n \in 0..A!Never : A!Aged(n) <= Window => A!Aged(n) = n + 1
  BY AuditConstants DEF A!Old, A!Never, A!Aged

AllFaults ==
  {"none", "creds_missing", "file_missing", "file_unreadable", "file_empty", "no_value",
   "agent_missing", "agent_exited", "agent_unhealthy", "app_missing", "app_exited", "app_unhealthy",
   "token_malformed", "token_invalid", "token_fixed", "token_low", "app_unmounted"}

(* The restarts of the boxes, and how long ago each started.               *)
Counts == [A!Boxes -> 0..MaxRestartCount + 1]
Starts == [A!Boxes -> 0..A!Old]

Worlds == [fault : AllFaults, error : 0..A!Never, restarts : Counts, started : Starts]

(* What is noted of a service.                                             *)
Observations ==
  [of : A!Audited, lost : SUBSET A!Calls, fault : AllFaults, faults : SUBSET AllFaults, errors : BOOLEAN,
   restarts : Counts, started : Starts]

(* What was wrong with a service lately is known to its calm.              *)
Lately(w, n) ==
  /\ w.fault # "none" => n = 0
  /\ w.error <= Window => n <= w.error
  /\ \A b \in A!Boxes : w.started[b] <= Window => n <= w.started[b]

(* What was noted is a fault of now or of the window.                      *)
Recent(o) == o.fault # "none" \/ o.errors \/ \E b \in A!Boxes : o.started[b] <= Window

(* A note has of the fault of its service what the calls tell that were    *)
(* answered, and what follows from it and from those that were not.        *)
Noted(o) ==
  /\ o \in Observations
  /\ o.fault \in A!FaultsOf(o.of) \cup {"none"}
  /\ o.lost \subseteq A!CallsOf(o.of)
  /\ o.faults = A!Told(o.fault, o.lost) \cup A!Consequences(o.fault, o.lost)

AuditWorld ==
  /\ world \in [A!Audited -> Worlds] /\ calm \in [A!Audited -> 0..A!Never]
  /\ \A f \in A!Audited : world[f].fault \in A!FaultsOf(f) \cup {"none"} /\ Lately(world[f], calm[f])
  /\ troubles \in 0..MaxTrouble

(* A service is noted at most once, and trouble that was noted is no older *)
(* than the window and the time since.                                     *)
AuditSeen ==
  /\ ticks \in 0..1
  /\ \A o \in collected : Noted(o) /\ (o.lost = {} /\ Recent(o) => calm[o.of] <= Window + ticks)
  /\ \A o, p \in collected : o.of = p.of => o = p

(* The inductive invariant of the audit.                                   *)
AuditInv == AuditWorld /\ AuditSeen /\ report.status \in {"none", "pass", "fail"} /\ AuditTellsThePresent

(* Where there is no report nothing is said.                               *)
LEMMA NothingJudged == report' = A!NoReport => report'.status \in {"none", "pass", "fail"} /\ AuditTellsThePresent'
  BY DEF A!NoReport, AuditTellsThePresent, A!AuditTellsThePresent

(* A service in the beginning.                                             *)
LEMMA NewWorld ==
  [fault |-> "none", error |-> A!Never, restarts |-> [b \in A!Boxes |-> 0], started |-> [b \in A!Boxes |-> A!Old]] \in Worlds
<1>1. [b \in A!Boxes |-> 0] \in Counts /\ [b \in A!Boxes |-> A!Old] \in Starts
  BY Ages, AuditConstants DEF Counts, Starts
<1>2. "none" \in AllFaults /\ A!Never \in 0..A!Never
  BY Ages DEF AllFaults
<1> HIDE DEF Counts, Starts, AllFaults
<1> QED
  BY <1>1, <1>2 DEF Worlds

LEMMA AuditInit == A!Init => AuditInv
<1> SUFFICES ASSUME A!Init PROVE AuditInv
  OBVIOUS
<1>1. \A f \in A!Audited :
        /\ world[f] = [fault |-> "none", error |-> A!Never, restarts |-> [b \in A!Boxes |-> 0],
                       started |-> [b \in A!Boxes |-> A!Old]]
        /\ calm[f] = A!Never
  BY DEF A!Init
<1>2. world \in [A!Audited -> Worlds] /\ calm \in [A!Audited -> 0..A!Never]
  BY NewWorld, Ages DEF A!Init
<1>3. \A f \in A!Audited : world[f].fault \in A!FaultsOf(f) \cup {"none"} /\ Lately(world[f], calm[f])
  BY <1>1, Ages DEF Lately
<1>4. AuditWorld
  BY <1>2, <1>3, AuditConstants DEF AuditWorld, A!Init
<1>5. AuditSeen
  BY DEF AuditSeen, A!Init
<1>6. report.status \in {"none", "pass", "fail"} /\ AuditTellsThePresent
  BY DEF A!Init, A!NoReport, AuditTellsThePresent, A!AuditTellsThePresent
<1> QED
  BY <1>4, <1>5, <1>6 DEF AuditInv

(* What happens to a service: its world is another one, and its calm is 0, *)
(* or as it was.                                                           *)
LEMMA AuditTrouble ==
  ASSUME AuditInv, NEW f \in A!Audited, NEW w \in Worlds, NEW n \in 0..calm[f], world' = [world EXCEPT ![f] = w],
         calm' = [calm EXCEPT ![f] = n], w.fault \in A!FaultsOf(f) \cup {"none"}, Lately(w, n),
         troubles' \in 0..MaxTrouble, A!Outside
  PROVE  AuditInv'
<1>1. /\ world \in [A!Audited -> Worlds] /\ calm \in [A!Audited -> 0..A!Never] /\ A!Never \in Nat
      /\ UNCHANGED <<collected, ticks>> /\ report' = A!NoReport
  BY Ages DEF AuditInv, AuditWorld, A!Outside
<1>2. n \in 0..A!Never /\ n <= calm[f] /\ calm[f] \in Nat
  BY <1>1
<1>3. /\ world' \in [A!Audited -> Worlds] /\ calm' \in [A!Audited -> 0..A!Never]
      /\ world'[f] = w /\ calm'[f] = n
      /\ \A g \in A!Audited : g # f => world'[g] = world[g] /\ calm'[g] = calm[g]
  BY <1>1, <1>2
<1>4. AuditWorld'
  BY <1>3 DEF AuditInv, AuditWorld
<1>5. ASSUME NEW o \in collected, o.lost = {}, Recent(o) PROVE calm'[o.of] <= Window + ticks
  <2>1. o.of \in A!Audited /\ calm[o.of] <= Window + ticks /\ calm[o.of] \in Nat /\ ticks \in Nat /\ Window \in Nat
    BY <1>1, <1>5, Ages DEF AuditInv, AuditSeen, Noted, Observations
  <2> QED
    BY <1>2, <1>3, <2>1
<1>6. AuditSeen'
  BY <1>1, <1>5 DEF AuditInv, AuditSeen
<1> QED
  BY <1>1, <1>4, <1>6, NothingJudged DEF AuditInv

LEMMA Broken == ASSUME NEW f, NEW fault \in A!FaultsOf(f) PROVE fault \in AllFaults
  BY DEF A!FaultsOf, AllFaults

LEMMA AuditBreak == ASSUME AuditInv, NEW f \in A!Audited, A!Break(f) PROVE AuditInv'
<1>1. PICK fault \in A!FaultsOf(f) : world' = [world EXCEPT ![f].fault = fault]
  BY DEF A!Break
<1> DEFINE w == [world[f] EXCEPT !.fault = fault]
<1>2. world[f] \in Worlds /\ calm[f] \in Nat /\ Lately(world[f], calm[f]) /\ fault \in AllFaults
  BY Ages, Broken DEF AuditInv, AuditWorld
<1>3. w \in Worlds /\ w.fault = fault /\ w.error = world[f].error /\ w.started = world[f].started
  BY <1>2 DEF Worlds
<1>4. world' = [world EXCEPT ![f] = w]
  BY <1>1
<1>5. Lately(w, 0)
  <2>1. w.error \in Nat /\ \A b \in A!Boxes : w.started[b] \in Nat
    BY <1>3, Ages DEF Worlds, Starts
  <2> QED
    BY <2>1 DEF Lately
<1> HIDE DEF w
<1>6. /\ calm' = [calm EXCEPT ![f] = 0] /\ 0 \in 0..calm[f] /\ troubles' \in 0..MaxTrouble /\ A!Outside
  BY <1>2, AuditConstants DEF A!Break, AuditInv, AuditWorld
<1> QED
  BY <1>3, <1>4, <1>5, <1>6, AuditTrouble

LEMMA AuditMend == ASSUME AuditInv, NEW f \in A!Audited, A!Mend(f) PROVE AuditInv'
<1> DEFINE w == [world[f] EXCEPT !.fault = "none"]
<1>1. world[f] \in Worlds /\ calm[f] \in Nat /\ Lately(world[f], calm[f]) /\ calm \in [A!Audited -> 0..A!Never]
  BY Ages DEF AuditInv, AuditWorld
<1>2. w \in Worlds /\ w.fault = "none" /\ w.error = world[f].error /\ w.started = world[f].started
  BY <1>1 DEF Worlds, AllFaults
<1>3. world' = [world EXCEPT ![f] = w]
  BY DEF A!Mend
<1>4. Lately(w, calm[f])
  BY <1>1, <1>2 DEF Lately
<1> HIDE DEF w
<1>5. calm' = [calm EXCEPT ![f] = calm[f]] /\ calm[f] \in 0..calm[f] /\ troubles' \in 0..MaxTrouble /\ A!Outside
  BY <1>1 DEF A!Mend, AuditInv, AuditWorld
<1> QED
  BY <1>2, <1>3, <1>4, <1>5, AuditTrouble

LEMMA AuditRestart == ASSUME AuditInv, NEW f \in A!Audited, A!Restart(f) PROVE AuditInv'
<1>1. PICK b \in A!Boxes :
        world' = [world EXCEPT ![f].restarts[b] = IF @ > MaxRestartCount THEN @ ELSE @ + 1, ![f].started[b] = 0]
  BY DEF A!Restart
<1>2. world[f] \in Worlds /\ calm[f] \in Nat /\ Lately(world[f], calm[f]) /\ world \in [A!Audited -> Worlds]
      /\ world[f].fault \in A!FaultsOf(f) \cup {"none"}
  BY Ages DEF AuditInv, AuditWorld
<1>3. world[f].restarts \in Counts /\ world[f].started \in Starts
  BY <1>2 DEF Worlds
<1>4. PICK counts \in Counts : counts = [world[f].restarts EXCEPT ![b] = IF @ > MaxRestartCount THEN @ ELSE @ + 1]
  <2>1. world[f].restarts[b] \in 0..MaxRestartCount + 1
    BY <1>3 DEF Counts
  <2>2. (IF world[f].restarts[b] > MaxRestartCount THEN world[f].restarts[b] ELSE world[f].restarts[b] + 1)
          \in 0..MaxRestartCount + 1
    BY <2>1, AuditConstants
  <2> QED
    BY <1>3, <2>2 DEF Counts
<1>5. PICK starts \in Starts : starts = [world[f].started EXCEPT ![b] = 0]
  <2>1. 0 \in 0..A!Old
    BY Ages
  <2>2. [world[f].started EXCEPT ![b] = 0] \in [A!Boxes -> 0..A!Old]
    BY <1>3, <2>1 DEF Starts
  <2> QED
    BY <2>2 DEF Starts
<1>6. PICK w : w = [world[f] EXCEPT !.restarts = counts, !.started = starts]
  OBVIOUS
<1>7. w \in Worlds /\ w.fault = world[f].fault /\ w.error = world[f].error /\ w.started = starts
  BY <1>2, <1>6 DEF Worlds
<1>8. world' = [world EXCEPT ![f] = w]
  BY <1>1, <1>4, <1>5, <1>6
<1>9. Lately(w, 0)
  <2>1. w.error \in Nat /\ \A c \in A!Boxes : w.started[c] \in Nat
    BY <1>7, Ages DEF Worlds, Starts
  <2> QED
    BY <2>1 DEF Lately
<1>10. /\ calm' = [calm EXCEPT ![f] = 0] /\ 0 \in 0..calm[f] /\ troubles' \in 0..MaxTrouble /\ A!Outside
  BY <1>2, AuditConstants DEF A!Restart, AuditInv, AuditWorld
<1> QED
  BY <1>2, <1>7, <1>8, <1>9, <1>10, AuditTrouble

LEMMA AuditLogError == ASSUME AuditInv, NEW f \in A!Audited, A!LogError(f) PROVE AuditInv'
<1> DEFINE w == [world[f] EXCEPT !.error = 0]
<1>1. world[f] \in Worlds /\ calm[f] \in Nat /\ world[f].fault \in A!FaultsOf(f) \cup {"none"}
  BY Ages DEF AuditInv, AuditWorld
<1>2. w \in Worlds /\ w.fault = world[f].fault /\ w.error = 0 /\ w.started = world[f].started
  BY <1>1, Ages DEF Worlds
<1>3. world' = [world EXCEPT ![f] = w]
  BY DEF A!LogError
<1>4. Lately(w, 0)
  <2>1. \A b \in A!Boxes : w.started[b] \in Nat
    BY <1>2, Ages DEF Worlds, Starts
  <2> QED
    BY <1>2, <2>1 DEF Lately
<1> HIDE DEF w
<1>5. /\ calm' = [calm EXCEPT ![f] = 0] /\ 0 \in 0..calm[f] /\ troubles' \in 0..MaxTrouble /\ A!Outside
  BY <1>1, AuditConstants DEF A!LogError, AuditInv, AuditWorld
<1> QED
  BY <1>1, <1>2, <1>3, <1>4, <1>5, AuditTrouble

(* A step of time: what is known of a service ages, and its calm at most   *)
(* as much.                                                                *)
LEMMA CalmAges ==
  ASSUME AuditWorld, NEW f \in A!Audited,
         calm'[f] = IF world[f].fault # "none" THEN 0 ELSE IF calm[f] < A!Never THEN calm[f] + 1 ELSE A!Never
  PROVE  calm'[f] \in 0..A!Never /\ calm'[f] <= calm[f] + 1 /\ (world[f].fault # "none" => calm'[f] = 0)
<1>1. calm[f] \in 0..A!Never
  BY DEF AuditWorld
<1> QED
  BY <1>1, Ages

(* The world of a service ages.                                            *)
LEMMA OlderWorld ==
  ASSUME NEW w \in Worlds, NEW n \in Nat, NEW m \in Nat, Lately(w, n), m <= n + 1, w.fault # "none" => m = 0
  PROVE  A!Older(w) \in Worlds /\ A!Older(w).fault = w.fault /\ Lately(A!Older(w), m)
<1>1. w.error \in 0..A!Never /\ w.started \in [A!Boxes -> 0..A!Old]
  BY DEF Worlds, Starts
<1>2. PICK starts : starts = [b \in A!Boxes |-> A!Aged(w.started[b])]
  OBVIOUS
<1>3. starts \in Starts
  BY <1>1, <1>2, Ages DEF Starts
<1>4. A!Aged(w.error) \in 0..A!Never
  BY <1>1, Ages
<1>5. A!Older(w) = [w EXCEPT !.error = A!Aged(w.error), !.started = starts]
  BY <1>2 DEF A!Older
<1>6. /\ A!Older(w) \in Worlds /\ A!Older(w).fault = w.fault
      /\ A!Older(w).error = A!Aged(w.error) /\ A!Older(w).started = starts
  BY <1>3, <1>4, <1>5 DEF Worlds
<1>7. A!Aged(w.error) <= Window => m <= A!Aged(w.error)
  <2>1. A!Aged(w.error) <= Window => w.error <= Window /\ A!Aged(w.error) = w.error + 1
    BY <1>1, Ages
  <2> QED
    BY <1>1, <2>1 DEF Lately
<1>8. ASSUME NEW b \in A!Boxes, starts[b] <= Window PROVE m <= starts[b]
  <2>1. w.started[b] \in 0..A!Old /\ w.started[b] \in 0..A!Never
    BY <1>1, Ages
  <2>2. w.started[b] <= Window /\ starts[b] = w.started[b] + 1
    BY <1>2, <1>8, <2>1, Ages
  <2> QED
    BY <2>1, <2>2 DEF Lately
<1> QED
  BY <1>6, <1>7, <1>8 DEF Lately

(* A note, read a step of time later.                                      *)
OlderNote(o) == [o EXCEPT !.started = [b \in A!Boxes |-> A!Aged(o.started[b])]]

(* An older note says no more of the window than it did.                   *)
LEMMA NoteAges ==
  ASSUME NEW o, Noted(o)
  PROVE  Noted(OlderNote(o)) /\ OlderNote(o).of = o.of /\ OlderNote(o).lost = o.lost
         /\ (Recent(OlderNote(o)) => Recent(o))
<1>1. o \in Observations /\ o.started \in [A!Boxes -> 0..A!Old]
  BY DEF Noted, Observations, Starts
<1>2. PICK starts : starts = [b \in A!Boxes |-> A!Aged(o.started[b])]
  OBVIOUS
<1>3. starts \in Starts
  BY <1>1, <1>2, Ages DEF Starts
<1>4. /\ OlderNote(o) \in Observations /\ OlderNote(o).of = o.of /\ OlderNote(o).lost = o.lost
      /\ OlderNote(o).fault = o.fault /\ OlderNote(o).faults = o.faults /\ OlderNote(o).errors = o.errors
      /\ OlderNote(o).started = starts
  <2>1. OlderNote(o) = [o EXCEPT !.started = starts]
    BY <1>2 DEF OlderNote
  <2> QED
    BY <1>1, <1>3, <2>1 DEF Observations
<1>5. ASSUME NEW b \in A!Boxes, starts[b] <= Window PROVE o.started[b] <= Window
  BY <1>1, <1>2, <1>5, Ages
<1> QED
  BY <1>4, <1>5 DEF Noted, Recent

LEMMA AuditTick == ASSUME AuditInv, A!Tick PROVE AuditInv'
<1>1. AuditWorld /\ AuditSeen /\ A!Never \in Nat /\ Window \in Nat
  BY Ages DEF AuditInv
<1>2. ASSUME NEW f \in A!Audited
      PROVE  /\ world'[f] = A!Older(world[f]) /\ world[f] \in Worlds /\ calm[f] \in Nat
             /\ calm'[f] \in 0..A!Never /\ calm'[f] <= calm[f] + 1 /\ (world[f].fault # "none" => calm'[f] = 0)
  BY <1>1, CalmAges DEF A!Tick, AuditWorld
<1>3. ASSUME NEW f \in A!Audited
      PROVE world'[f] \in Worlds /\ world'[f].fault \in A!FaultsOf(f) \cup {"none"} /\ Lately(world'[f], calm'[f])
  <2>1. Lately(world[f], calm[f]) /\ world[f].fault \in A!FaultsOf(f) \cup {"none"}
    BY <1>1 DEF AuditWorld
  <2> QED
    BY <1>2, <2>1, OlderWorld
<1>4. AuditWorld'
  <2>1. world' = [f \in A!Audited |-> world'[f]] /\ calm' = [f \in A!Audited |-> calm'[f]]
    BY DEF A!Tick
  <2>2. world' \in [A!Audited -> Worlds] /\ calm' \in [A!Audited -> 0..A!Never]
    BY <1>2, <1>3, <2>1
  <2> QED
    BY <1>1, <1>3, <2>2 DEF A!Tick, AuditWorld
<1>5. collected' = {OlderNote(o) : o \in collected} /\ ticks' \in 0..1
      /\ (collected # {} => ticks = 0 /\ ticks' = 1)
  BY DEF A!Tick, OlderNote
<1>6. ASSUME NEW o \in collected
      PROVE  /\ Noted(OlderNote(o)) /\ OlderNote(o).of = o.of
             /\ OlderNote(o).lost = {} /\ Recent(OlderNote(o)) => calm'[o.of] <= Window + ticks'
  <2>1. Noted(o) /\ (o.lost = {} /\ Recent(o) => calm[o.of] <= Window + ticks) /\ o.of \in A!Audited
    BY <1>1 DEF AuditSeen, Noted, Observations
  <2>2. ticks = 0 /\ ticks' = 1
    BY <1>5
  <2> QED
    BY <1>1, <1>2, <2>1, <2>2, NoteAges
<1>7. AuditSeen'
  <2>1. \A o \in collected' : Noted(o) /\ (o.lost = {} /\ Recent(o) => calm'[o.of] <= Window + ticks')
    BY <1>5, <1>6
  <2>2. ASSUME NEW p \in collected', NEW q \in collected', p.of = q.of PROVE p = q
    <3>1. PICK o \in collected, r \in collected : p = OlderNote(o) /\ q = OlderNote(r)
      BY <1>5
    <3>2. o = r
      BY <1>1, <1>6, <2>2, <3>1 DEF AuditSeen
    <3> QED
      BY <3>1, <3>2
  <2> QED
    BY <1>5, <2>1, <2>2 DEF AuditSeen
<1> QED
  BY <1>4, <1>7, NothingJudged DEF AuditInv, A!Tick

LEMMA AuditCollect == ASSUME AuditInv, NEW f \in A!Audited, A!Collect(f) PROVE AuditInv'
<1>1. AuditWorld /\ AuditSeen /\ A!Never \in Nat /\ Window \in Nat
  BY Ages DEF AuditInv
<1>2. PICK loss \in Losses, excerpt \in {"whole", "cut", "refused"} :
        collected' = collected \cup {A!Observation(f, loss \cap A!CallsOf(f), excerpt)}
  BY DEF A!Collect
<1>3. PICK gone, o : gone = loss \cap A!CallsOf(f) /\ o = A!Observation(f, gone, excerpt)
  OBVIOUS
<1>4. /\ world[f] \in Worlds /\ world[f].fault \in A!FaultsOf(f) \cup {"none"}
      /\ Lately(world[f], calm[f]) /\ calm[f] \in Nat /\ ticks \in 0..1
  BY <1>1 DEF AuditWorld, AuditSeen
<1>5. /\ o.of = f /\ o.lost = gone /\ o.fault = world[f].fault
      /\ o.faults = A!Told(o.fault, o.lost) \cup A!Consequences(o.fault, o.lost)
      /\ o.lost = {} /\ o.errors => world[f].error <= Window
      /\ o.started = world[f].started
  BY <1>3 DEF A!Observation, A!Lines
<1>6. o \in Observations
  <2>1. world[f].fault \in AllFaults /\ world[f].restarts \in Counts /\ world[f].started \in Starts
    BY <1>4 DEF Worlds
  <2>2. A!Consequences(world[f].fault, gone) \in SUBSET AllFaults
    BY DEF A!Consequences, AllFaults
  <2>3. PICK errors \in BOOLEAN : errors = A!Lines(world[f].error, gone, excerpt)
    BY DEF A!Lines
  <2>4. o = [of |-> f, lost |-> gone, fault |-> world[f].fault,
             faults |-> A!Told(world[f].fault, gone) \cup A!Consequences(world[f].fault, gone), errors |-> errors,
             restarts |-> world[f].restarts, started |-> world[f].started]
    BY <1>3, <2>3 DEF A!Observation
  <2>5. gone \in SUBSET A!Calls
    BY <1>3, AuditConstants
  <2>6. A!Told(world[f].fault, gone) \in SUBSET AllFaults
    BY <2>1 DEF A!Told
  <2> QED
    BY <2>1, <2>2, <2>4, <2>5, <2>6 DEF Observations
<1>7. Noted(o)
  BY <1>3, <1>4, <1>5, <1>6 DEF Noted
<1>8. ASSUME o.lost = {}, Recent(o) PROVE calm[f] <= Window + ticks
  <2>1. CASE o.fault # "none"
    BY <1>1, <1>4, <1>5, <2>1 DEF Lately
  <2>2. CASE o.errors
    <3>1. world[f].error <= Window /\ world[f].error \in Nat
      BY <1>1, <1>4, <1>5, <1>8, <2>2 DEF Worlds
    <3> QED
      BY <1>1, <1>4, <3>1 DEF Lately
  <2>3. ASSUME NEW b \in A!Boxes, o.started[b] <= Window PROVE calm[f] <= Window + ticks
    <3>1. world[f].started[b] <= Window /\ world[f].started[b] \in Nat
      BY <1>4, <1>5, <2>3, Ages DEF Worlds, Starts
    <3> QED
      BY <1>1, <1>4, <3>1 DEF Lately
  <2> QED
    BY <1>8, <2>1, <2>2, <2>3 DEF Recent
<1>9. \A p \in collected : p.of # f
  BY DEF A!Collect
<1>10. AuditSeen'
  <2>1. UNCHANGED <<calm, ticks>>
    BY DEF A!Collect
  <2> QED
    BY <1>1, <1>2, <1>3, <1>5, <1>7, <1>8, <1>9, <2>1 DEF AuditSeen
<1>11. AuditWorld'
  BY <1>1 DEF A!Collect, AuditWorld
<1> QED
  BY <1>10, <1>11, NothingJudged DEF AuditInv, A!Collect

(* The four reasons for which a service fails.                             *)
LEMMA FailsWhen ==
  ASSUME NEW o, NEW stale
  PROVE  A!Fails(o, stale) <=> A!TokenFault(o) \/ A!FileFault(o) \/ A!LogFault(o) \/ \E b \in A!Boxes : A!BoxFault(o, b)
<1>1. ASSUME A!Fails(o, stale)
      PROVE  A!TokenFault(o) \/ A!FileFault(o) \/ A!LogFault(o) \/ \E b \in A!Boxes : A!BoxFault(o, b)
  <2>1. PICK result \in A!Results(o, stale) : result[2] \notin {"pass", "info"}
    BY <1>1 DEF A!Fails
  <2>2. CASE result \in {<<"token", IF A!TokenFault(o) THEN "fail" ELSE "pass">>,
                         <<"rendered-env", IF A!FileFault(o) THEN "fail" ELSE IF A!FileInfo(o, stale) THEN "info" ELSE "pass">>,
                         <<"logs", IF A!LogFault(o) THEN "fail" ELSE "pass">>}
    BY <2>1, <2>2
  <2>3. CASE \E field \in A!FieldInfos(o) : result = <<field, "info">>
    BY <2>1, <2>3
  <2>4. CASE \E b \in A!Boxes : result = <<b, IF A!BoxFault(o, b) THEN "fail" ELSE "pass">>
    BY <2>1, <2>4
  <2> QED
    BY <2>1, <2>2, <2>3, <2>4 DEF A!Results
<1>2. ASSUME A!TokenFault(o) PROVE A!Fails(o, stale)
  <2>1. <<"token", "fail">> \in A!Results(o, stale)
    BY <1>2 DEF A!Results
  <2> QED
    BY <2>1 DEF A!Fails
<1>3. ASSUME A!FileFault(o) PROVE A!Fails(o, stale)
  <2>1. <<"rendered-env", "fail">> \in A!Results(o, stale)
    BY <1>3 DEF A!Results
  <2> QED
    BY <2>1 DEF A!Fails
<1>4. ASSUME A!LogFault(o) PROVE A!Fails(o, stale)
  <2>1. <<"logs", "fail">> \in A!Results(o, stale)
    BY <1>4 DEF A!Results
  <2> QED
    BY <2>1 DEF A!Fails
<1>5. ASSUME NEW b \in A!Boxes, A!BoxFault(o, b) PROVE A!Fails(o, stale)
  <2>1. <<b, "fail">> \in A!Results(o, stale)
    BY <1>5 DEF A!Results
  <2> QED
    BY <2>1 DEF A!Fails
<1> QED
  BY <1>1, <1>2, <1>3, <1>4, <1>5

(* What fails a service whose calls were answered was wrong lately.        *)
LEMMA FailedLately == ASSUME NEW o, NEW stale, Noted(o), o.lost = {}, A!Fails(o, stale) PROVE Recent(o)
<1>1. CASE o.fault # "none"
  BY <1>1 DEF Recent
<1>2. CASE o.fault = "none"
  <2>1. o.faults = {"none"}
    BY <1>2 DEF Noted, A!Consequences, A!Told
  <2>2. ~A!TokenFault(o) /\ ~A!FileFault(o)
    BY <2>1 DEF A!TokenFault, A!FileFault
  <2>3. CASE A!LogFault(o)
    BY <2>3 DEF A!LogFault, Recent
  <2>4. ASSUME NEW b \in A!Boxes, A!BoxFault(o, b) PROVE Recent(o)
    BY <2>1, <2>4 DEF A!BoxFault, A!RecentlyFlapping, Recent
  <2> QED
    BY <2>2, <2>3, <2>4, FailsWhen
<1> QED
  BY <1>1, <1>2

(* A call that was not answered, other than that for the logs, fails.      *)
LEMMA LostFails == ASSUME NEW o, NEW stale, Noted(o), o.lost \ {"logs"} # {} PROVE A!Fails(o, stale)
<1>1. "app" \in A!Boxes /\ "agent" \in A!Boxes
  BY DEF A!Boxes
<1>2. CASE "file" \in o.lost
  <2>1. "file_missing" \in o.faults
    BY <1>2 DEF Noted, A!Consequences
  <2> QED
    BY <2>1, FailsWhen DEF A!FileFault
<1>3. CASE "agent" \in o.lost
  <2>1. "agent_missing" \in o.faults
    BY <1>3 DEF Noted, A!Consequences
  <2>2. A!BoxFault(o, "agent")
    BY <2>1 DEF A!BoxFault
  <2> QED
    BY <1>1, <2>2, FailsWhen
<1>4. CASE "app" \in o.lost
  <2>1. "app_missing" \in o.faults
    BY <1>4 DEF Noted, A!Consequences
  <2>2. A!BoxFault(o, "app")
    BY <2>1 DEF A!BoxFault
  <2> QED
    BY <1>1, <2>2, FailsWhen
<1>5. CASE "token" \in o.lost
  <2>1. "token_invalid" \in o.faults /\ o.of.auth = "token"
    BY <1>5 DEF Noted, A!Consequences, A!CallsOf
  <2> QED
    BY <2>1, FailsWhen DEF A!TokenFault
<1> QED
  BY <1>2, <1>3, <1>4, <1>5 DEF Noted, A!CallsOf, A!Calls

(* What is wrong with a service when it is looked at fails it.             *)
LEMMA WrongFails ==
  ASSUME NEW o, NEW stale, Noted(o), o.lost \ {"logs"} # {} \/ o.fault # "none"
  PROVE  A!Fails(o, stale)
<1>1. CASE o.lost \ {"logs"} # {}
  BY <1>1, LostFails
<1>2. CASE o.lost \ {"logs"} = {} /\ o.fault # "none"
  <2>1. o.fault \in A!FaultsOf(o.of) /\ o.fault \in o.faults /\ "app" \in A!Boxes /\ "agent" \in A!Boxes
    <3>1. \A call \in o.lost : A!Tells(call) = {}
      BY <1>2 DEF A!Tells
    <3> QED
      BY <1>2, <3>1 DEF Noted, A!Told, A!Boxes
  <2>2. CASE o.fault \in {"creds_missing"}
    BY <2>1, <2>2, FailsWhen DEF A!TokenFault
  <2>3. CASE o.fault \in {"file_missing", "file_unreadable", "file_empty", "no_value"}
    BY <2>1, <2>3, FailsWhen DEF A!FileFault
  <2>4. CASE o.fault \in {"agent_missing", "agent_exited", "agent_unhealthy"}
    <3>1. A!BoxFault(o, "agent")
      BY <2>1, <2>4 DEF A!BoxFault
    <3> QED
      BY <2>1, <3>1, FailsWhen
  <2>5. CASE o.fault \in {"app_missing", "app_exited", "app_unhealthy"}
    <3>1. A!BoxFault(o, "app")
      BY <2>1, <2>5 DEF A!BoxFault
    <3> QED
      BY <2>1, <3>1, FailsWhen
  <2>6. CASE o.of.auth = "token" /\ o.fault \in {"token_malformed", "token_invalid", "token_fixed", "token_low"}
    BY <2>1, <2>6, FailsWhen DEF A!TokenFault
  <2>7. CASE ~o.of.exempt /\ o.fault = "app_unmounted"
    <3>1. A!BoxFault(o, "app")
      BY <2>1, <2>7 DEF A!BoxFault
    <3> QED
      BY <2>1, <3>1, FailsWhen
  <2> QED
    BY <2>1, <2>2, <2>3, <2>4, <2>5, <2>6, <2>7 DEF A!FaultsOf
<1> QED
  BY <1>1, <1>2

LEMMA AuditJudge == ASSUME AuditInv, A!Judge PROVE AuditInv'
<1>1. AuditWorld /\ AuditSeen /\ Window \in Nat
  BY Ages DEF AuditInv
<1>2. PICK stale \in SUBSET A!Audited :
        /\ report'.status = IF \A o \in collected : ~A!Fails(o, stale) THEN "pass" ELSE "fail"
        /\ report'.basis =
             {[lost |-> o.lost, fault |-> o.fault, failed |-> A!Fails(o, stale), calm |-> calm[o.of]] : o \in collected}
  BY DEF A!Judge
<1>3. AuditTellsThePresent'
  <2>1. ASSUME NEW b \in report'.basis
        PROVE  /\ b.failed /\ b.lost = {} => b.calm <= Window + 1
               /\ b.lost \ {"logs"} # {} \/ b.fault # "none" => b.failed /\ report'.status = "fail"
    <3>1. PICK o \in collected :
            b.lost = o.lost /\ b.fault = o.fault /\ b.failed = A!Fails(o, stale) /\ b.calm = calm[o.of]
      BY <1>2
    <3>2. Noted(o) /\ (o.lost = {} /\ Recent(o) => calm[o.of] <= Window + ticks) /\ ticks \in 0..1 /\ calm[o.of] \in Int
      <4>1. Noted(o) /\ (o.lost = {} /\ Recent(o) => calm[o.of] <= Window + ticks) /\ ticks \in 0..1
        BY <1>1 DEF AuditSeen
      <4>2. o.of \in A!Audited
        BY <4>1 DEF Noted, Observations
      <4> QED
        BY <1>1, <4>1, <4>2 DEF AuditWorld
    <3>3. ASSUME b.failed, b.lost = {} PROVE b.calm <= Window + 1
      <4>1. A!Fails(o, stale) /\ o.lost = {}
        BY <3>1, <3>3
      <4>2. calm[o.of] <= Window + ticks
        BY <3>2, <4>1, FailedLately
      <4> QED
        BY <1>1, <3>1, <3>2, <4>2
    <3>4. b.lost \ {"logs"} # {} \/ b.fault # "none" => b.failed /\ report'.status = "fail"
      BY <1>2, <3>1, <3>2, WrongFails
    <3> QED
      BY <3>3, <3>4
  <2> QED
    BY <2>1 DEF AuditTellsThePresent, A!AuditTellsThePresent
<1>4. AuditSeen'
  BY DEF A!Judge, AuditSeen
<1>5. AuditWorld' /\ report'.status \in {"none", "pass", "fail"}
  BY <1>1, <1>2 DEF A!Judge, AuditWorld
<1> QED
  BY <1>3, <1>4, <1>5 DEF AuditInv

LEMMA AuditUnchanged == ASSUME AuditInv, UNCHANGED ofAudit PROVE AuditInv'
  BY DEF AuditInv, ofAudit, AuditWorld, AuditSeen, AuditTellsThePresent, A!AuditTellsThePresent

LEMMA AuditNext == ASSUME AuditInv, [Next]_vars PROVE AuditInv'
<1>1. CASE A!Next
  BY <1>1, AuditTick, AuditJudge, AuditBreak, AuditMend, AuditRestart, AuditLogError, AuditCollect DEF A!Next
<1> QED
  BY <1>1, AuditStep, AuditUnchanged

LEMMA AuditAlways == Spec => []AuditInv
<1>1. Init => AuditInv
  BY InitParts, AuditInit
<1> QED
  BY <1>1, AuditNext, PTL DEF Spec

LEMMA AuditSafe == AuditInv => A!TypeOK /\ AuditTellsThePresent
<1> SUFFICES ASSUME AuditInv PROVE A!TypeOK
  BY DEF AuditInv
<1>1. Cardinality(collected) <= Cardinality(A!Audited)
  <2> DEFINE of == [o \in collected |-> o.of]
  <2>1. of \in [collected -> A!Audited]
    BY DEF AuditInv, AuditSeen, Noted, Observations
  <2>2. \A o, p \in collected : of[o] = of[p] => o = p
    BY DEF AuditInv, AuditSeen
  <2>3. of \in Injection(collected, A!Audited)
    BY <2>1, <2>2, Fun_IsInj
  <2> QED
    BY <2>3, AuditConstants, FS_Injection
<1>2. ASSUME NEW f \in A!Audited
      PROVE  /\ world[f].fault \in A!FaultsOf(f) \cup {"none"} /\ world[f].error \in 0..A!Never
             /\ world[f].restarts \in [A!Boxes -> 0..MaxRestartCount + 1] /\ world[f].started \in [A!Boxes -> 0..A!Old]
             /\ calm[f] \in 0..A!Never
  BY DEF AuditInv, AuditWorld, Worlds, Counts, Starts
<1> QED
  BY <1>1, <1>2 DEF AuditInv, AuditWorld, AuditSeen, A!TypeOK, A!Cardinality, Cardinality

(* The audit is about the present (audit_from_observations): a service all *)
(* of whose calls were answered fails it only when something was wrong     *)
(* with it within the window; a secret or container that is broken when it *)
(* is looked at fails it, and so does a call without an answer, that for   *)
(* the logs aside: for any services, windows, bounds on restarts, and any  *)
(* calls that are lost together.                                           *)
THEOREM AuditCorrect == Spec => []AuditTellsThePresent
  BY AuditAlways, AuditSafe, PTL

-----------------------------------------------------------------------------
(* The alert rules.                                                        *)
LEMMA RulesStep == [Next]_vars => R!Next \/ UNCHANGED ofRules
  BY DEF Next, vars, Previews, Sidecar, Bridge, Rules, Audit, Drift, Watch

RuleNames == R!InCatalog \cup {R!CanaryName} \cup {Legacy[n].name : n \in DOMAIN Legacy}
(* A rule of SigNoz.                                                       *)
SignozRules == [name : RuleNames, def : Nat, source : R!Sources, signal : R!Signals]

RulePcs == {"idle", "channel", "list", "upsert", "delete", "create", "prune", "pruning", "dashboard", "resolve", "green", "red"}
RuleKinds == R!JobKinds \cup {"none"}

(* The state of a job.                                                     *)
RuleJobs ==
  [pc : RulePcs, kind : RuleKinds, def : Nat, seen : SUBSET [id : Nat, rule : SignozRules], at : 1..Len(Catalog) + 1,
   id : Nat, todo : SUBSET Nat, ok : BOOLEAN, alone : BOOLEAN, unseen : SUBSET R!InCatalog]

(* Where a job is: it has not started, it is under way, it is among the    *)
(* definitions of the catalog, or past them.                               *)
Idle(q)    == q.pc = "idle"
Live(q)    == q.pc \notin {"idle", "green", "red"}
Applies(q) == q.kind \in {"apply", "prune"}
InLoop(q)  == q.pc \in {"upsert", "delete"} \/ (q.pc = "create" /\ Applies(q))
Looped(q)  == q.pc \in {"prune", "pruning", "dashboard"}

RulesTypes ==
  /\ made \in 0..MaxRules /\ DOMAIN rules \subseteq 1..made
  /\ \A i \in DOMAIN rules : rules[i] \in SignozRules
  /\ channel \in BOOLEAN /\ dashboard \in Nat /\ tip \in 1..MaxMerges + 1
  /\ job \in [Jobs -> RuleJobs]

(* The control of a job: where it is tells what it is and how far it came. *)
Control(q) ==
  /\ ~Idle(q) => q.kind \in R!JobKinds
  /\ InLoop(q) \/ Looped(q) => Applies(q)
  /\ InLoop(q) => q.at <= Len(Catalog)
  /\ Looped(q) => q.at = Len(Catalog) + 1
  /\ q.pc = "dashboard" => q.ok
  /\ q.pc = "resolve" => q.kind = "canary"
  /\ q.pc \in {"channel", "list"} => q.seen = {} /\ q.at = 1
  /\ q.pc \notin {"pruning"} => q.todo = {}

(* What a job remembers of SigNoz: a rule never changes, it may be gone.   *)
Memory(q, kept, count) ==
  /\ \A s \in q.seen : s.id \in 1..count /\ (s.id \in DOMAIN kept => kept[s.id] = s.rule)
  /\ q.pc = "delete" => \E s \in q.seen : s.id = q.id /\ s.rule.name = Catalog[q.at].name
  /\ \A id \in q.todo : \E s \in q.seen : s.id = id /\ R!Prunable(s.rule)
  /\ q.pc = "resolve" => q.id \in 1..count /\ (q.id \in DOMAIN kept => kept[q.id].name = R!CanaryName)

(* A rule of the catalog exists once, unless it was doubled.               *)
Once(kept, names) ==
  \A i, k \in DOMAIN kept : kept[i].name = kept[k].name /\ kept[i].name \in R!InCatalog \ names => i = k

(* The definition def of the n-th alert of the catalog is in SigNoz.       *)
Applied(kept, def, n) == \E i \in DOMAIN kept : kept[i].name = Catalog[n].name /\ kept[i].def = def

(* The alerts that a job has not treated yet.                              *)
Ahead(q, n) == IF q.pc = "create" THEN n > q.at ELSE n >= q.at

(* What a job of its own knows: nobody else changes what it has listed.    *)
Own(q, kept, names) ==
  q.alone /\ (InLoop(q) \/ Looped(q)) =>
    /\ \A s, t \in q.seen : s.rule.name = t.rule.name /\ s.rule.name \in R!InCatalog \ names => s = t
    /\ \A i \in DOMAIN kept, n \in DOMAIN Catalog :
         Ahead(q, n) /\ kept[i].name = Catalog[n].name /\ Catalog[n].name \notin q.unseen =>
           \E s \in q.seen : s.id = i /\ s.rule.name = kept[i].name
    /\ q.pc = "create" /\ Catalog[q.at].name \notin names \cup q.unseen =>
         \A i \in DOMAIN kept : kept[i].name # Catalog[q.at].name
    /\ q.ok => \A n \in DOMAIN Catalog : n < q.at => Applied(kept, q.def, n)

(* The last job that has started.                                          *)
Last(j) == \A k \in Jobs : k > j => Idle(job[k])

(* Jobs start in their order; a job of its own has the jobs to itself.     *)
RulesTurns ==
  /\ \A j, k \in Jobs : k < j /\ ~Idle(job[j]) => ~Idle(job[k])
  /\ \A j \in Jobs : Live(job[j]) /\ job[j].alone => \A k \in Jobs \ {j} : ~Live(job[k])
  /\ \A j \in Jobs : ~Idle(job[j]) /\ job[j].alone /\ Last(j) => \A k \in Jobs \ {j} : ~Live(job[k])

(* An apply of its own that ended green has applied every alert.           *)
Greens ==
  \A j \in Jobs : job[j].pc = "green" /\ Applies(job[j]) /\ job[j].alone /\ Last(j) =>
    \A n \in DOMAIN Catalog : Applied(rules, job[j].def, n)

(* Of the rules in the beginning those that a person made stay.            *)
Heirlooms ==
  /\ \A i \in DOMAIN Legacy : i \in 1..made /\ (i \in DOMAIN rules => rules[i] = Legacy[i])
  /\ \A i \in DOMAIN Legacy :
       Legacy[i].source = "none" /\ Legacy[i].name \notin R!InCatalog \cup {R!CanaryName} => i \in DOMAIN rules

(* The inductive invariant of the rules.                                   *)
RulesInv ==
  /\ RulesTypes /\ RulesTurns /\ Once(rules, doubled) /\ Greens /\ Heirlooms
  /\ \A j \in Jobs : Control(job[j]) /\ Memory(job[j], rules, made) /\ Own(job[j], rules, doubled)

(* What the constants of the rules are.                                    *)
LEMMA RulesConstants ==
  /\ Jobs \subseteq Nat /\ Kinds \subseteq R!JobKinds /\ MaxRules \in Nat /\ MaxMerges \in Nat
  /\ Len(Catalog) \in Nat /\ Len(Catalog) # 0 /\ DOMAIN Catalog = 1..Len(Catalog)
  /\ \A n \in DOMAIN Catalog : Catalog[n].name \in R!InCatalog /\ Catalog[n].signal \in R!Signals
  /\ \A m, n \in DOMAIN Catalog : Catalog[m].name = Catalog[n].name => m = n
  /\ R!CanaryName \notin R!InCatalog
  /\ Len(Legacy) \in Nat /\ Len(Legacy) <= MaxRules /\ DOMAIN Legacy = 1..Len(Legacy)
  /\ \A n \in DOMAIN Legacy : Legacy[n] \in SignozRules
  /\ \A m, n \in DOMAIN Legacy : Legacy[m].name = Legacy[n].name /\ Legacy[m].name \in R!InCatalog => m = n
<1>1. R!RulesAssumption
  BY ChecksAssumption DEF ChecksAssumption
<1>2. ASSUME NEW n \in DOMAIN Legacy PROVE Legacy[n] \in SignozRules
  <2>1. Legacy[n] \in [name : STRING, def : Nat, source : R!Sources, signal : R!Signals]
    <3> DEFINE T == [name : STRING, def : Nat, source : R!Sources, signal : R!Signals]
    <3>1. Legacy \in Seq(T)
      BY <1>1 DEF R!RulesAssumption
    <3> HIDE DEF T
    <3>2. Legacy[n] \in T
      BY <3>1
    <3> QED
      BY <3>2 DEF T
  <2>2. Legacy[n].name \in RuleNames
    BY DEF RuleNames
  <2> QED
    BY <2>1, <2>2 DEF SignozRules
<1>3. ASSUME NEW n \in DOMAIN Catalog PROVE Catalog[n].name \in R!InCatalog /\ Catalog[n].signal \in R!Signals
  <2>1. Catalog[n] \in [name : STRING, signal : R!Signals]
    <3> DEFINE T == [name : STRING, signal : R!Signals]
    <3>1. Catalog \in Seq(T)
      BY <1>1 DEF R!RulesAssumption
    <3> HIDE DEF T
    <3>2. Catalog[n] \in T
      BY <3>1
    <3> QED
      BY <3>2 DEF T
  <2> QED
    BY <2>1 DEF R!InCatalog
<1> QED
  BY <1>1, <1>2, <1>3 DEF R!RulesAssumption

LEMMA NewJobType ==
  /\ R!NewJob \in RuleJobs /\ R!NewJob.pc = "idle" /\ R!NewJob.seen = {} /\ R!NewJob.todo = {} /\ R!NewJob.at = 1
  /\ R!NewJob.kind = "none" /\ R!NewJob.alone = TRUE /\ R!NewJob.ok = TRUE /\ R!NewJob.unseen = {}
<1>1. 1 \in 1..Len(Catalog) + 1
  BY RulesConstants
<1> QED
  BY <1>1 DEF R!NewJob, RuleJobs, RulePcs, RuleKinds

LEMMA RulesInit == R!Init => RulesInv
<1> SUFFICES ASSUME R!Init PROVE RulesInv
  OBVIOUS
<1>1. \A j \in Jobs : job[j] = R!NewJob
  BY DEF R!Init
<1>2. RulesTypes
  <2>1. job \in [Jobs -> RuleJobs]
    BY NewJobType DEF R!Init
  <2>2. \A i \in DOMAIN rules : i \in 1..Len(Legacy) /\ rules[i] \in SignozRules
    BY RulesConstants DEF R!Init
  <2>3. made \in 0..MaxRules /\ made = Len(Legacy) /\ dashboard \in Nat /\ tip \in 1..MaxMerges + 1
    BY RulesConstants DEF R!Init
  <2>4. channel \in BOOLEAN
    BY DEF R!Init
  <2>5. DOMAIN rules \subseteq 1..made
    BY <2>2, <2>3
  <2> QED
    BY <2>1, <2>2, <2>3, <2>4, <2>5 DEF RulesTypes
<1>3. RulesTurns /\ Greens
  BY <1>1, NewJobType DEF RulesTurns, Greens, Idle, Live
<1>4. Once(rules, doubled)
  BY RulesConstants DEF R!Init, Once
<1>5. Heirlooms
  BY RulesConstants DEF R!Init, Heirlooms
<1>6. ASSUME NEW j \in Jobs PROVE Control(job[j]) /\ Memory(job[j], rules, made) /\ Own(job[j], rules, doubled)
  BY <1>1, NewJobType DEF Control, Memory, Own, Idle, InLoop, Looped, Applies
<1> QED
  BY <1>2, <1>3, <1>4, <1>5, <1>6 DEF RulesInv

(* A rule never changes and no id is used twice.                           *)
Evolves ==
  /\ made' \in made..MaxRules
  /\ \A i \in DOMAIN rules' :
       /\ rules'[i] \in SignozRules /\ i \in 1..made'
       /\ i \in DOMAIN rules => rules'[i] = rules[i]
       /\ i \notin DOMAIN rules => i > made

Kept ==
  \A i \in DOMAIN Legacy :
    Legacy[i].source = "none" /\ Legacy[i].name \notin R!InCatalog \cup {R!CanaryName} => i \in DOMAIN rules'

(* A step of a job that is under way.                                      *)
LEMMA RulesFrame ==
  ASSUME RulesInv, NEW j \in Jobs, Live(job[j]), NEW q \in RuleJobs, job' = [job EXCEPT ![j] = q],
         ~Idle(q), q.alone = job[j].alone, Evolves, Kept, Once(rules', doubled'),
         channel' \in BOOLEAN, dashboard' \in Nat, tip' = tip,
         Control(q), Memory(q, rules', made'), Own(q, rules', doubled'),
         q.pc = "green" /\ Applies(q) /\ q.alone => \A n \in DOMAIN Catalog : Applied(rules', q.def, n)
  PROVE  RulesInv'
<1>1. /\ job \in [Jobs -> RuleJobs] /\ job' \in [Jobs -> RuleJobs]
      /\ job'[j] = q /\ \A k \in Jobs \ {j} : job'[k] = job[k]
  BY DEF RulesInv, RulesTypes
<1>2. RulesTypes'
  <2>1. made \in Nat /\ made' \in 0..MaxRules /\ DOMAIN rules' \subseteq 1..made'
    BY RulesConstants DEF RulesInv, RulesTypes, Evolves
  <2> QED
    BY <1>1, <2>1 DEF RulesInv, RulesTypes, Evolves
<1>3. ~Idle(job[j])
  BY DEF Live, Idle
<1>4. ASSUME NEW k \in Jobs \ {j}
      PROVE /\ ~(Live(job[k]) /\ job[k].alone)
            /\ ~Idle(job[k]) /\ job[k].alone => ~Last(k)'
  <2>1. ~(Live(job[k]) /\ job[k].alone)
    BY DEF RulesInv, RulesTurns
  <2>2. ASSUME ~Idle(job[k]), job[k].alone, Last(k)' PROVE FALSE
    <3>1. \A i \in Jobs : i > k => Idle(job[i])
      BY <1>1, <2>2 DEF Last
    <3>2. Last(k)
      BY <3>1 DEF Last
    <3> QED
      BY <2>2, <3>2 DEF RulesInv, RulesTurns
  <2> QED
    BY <2>1, <2>2
<1>5. RulesTurns'
  <2>1. \A i, k \in Jobs : k < i /\ ~Idle(job'[i]) => ~Idle(job'[k])
    BY <1>1, <1>3 DEF RulesInv, RulesTurns
  <2>2. \A i \in Jobs : Live(job'[i]) /\ job'[i].alone => \A k \in Jobs \ {i} : ~Live(job'[k])
    BY <1>1, <1>4 DEF RulesInv, RulesTurns
  <2>3. \A i \in Jobs : ~Idle(job'[i]) /\ job'[i].alone /\ Last(i)' => \A k \in Jobs \ {i} : ~Live(job'[k])
    BY <1>1, <1>4 DEF RulesInv, RulesTurns
  <2> QED
    BY <2>1, <2>2, <2>3 DEF RulesTurns
<1>6. Greens'
  BY <1>1, <1>4 DEF Greens, Idle
<1>7. Heirlooms'
  <2>1. ASSUME NEW i \in DOMAIN Legacy PROVE i \in 1..made' /\ (i \in DOMAIN rules' => rules'[i] = Legacy[i])
    <3>1. i \in 1..made /\ (i \in DOMAIN rules => rules[i] = Legacy[i]) /\ made \in Nat
      BY DEF RulesInv, Heirlooms, RulesTypes
    <3> QED
      BY <3>1, RulesConstants DEF Evolves
  <2> QED
    BY <2>1 DEF Heirlooms, Kept
<1>8. ASSUME NEW k \in Jobs PROVE Control(job'[k]) /\ Memory(job'[k], rules', made') /\ Own(job'[k], rules', doubled')
  <2>1. CASE k = j
    BY <1>1, <2>1
  <2>2. CASE k # j
    <3>1. job'[k] = job[k] /\ Control(job[k]) /\ Memory(job[k], rules, made) /\ made \in Nat
      BY <1>1, <2>2 DEF RulesInv, RulesTypes
    <3>2. \A id \in 1..made : id \in 1..made' /\ (id \in DOMAIN rules' => id \in DOMAIN rules /\ rules'[id] = rules[id])
      BY <3>1, RulesConstants DEF Evolves
    <3>3. Memory(job[k], rules', made')
      BY <3>1, <3>2 DEF Memory
    <3>4. Own(job[k], rules', doubled')
      BY <1>4, <2>2 DEF Own, InLoop, Looped, Live
    <3> QED
      BY <3>1, <3>3, <3>4
  <2> QED
    BY <2>1, <2>2
<1> QED
  BY <1>2, <1>5, <1>6, <1>7, <1>8 DEF RulesInv

(* A step that leaves the rules alone.                                     *)
LEMMA NothingChanges == ASSUME RulesInv, UNCHANGED <<rules, made>> PROVE Evolves /\ Kept
<1>1. made \in 0..MaxRules /\ MaxRules \in Nat
  BY RulesConstants DEF RulesInv, RulesTypes
<1> QED
  BY <1>1 DEF RulesInv, RulesTypes, Heirlooms, Evolves, Kept

(* A job ends.                                                             *)
LEMMA RulesEnd ==
  ASSUME RulesInv, NEW j \in Jobs, Live(job[j]), NEW k \in {"green", "red"}, R!End(j, k), Evolves, Kept,
         Once(rules', doubled'), channel' \in BOOLEAN, dashboard' \in Nat, tip' = tip,
         k = "green" /\ Applies(job[j]) /\ job[j].alone => \A n \in DOMAIN Catalog : Applied(rules', job[j].def, n)
  PROVE  RulesInv'
<1>1. PICK q : q = [R!NewJob EXCEPT !.pc = k, !.kind = job[j].kind, !.def = job[j].def, !.alone = job[j].alone]
  OBVIOUS
<1>2. job[j] \in RuleJobs /\ job[j].kind \in RuleKinds /\ job[j].def \in Nat /\ job[j].alone \in BOOLEAN
  BY DEF RulesInv, RulesTypes, RuleJobs
<1>3. Control(job[j])
  BY DEF RulesInv
<1>4. job[j].kind \in R!JobKinds
  BY <1>3 DEF Control, Live, Idle
<1>5. PICK next \in RulePcs : next = k
  BY DEF RulePcs
<1>6. PICK alone \in BOOLEAN : alone = job[j].alone
  BY <1>2
<1>7. q = [R!NewJob EXCEPT !.pc = next, !.kind = job[j].kind, !.def = job[j].def, !.alone = alone]
  BY <1>1, <1>5, <1>6
<1>8. /\ q \in RuleJobs /\ q.pc = k /\ q.kind = job[j].kind /\ q.def = job[j].def /\ q.alone = job[j].alone
      /\ q.seen = {} /\ q.todo = {}
  BY <1>2, <1>5, <1>6, <1>7, NewJobType DEF RuleJobs
<1>9. Control(q) /\ Memory(q, rules', made') /\ Own(q, rules', doubled') /\ ~Idle(q)
  BY <1>4, <1>8 DEF Control, Memory, Own, Idle, InLoop, Looped
<1>10. job' = [job EXCEPT ![j] = q]
  BY <1>1 DEF R!End
<1> QED
  BY <1>8, <1>9, <1>10, RulesFrame DEF Applies

(* A job goes on without touching the rules.                               *)
LEMMA RulesMove ==
  ASSUME RulesInv, NEW j \in Jobs, Live(job[j]), NEW q \in RuleJobs, job' = [job EXCEPT ![j] = q],
         Live(q), q.alone = job[j].alone, UNCHANGED <<rules, made, doubled, tip, dashboard>>, channel' \in BOOLEAN,
         Control(q), Memory(q, rules, made), Own(q, rules, doubled)
  PROVE  RulesInv'
<1>1. Evolves /\ Kept
  BY NothingChanges
<1>2. Once(rules', doubled') /\ dashboard' \in Nat /\ ~Idle(q) /\ q.pc # "green"
  BY DEF RulesInv, RulesTypes, Live, Idle
<1> QED
  BY <1>1, <1>2, RulesFrame

(* A job ends without touching the rules.                                  *)
LEMMA RulesStop ==
  ASSUME RulesInv, NEW j \in Jobs, Live(job[j]), NEW k \in {"green", "red"}, R!End(j, k),
         UNCHANGED <<rules, made, doubled, tip>>, channel' \in BOOLEAN, dashboard' \in Nat,
         k = "green" /\ Applies(job[j]) /\ job[j].alone => \A n \in DOMAIN Catalog : Applied(rules, job[j].def, n)
  PROVE  RulesInv'
<1>1. Evolves /\ Kept
  BY NothingChanges
<1>2. Once(rules', doubled')
  BY DEF RulesInv
<1> QED
  BY <1>1, <1>2, RulesEnd

LEMMA RulesDie == ASSUME RulesInv, NEW j \in Jobs, R!Die(j) PROVE RulesInv'
<1>1. Live(job[j]) /\ channel' \in BOOLEAN /\ dashboard' \in Nat
  BY DEF R!Die, R!Active, Live, RulesInv, RulesTypes, R!signoz
<1> QED
  BY <1>1, RulesStop DEF R!Die, R!signoz

LEMMA RulesMerge == ASSUME RulesInv, R!Merge PROVE RulesInv'
<1>1. tip' \in 1..MaxMerges + 1
  BY RulesConstants DEF R!Merge, RulesInv, RulesTypes
<1>2. UNCHANGED <<rules, made, channel, dashboard, job, doubled>>
  BY DEF R!Merge, R!signoz
<1>3. RulesTypes'
  BY <1>1, <1>2 DEF RulesInv, RulesTypes
<1>4. RulesTurns' /\ Greens' /\ Heirlooms'
  BY <1>2 DEF RulesInv, RulesTurns, Greens, Heirlooms, Last
<1> QED
  BY <1>2, <1>3, <1>4 DEF RulesInv

LEMMA RulesUnchanged == ASSUME RulesInv, UNCHANGED ofRules PROVE RulesInv'
  BY DEF RulesInv, ofRules, RulesTypes, RulesTurns, Greens, Heirlooms, Last

LEMMA RulesStart == ASSUME RulesInv, NEW j \in Jobs, R!Start(j) PROVE RulesInv'
<1>1. PICK kind \in Kinds :
        job' = [k \in Jobs |->
                  IF k = j
                  THEN [R!NewJob EXCEPT !.pc = "channel", !.kind = kind, !.def = tip, !.alone = \A o \in Jobs : ~R!Active(o)]
                  ELSE [job[k] EXCEPT !.alone = @ /\ ~R!Active(k)]]
  BY DEF R!Start
<1>2. /\ Idle(job[j]) /\ (\A k \in Jobs : k < j => ~Idle(job[k])) /\ UNCHANGED <<rules, made, channel, dashboard, tip, doubled>>
      /\ \A k \in Jobs : R!Active(k) <=> Live(job[k])
  BY DEF R!Start, R!At, Idle, R!signoz, R!Active, Live
<1>3. PICK alone \in BOOLEAN : alone <=> \A o \in Jobs : ~Live(job[o])
  OBVIOUS
<1>4. job'[j] = [R!NewJob EXCEPT !.pc = "channel", !.kind = kind, !.def = tip, !.alone = alone]
  <2>1. alone = \A o \in Jobs : ~R!Active(o)
    BY <1>2, <1>3
  <2> QED
    BY <1>1, <2>1
<1>5. tip \in Nat /\ kind \in R!JobKinds /\ kind \in RuleKinds /\ "channel" \in RulePcs /\ job \in [Jobs -> RuleJobs]
  BY RulesConstants DEF RulesInv, RulesTypes, RuleKinds, RulePcs
<1>6. /\ job'[j] \in RuleJobs /\ job'[j].pc = "channel" /\ job'[j].kind = kind /\ job'[j].alone = alone
      /\ job'[j].seen = {} /\ job'[j].todo = {} /\ job'[j].at = 1
  BY <1>4, <1>5, NewJobType DEF RuleJobs
<1>7. ASSUME NEW k \in Jobs \ {j}
      PROVE  /\ job'[k] \in RuleJobs /\ job'[k].pc = job[k].pc /\ job'[k].kind = job[k].kind /\ job'[k].def = job[k].def
             /\ job'[k].seen = job[k].seen /\ job'[k].at = job[k].at /\ job'[k].id = job[k].id
             /\ job'[k].todo = job[k].todo /\ job'[k].ok = job[k].ok
             /\ job'[k].alone => job[k].alone /\ ~Live(job[k])
  <2>1. PICK own \in BOOLEAN : own <=> job[k].alone /\ ~Live(job[k])
    OBVIOUS
  <2>2. job[k].alone \in BOOLEAN /\ job[k] \in RuleJobs
    BY <1>5 DEF RuleJobs
  <2>3. own = (job[k].alone /\ ~R!Active(k))
    BY <1>2, <2>1, <2>2
  <2>4. job'[k] = [job[k] EXCEPT !.alone = own]
    BY <1>1, <2>3
  <2>5. job'[k].alone = own
    BY <2>2, <2>4 DEF RuleJobs
  <2> QED
    BY <2>1, <2>2, <2>4, <2>5 DEF RuleJobs
<1>8. ASSUME NEW k \in Jobs \ {j} PROVE (Idle(job'[k]) <=> Idle(job[k])) /\ (Live(job'[k]) <=> Live(job[k]))
  BY <1>7 DEF Idle, Live
<1>9. ~Idle(job'[j]) /\ Live(job'[j])
  BY <1>6 DEF Idle, Live
<1>10. RulesTypes'
  <2>1. job' \in [Jobs -> RuleJobs]
    <3>1. \A k \in Jobs : job'[k] \in RuleJobs
      BY <1>6, <1>7
    <3>2. job' = [k \in Jobs |-> job'[k]]
      BY <1>1
    <3> QED
      BY <3>1, <3>2
  <2> QED
    BY <1>2, <2>1 DEF RulesInv, RulesTypes
<1>11. ASSUME NEW k \in Jobs \ {j}, ~Idle(job[k]) PROVE ~Last(k)'
  <2>1. k < j
    <3>1. ~(j < k)
      BY <1>2, <1>11 DEF RulesInv, RulesTurns
    <3> QED
      BY <3>1, RulesConstants
  <2> QED
    BY <1>9, <2>1 DEF Last
<1>12. RulesTurns'
  <2>1. \A i, k \in Jobs : k < i /\ ~Idle(job'[i]) => ~Idle(job'[k])
    BY <1>2, <1>8, <1>9 DEF RulesInv, RulesTurns
  <2>2. \A i \in Jobs : Live(job'[i]) /\ job'[i].alone => \A k \in Jobs \ {i} : ~Live(job'[k])
    BY <1>3, <1>6, <1>7, <1>8
  <2>3. \A i \in Jobs : ~Idle(job'[i]) /\ job'[i].alone /\ Last(i)' => \A k \in Jobs \ {i} : ~Live(job'[k])
    BY <1>3, <1>6, <1>8, <1>11
  <2> QED
    BY <2>1, <2>2, <2>3 DEF RulesTurns
<1>13. Greens'
  BY <1>6, <1>8, <1>11 DEF Greens, Idle
<1>14. Once(rules', doubled') /\ Heirlooms'
  BY <1>2 DEF RulesInv, Heirlooms
<1>15. ASSUME NEW k \in Jobs PROVE Control(job'[k]) /\ Memory(job'[k], rules', made') /\ Own(job'[k], rules', doubled')
  <2>1. CASE k = j
    BY <1>5, <1>6, <2>1 DEF Control, Memory, Own, Idle, InLoop, Looped
  <2>2. CASE k # j
    <3>1. Control(job[k]) /\ Memory(job[k], rules, made)
      BY DEF RulesInv
    <3>2. Control(job'[k])
      BY <1>7, <2>2, <3>1 DEF Control, Idle, InLoop, Looped, Applies
    <3>3. Memory(job'[k], rules', made')
      BY <1>2, <1>7, <2>2, <3>1 DEF Memory
    <3>4. Own(job'[k], rules', doubled')
      <4>1. job'[k].alone => ~Live(job'[k])
        BY <1>7, <1>8, <2>2
      <4>2. InLoop(job'[k]) \/ Looped(job'[k]) => Live(job'[k])
        BY DEF InLoop, Looped, Live
      <4> QED
        BY <4>1, <4>2 DEF Own
    <3> QED
      BY <3>2, <3>3, <3>4
  <2> QED
    BY <2>1, <2>2
<1> QED
  BY <1>10, <1>12, <1>13, <1>14, <1>15 DEF RulesInv

(* The state of a job with another program counter.                        *)
LEMMA RulesAt ==
  ASSUME NEW p \in RuleJobs, NEW k \in RulePcs
  PROVE  LET q == [p EXCEPT !.pc = k]
         IN  /\ q \in RuleJobs /\ q.pc = k /\ q.kind = p.kind /\ q.def = p.def /\ q.seen = p.seen /\ q.at = p.at
             /\ q.id = p.id /\ q.todo = p.todo /\ q.ok = p.ok /\ q.alone = p.alone /\ q.unseen = p.unseen
  BY DEF RuleJobs

(* The parts of the invariant that the steps of a job start from.          *)
LEMMA JobOf == ASSUME RulesInv, NEW j \in Jobs
               PROVE  /\ job[j] \in RuleJobs /\ Control(job[j]) /\ Memory(job[j], rules, made) /\ Own(job[j], rules, doubled)
                      /\ job[j].at \in 1..Len(Catalog) + 1 /\ job[j].alone \in BOOLEAN /\ job[j].ok \in BOOLEAN
                      /\ job[j].def \in Nat /\ made \in Nat /\ made <= MaxRules
  BY RulesConstants DEF RulesInv, RulesTypes, RuleJobs

LEMMA RulesChannel == ASSUME RulesInv, NEW j \in Jobs, R!EnsureChannel(j) PROVE RulesInv'
<1>1. job[j].pc = "channel" /\ Live(job[j]) /\ UNCHANGED <<rules, made, dashboard, tip, doubled>>
  BY DEF R!EnsureChannel, R!At, Live
<1>2. channel' \in BOOLEAN /\ dashboard' \in Nat
  <2>1. channel \in BOOLEAN /\ dashboard \in Nat
    BY DEF RulesInv, RulesTypes
  <2> QED
    BY <1>1, <2>1 DEF R!EnsureChannel
<1>3. CASE R!Go(j, "list")
  <2> DEFINE q == [job[j] EXCEPT !.pc = "list"]
  <2>0. "list" \in RulePcs /\ job[j] \in RuleJobs
    BY JobOf DEF RulePcs
  <2>1. /\ q \in RuleJobs /\ q.pc = "list" /\ q.kind = job[j].kind /\ q.seen = job[j].seen /\ q.at = job[j].at
        /\ q.todo = job[j].todo /\ q.alone = job[j].alone
    BY <2>0, RulesAt
  <2>2. job' = [job EXCEPT ![j] = q]
    BY <1>3 DEF R!Go
  <2> HIDE DEF q
  <2>3. Control(q)
    BY <1>1, <2>1, JobOf DEF Control, Idle, InLoop, Looped
  <2>4. Memory(q, rules, made) /\ Own(q, rules, doubled) /\ Live(q)
    BY <1>1, <2>1, JobOf DEF Memory, Control, Own, InLoop, Looped, Live
  <2> QED
    BY <1>1, <1>2, <2>1, <2>2, <2>3, <2>4, RulesMove
<1>4. CASE R!Go(j, "red")
  <2> DEFINE q == [job[j] EXCEPT !.pc = "red"]
  <2>0. "red" \in RulePcs /\ job[j] \in RuleJobs
    BY JobOf DEF RulePcs
  <2>1. /\ q \in RuleJobs /\ q.pc = "red" /\ q.kind = job[j].kind /\ q.seen = job[j].seen /\ q.at = job[j].at
        /\ q.todo = job[j].todo /\ q.alone = job[j].alone
    BY <2>0, RulesAt
  <2>2. job' = [job EXCEPT ![j] = q]
    BY <1>4 DEF R!Go
  <2> HIDE DEF q
  <2>3. Control(q) /\ Memory(q, rules', made') /\ Own(q, rules', doubled') /\ ~Idle(q)
    BY <1>1, <2>1, JobOf DEF Control, Memory, Own, Idle, InLoop, Looped
  <2>4. Evolves /\ Kept
    BY <1>1, NothingChanges
  <2>5. Once(rules', doubled')
    BY <1>1 DEF RulesInv
  <2> QED
    BY <1>1, <1>2, <2>1, <2>2, <2>3, <2>4, <2>5, RulesFrame
<1>5. CASE R!End(j, "red")
  BY <1>1, <1>2, <1>5, RulesStop
<1> QED
  BY <1>3, <1>4, <1>5 DEF R!EnsureChannel

LEMMA RulesList == ASSUME RulesInv, NEW j \in Jobs, R!List(j) PROVE RulesInv'
<1>1. /\ job[j].pc = "list" /\ Live(job[j]) /\ UNCHANGED <<rules, made, channel, dashboard, tip, doubled>>
      /\ channel' \in BOOLEAN /\ dashboard' \in Nat
  BY DEF R!List, R!At, Live, R!signoz, RulesInv, RulesTypes
<1>2. job[j].kind \in R!JobKinds /\ job[j].seen = {} /\ job[j].at = 1 /\ job[j].todo = {}
  BY <1>1, JobOf DEF Control, Idle
<1>3. CASE R!End(j, "red")
  BY <1>1, <1>3, RulesStop
<1>4. CASE job[j].kind = "ensure" /\ R!End(j, "green")
  BY <1>1, <1>4, RulesStop DEF Applies
<1>5. CASE job[j].kind \notin {"apply", "prune"} /\ R!Go(j, "create")
  <2> DEFINE q == [job[j] EXCEPT !.pc = "create"]
  <2>0. "create" \in RulePcs /\ job[j] \in RuleJobs
    BY JobOf DEF RulePcs
  <2>1. /\ q \in RuleJobs /\ q.pc = "create" /\ q.kind = job[j].kind /\ q.seen = job[j].seen /\ q.at = job[j].at
        /\ q.todo = job[j].todo /\ q.alone = job[j].alone
    BY <2>0, RulesAt
  <2>2. job' = [job EXCEPT ![j] = q]
    BY <1>5 DEF R!Go
  <2> HIDE DEF q
  <2>3. Control(q) /\ Memory(q, rules, made) /\ Own(q, rules, doubled) /\ Live(q)
    BY <1>2, <1>5, <2>1 DEF Control, Memory, Own, Idle, InLoop, Looped, Applies, Live
  <2> QED
    BY <1>1, <2>1, <2>2, <2>3, RulesMove
<1>6. CASE /\ Applies(job[j])
           /\ job' = [job EXCEPT ![j].pc = "upsert", ![j].seen = {[id |-> i, rule |-> rules[i]] : i \in DOMAIN rules}]
  <2>1. PICK seen_ : seen_ = {[id |-> i, rule |-> rules[i]] : i \in DOMAIN rules}
    OBVIOUS
  <2>2. seen_ \subseteq [id : Nat, rule : SignozRules] /\ \A s \in seen_ : s.id \in 1..made
    <3>1. \A i \in DOMAIN rules : i \in 1..made /\ i \in Nat /\ rules[i] \in SignozRules
      BY DEF RulesInv, RulesTypes
    <3> QED
      BY <2>1, <3>1
  <2>3. PICK q : q = [job[j] EXCEPT !.pc = "upsert", !.seen = seen_]
    OBVIOUS
  <2>4. /\ q \in RuleJobs /\ q.pc = "upsert" /\ q.kind = job[j].kind /\ q.seen = seen_ /\ q.at = 1
        /\ q.todo = {} /\ q.alone = job[j].alone /\ q.ok = job[j].ok
    <3>1. "upsert" \in RulePcs
      BY DEF RulePcs
    <3> QED
      BY <1>2, <2>2, <2>3, <3>1, JobOf DEF RuleJobs
  <2>5. job' = [job EXCEPT ![j] = q]
    BY <1>6, <2>1, <2>3
  <2>6. Control(q) /\ Live(q)
    BY <1>2, <1>6, <2>4, RulesConstants DEF Control, Idle, InLoop, Looped, Applies, Live
  <2>7. Memory(q, rules, made)
    BY <2>1, <2>2, <2>4 DEF Memory
  <2>8. Own(q, rules, doubled)
    <3>1. \A s, t \in q.seen : s.rule.name = t.rule.name /\ s.rule.name \in R!InCatalog \ doubled => s = t
      BY <2>1, <2>4 DEF RulesInv, Once
    <3>2. ASSUME NEW i \in DOMAIN rules PROVE \E s \in q.seen : s.id = i /\ s.rule.name = rules[i].name
      <4>1. [id |-> i, rule |-> rules[i]] \in q.seen
        BY <2>1, <2>4
      <4> QED
        BY <4>1
    <3>3. \A n \in DOMAIN Catalog : ~(n < q.at)
      BY <2>4, RulesConstants
    <3> QED
      BY <2>4, <3>1, <3>2, <3>3 DEF Own
  <2> QED
    BY <1>1, <2>4, <2>5, <2>6, <2>7, <2>8, RulesMove
<1>7. CASE /\ Applies(job[j])
           /\ job' = [job EXCEPT ![j].pc = "upsert", ![j].unseen = R!InCatalog]
  <2>1. PICK q : q = [job[j] EXCEPT !.pc = "upsert", !.unseen = R!InCatalog]
    OBVIOUS
  <2>2. /\ q \in RuleJobs /\ q.pc = "upsert" /\ q.kind = job[j].kind /\ q.seen = {} /\ q.at = 1
        /\ q.todo = {} /\ q.alone = job[j].alone /\ q.unseen = R!InCatalog
    <3>1. "upsert" \in RulePcs
      BY DEF RulePcs
    <3> QED
      BY <1>2, <2>1, <3>1, JobOf DEF RuleJobs
  <2>3. job' = [job EXCEPT ![j] = q]
    BY <1>7, <2>1
  <2>4. Control(q) /\ Live(q)
    BY <1>2, <1>7, <2>2, RulesConstants DEF Control, Idle, InLoop, Looped, Applies, Live
  <2>5. Memory(q, rules, made)
    BY <2>2 DEF Memory
  <2>6. Own(q, rules, doubled)
    <3>1. \A n \in DOMAIN Catalog : ~(n < q.at) /\ Catalog[n].name \in q.unseen
      BY <2>2, RulesConstants
    <3> QED
      BY <2>2, <3>1 DEF Own
  <2> QED
    BY <1>1, <2>2, <2>3, <2>4, <2>5, <2>6, RulesMove
<1> QED
  BY <1>2, <1>3, <1>4, <1>5, <1>6, <1>7 DEF R!List, Applies, R!JobKinds

(* What a job of its own knows, when it goes on to the next phase.         *)
LEMMA OwnCarries ==
  ASSUME NEW p, NEW q, NEW kept, NEW names, Own(p, kept, names), InLoop(p) \/ Looped(p),
         q.alone = p.alone, q.seen = p.seen, q.at = p.at, q.def = p.def, q.ok = p.ok, q.unseen = p.unseen,
         \A n \in DOMAIN Catalog : Ahead(q, n) => Ahead(p, n),
         q.alone /\ q.pc = "create" /\ Catalog[q.at].name \notin names \cup q.unseen =>
           \A i \in DOMAIN kept : kept[i].name # Catalog[q.at].name
  PROVE  Own(q, kept, names)
  BY DEF Own

LEMMA RulesUpsert == ASSUME RulesInv, NEW j \in Jobs, R!Upsert(j) PROVE RulesInv'
<1>1. /\ job[j].pc = "upsert" /\ Live(job[j]) /\ UNCHANGED <<rules, made, channel, dashboard, tip, doubled>>
      /\ channel' \in BOOLEAN /\ dashboard' \in Nat
  BY DEF R!Upsert, R!At, Live, R!signoz, RulesInv, RulesTypes
<1>2. InLoop(job[j]) /\ Applies(job[j]) /\ job[j].at \in DOMAIN Catalog /\ job[j].kind \in R!JobKinds /\ job[j].todo = {}
  BY <1>1, JobOf, RulesConstants DEF Control, InLoop, Idle
<1>3. CASE R!Existing(j) = {} /\ R!Go(j, "create")
  <2> DEFINE q == [job[j] EXCEPT !.pc = "create"]
  <2>0. "create" \in RulePcs /\ job[j] \in RuleJobs
    BY JobOf DEF RulePcs
  <2>1. /\ q \in RuleJobs /\ q.pc = "create" /\ q.kind = job[j].kind /\ q.seen = job[j].seen /\ q.at = job[j].at
        /\ q.todo = job[j].todo /\ q.alone = job[j].alone /\ q.ok = job[j].ok /\ q.def = job[j].def
        /\ q.unseen = job[j].unseen
    BY <2>0, RulesAt
  <2>2. job' = [job EXCEPT ![j] = q]
    BY <1>3 DEF R!Go
  <2> HIDE DEF q
  <2>3. Control(q) /\ Live(q)
    BY <1>1, <1>2, <2>1, RulesConstants DEF Control, Idle, InLoop, Looped, Applies, Live
  <2>4. Memory(q, rules, made)
    BY <1>1, <1>2, <2>1, JobOf DEF Memory
  <2>5. ASSUME q.alone, Catalog[q.at].name \notin q.unseen PROVE \A i \in DOMAIN rules : rules[i].name # Catalog[q.at].name
    <3>1. \A s \in job[j].seen : s.rule.name # Catalog[q.at].name
      BY <1>3, <2>1 DEF R!Existing, R!Wanted
    <3>2. \A i \in DOMAIN rules : rules[i].name = Catalog[q.at].name => \E s \in job[j].seen : s.rule.name = rules[i].name
      <4>1. Ahead(job[j], job[j].at) /\ job[j].alone /\ Own(job[j], rules, doubled)
        BY <1>1, <1>2, <2>1, <2>5, JobOf, RulesConstants DEF Ahead
      <4> QED
        BY <1>2, <2>1, <2>5, <4>1 DEF Own
    <3> QED
      BY <3>1, <3>2
  <2>6. \A n \in DOMAIN Catalog : Ahead(q, n) => Ahead(job[j], n)
    BY <1>1, <1>2, <2>1, RulesConstants DEF Ahead
  <2>7. Own(q, rules, doubled)
    BY <1>2, <2>1, <2>5, <2>6, JobOf, OwnCarries
  <2> QED
    BY <1>1, <2>1, <2>2, <2>3, <2>4, <2>7, RulesMove
<1>4. ASSUME NEW s \in R!Existing(j), job' = [job EXCEPT ![j].pc = "delete", ![j].id = s.id] PROVE RulesInv'
  <2>1. s \in job[j].seen /\ s.rule.name = Catalog[job[j].at].name
    BY <1>4 DEF R!Existing, R!Wanted
  <2>2. s.id \in Nat
    BY <2>1, JobOf DEF RuleJobs
  <2>3. PICK q : q = [job[j] EXCEPT !.pc = "delete", !.id = s.id]
    OBVIOUS
  <2>4. /\ q \in RuleJobs /\ q.pc = "delete" /\ q.kind = job[j].kind /\ q.seen = job[j].seen /\ q.at = job[j].at
        /\ q.id = s.id /\ q.todo = job[j].todo /\ q.alone = job[j].alone /\ q.ok = job[j].ok /\ q.def = job[j].def
        /\ q.unseen = job[j].unseen
    BY <2>2, <2>3, JobOf DEF RuleJobs, RulePcs
  <2>5. job' = [job EXCEPT ![j] = q]
    BY <1>4, <2>3
  <2>6. Control(q) /\ Live(q)
    BY <1>1, <1>2, <2>4, RulesConstants DEF Control, Idle, InLoop, Looped, Applies, Live
  <2>7. Memory(q, rules, made)
    BY <1>1, <1>2, <2>1, <2>4, JobOf DEF Memory
  <2>8. Own(q, rules, doubled)
    <3>1. \A n \in DOMAIN Catalog : Ahead(q, n) => Ahead(job[j], n)
      BY <1>1, <2>4 DEF Ahead
    <3> QED
      BY <1>2, <2>4, <3>1, JobOf, OwnCarries
  <2> QED
    BY <1>1, <2>4, <2>5, <2>6, <2>7, <2>8, RulesMove
<1> QED
  BY <1>3, <1>4 DEF R!Upsert

(* What a DELETE may do.                                                   *)
LEMMA Shrunk ==
  ASSUME RulesInv, NEW id, NEW gone \in BOOLEAN,
         rules' = [i \in DOMAIN rules \ (IF gone THEN {id} ELSE {}) |-> rules[i]], UNCHANGED <<made, doubled>>,
         id \in DOMAIN rules => rules[id].name \in R!InCatalog \cup {R!CanaryName} \/ R!Prunable(rules[id])
  PROVE  /\ Evolves /\ Kept /\ Once(rules', doubled')
         /\ DOMAIN rules' \subseteq DOMAIN rules /\ \A i \in DOMAIN rules' : rules'[i] = rules[i]
         /\ \A i \in DOMAIN rules : i # id => i \in DOMAIN rules'
<1>1. /\ DOMAIN rules' \subseteq DOMAIN rules /\ \A i \in DOMAIN rules' : rules'[i] = rules[i]
      /\ \A i \in DOMAIN rules : i # id => i \in DOMAIN rules'
  OBVIOUS
<1>2. Evolves
  <2>1. made \in 0..MaxRules /\ MaxRules \in Nat
    BY RulesConstants DEF RulesInv, RulesTypes
  <2> QED
    BY <1>1, <2>1 DEF Evolves, RulesInv, RulesTypes
<1>3. Once(rules', doubled')
  BY <1>1 DEF RulesInv, Once
<1>4. Kept
  <2>1. ASSUME NEW i \in DOMAIN Legacy, Legacy[i].source = "none", Legacy[i].name \notin R!InCatalog \cup {R!CanaryName}
        PROVE  i \in DOMAIN rules'
    <3>1. i \in DOMAIN rules /\ rules[i] = Legacy[i]
      BY <2>1 DEF RulesInv, Heirlooms
    <3>2. i # id
      BY <2>1, <3>1 DEF R!Prunable
    <3> QED
      BY <1>1, <3>1, <3>2
  <2> QED
    BY <2>1 DEF Kept
<1> QED
  BY <1>1, <1>2, <1>3, <1>4

(* Where a job goes on after a definition.                                 *)
LEMMA PcOf ==
  ASSUME NEW at \in Nat
  PROVE  /\ R!Pc(at) = IF at > Len(Catalog) THEN "prune" ELSE "upsert"
         /\ R!Pc(at) \in RulePcs /\ R!Pc(at) \in {"prune", "upsert"}
  BY DEF R!Pc, RulePcs

(* An apply goes on to the next definition.                                *)
LEMMA NextDefinition ==
  ASSUME RulesInv, NEW j \in Jobs, InLoop(job[j]), NEW ok \in BOOLEAN, ok => job[j].ok,
         Evolves, doubled \subseteq doubled',
         job[j].alone =>
           \A i \in DOMAIN rules', n \in DOMAIN Catalog :
             n > job[j].at /\ rules'[i].name = Catalog[n].name => i \in DOMAIN rules,
         job[j].alone /\ ok =>
           \A n \in DOMAIN Catalog : n <= job[j].at => Applied(rules', job[j].def, n)
  PROVE  LET q == [job[j] EXCEPT !.ok = ok, !.at = job[j].at + 1, !.pc = R!Pc(job[j].at + 1),
                               !.unseen = job[j].unseen \ {Catalog[job[j].at].name}]
         IN  /\ q \in RuleJobs /\ Live(q) /\ q.alone = job[j].alone /\ q.pc # "green"
             /\ Control(q) /\ Memory(q, rules', made') /\ Own(q, rules', doubled')
<1>1. PICK q : q = [job[j] EXCEPT !.ok = ok, !.at = job[j].at + 1, !.pc = R!Pc(job[j].at + 1),
                               !.unseen = job[j].unseen \ {Catalog[job[j].at].name}]
  OBVIOUS
<1>2. job[j].at \in 1..Len(Catalog) /\ Applies(job[j]) /\ job[j].kind \in R!JobKinds /\ job[j].todo = {}
  BY JobOf, RulesConstants DEF Control, InLoop, Idle
<1>3. job[j].at + 1 \in Nat /\ job[j].at + 1 \in 1..Len(Catalog) + 1
  BY <1>2, RulesConstants
<1>4. /\ q \in RuleJobs /\ q.kind = job[j].kind /\ q.def = job[j].def /\ q.seen = job[j].seen /\ q.at = job[j].at + 1
      /\ q.todo = {} /\ q.alone = job[j].alone /\ q.ok = ok /\ q.pc = R!Pc(job[j].at + 1)
      /\ q.unseen = job[j].unseen \ {Catalog[job[j].at].name}
  BY <1>1, <1>2, <1>3, PcOf, JobOf DEF RuleJobs
<1>5. q.pc \in {"prune", "upsert"} /\ (q.pc = "prune" <=> q.at > Len(Catalog))
  BY <1>3, <1>4, PcOf
<1>6. Live(q) /\ Control(q)
  BY <1>2, <1>3, <1>4, <1>5, RulesConstants DEF Live, Control, Idle, InLoop, Looped, Applies
<1>7. Memory(q, rules', made')
  <2>1. \A id \in 1..made : id \in 1..made' /\ (id \in DOMAIN rules' => id \in DOMAIN rules /\ rules'[id] = rules[id])
    BY JobOf, RulesConstants DEF Evolves
  <2> QED
    BY <1>4, <1>5, <2>1, JobOf DEF Memory
<1>8. Own(q, rules', doubled')
  <2> SUFFICES ASSUME q.alone PROVE Own(q, rules', doubled')
    BY DEF Own
  <2>1. \A s, t \in q.seen : s.rule.name = t.rule.name /\ s.rule.name \in R!InCatalog \ doubled' => s = t
    BY <1>4, JobOf DEF Own
  <2>2. ASSUME NEW i \in DOMAIN rules', NEW n \in DOMAIN Catalog, n >= q.at, rules'[i].name = Catalog[n].name,
               Catalog[n].name \notin q.unseen
        PROVE  \E s \in q.seen : s.id = i /\ s.rule.name = rules'[i].name
    <3>1. n > job[j].at /\ Ahead(job[j], n)
      BY <1>2, <1>4, <2>2, RulesConstants DEF Ahead
    <3>2. i \in DOMAIN rules /\ rules'[i] = rules[i]
      BY <1>4, <2>2, <3>1 DEF Evolves
    <3>3. Catalog[n].name \notin job[j].unseen
      BY <1>2, <1>4, <2>2, <3>1, RulesConstants
    <3> QED
      BY <1>4, <2>2, <3>1, <3>2, <3>3, JobOf DEF Own
  <2>3. q.ok => \A n \in DOMAIN Catalog : n < q.at => Applied(rules', q.def, n)
    BY <1>2, <1>4, RulesConstants
  <2> QED
    BY <1>5, <2>1, <2>2, <2>3 DEF Own, Ahead
<1> QED
  BY <1>1, <1>4, <1>5, <1>6, <1>7, <1>8

LEMMA RulesDelete == ASSUME RulesInv, NEW j \in Jobs, R!Delete(j) PROVE RulesInv'
<1>1. PICK gone \in BOOLEAN, answer \in R!Answers :
        /\ rules' = [i \in DOMAIN rules \ (IF gone THEN {job[j].id} ELSE {}) |-> rules[i]]
        /\ CASE answer = "unreadable" ->
                  job' = [job EXCEPT ![j].pc = "create", ![j].unseen = @ \cup {R!Wanted(j).name}]
             [] answer = "list" /\ R!Deleted(rules', job[j].id) -> R!Go(j, "create")
             [] OTHER -> R!Past(j, FALSE)
  BY DEF R!Delete
<1>2. job[j].pc = "delete" /\ Live(job[j]) /\ UNCHANGED <<made, channel, dashboard, tip, doubled>>
  BY DEF R!Delete, R!At, Live
<1>3. /\ InLoop(job[j]) /\ Applies(job[j]) /\ job[j].at \in DOMAIN Catalog /\ job[j].kind \in R!JobKinds /\ job[j].todo = {}
      /\ channel' \in BOOLEAN /\ dashboard' \in Nat
  BY <1>2, JobOf, RulesConstants DEF Control, InLoop, Idle, RulesInv, RulesTypes
<1>4. PICK s \in job[j].seen : s.id = job[j].id /\ s.rule.name = Catalog[job[j].at].name
  BY <1>2, JobOf DEF Memory
<1>5. job[j].id \in DOMAIN rules => rules[job[j].id].name = Catalog[job[j].at].name
  BY <1>4, JobOf DEF Memory
<1>6. /\ Evolves /\ Kept /\ Once(rules', doubled')
      /\ DOMAIN rules' \subseteq DOMAIN rules /\ \A i \in DOMAIN rules' : rules'[i] = rules[i]
      /\ \A i \in DOMAIN rules : i # job[j].id => i \in DOMAIN rules'
  BY <1>1, <1>2, <1>3, <1>5, RulesConstants, Shrunk
<1>7. ASSUME NEW n \in DOMAIN Catalog, n < job[j].at, Applied(rules, job[j].def, n) PROVE Applied(rules', job[j].def, n)
  <2>1. PICK i \in DOMAIN rules : rules[i].name = Catalog[n].name /\ rules[i].def = job[j].def
    BY <1>7 DEF Applied
  <2>2. n # job[j].at
    BY <1>3, <1>7, RulesConstants
  <2>3. i # job[j].id
    BY <1>3, <1>5, <2>1, <2>2, RulesConstants
  <2> QED
    BY <1>6, <2>1, <2>3 DEF Applied
<1>8. ASSUME NEW q \in RuleJobs, job' = [job EXCEPT ![j] = q], q.pc = "create", q.kind = job[j].kind,
             q.seen = job[j].seen, q.at = job[j].at, q.todo = job[j].todo, q.alone = job[j].alone, q.ok = job[j].ok,
             q.def = job[j].def, job[j].unseen \subseteq q.unseen,
             R!Deleted(rules', job[j].id) \/ Catalog[job[j].at].name \in q.unseen
      PROVE  RulesInv'
  <2>1. /\ q \in RuleJobs /\ q.pc = "create" /\ q.kind = job[j].kind /\ q.seen = job[j].seen /\ q.at = job[j].at
        /\ q.todo = job[j].todo /\ q.alone = job[j].alone /\ q.ok = job[j].ok /\ q.def = job[j].def
    BY <1>8
  <2>2. job' = [job EXCEPT ![j] = q]
    BY <1>8
  <2>3. Control(q) /\ ~Idle(q) /\ q.pc # "green"
    BY <1>2, <1>3, <2>1, RulesConstants DEF Control, Idle, InLoop, Looped, Applies
  <2>4. Memory(q, rules', made')
    <3>1. \A t \in q.seen : t.id \in 1..made /\ (t.id \in DOMAIN rules => rules[t.id] = t.rule)
      BY <2>1, JobOf DEF Memory
    <3> QED
      BY <1>2, <1>3, <1>6, <2>1, <3>1 DEF Memory
  <2>5. ASSUME q.alone, Catalog[q.at].name \notin doubled \cup q.unseen, NEW i \in DOMAIN rules', rules'[i].name = Catalog[q.at].name
        PROVE  FALSE
    <3>1. Ahead(job[j], job[j].at) /\ Own(job[j], rules, doubled) /\ job[j].alone
      BY <1>2, <1>3, <2>1, <2>5, JobOf, RulesConstants DEF Ahead
    <3>2. PICK t \in job[j].seen : t.id = i /\ t.rule.name = Catalog[job[j].at].name
      BY <1>3, <1>6, <1>8, <2>1, <2>5, <3>1 DEF Own
    <3>3. t = s
      BY <1>3, <1>4, <2>1, <2>5, <3>1, <3>2, RulesConstants DEF Own
    <3> QED
      BY <1>4, <1>8, <2>5, <3>2, <3>3 DEF R!Deleted
  <2>6. Own(q, rules', doubled')
    <3> SUFFICES ASSUME q.alone PROVE Own(q, rules', doubled')
      BY DEF Own
    <3>1. \A t, u \in q.seen : t.rule.name = u.rule.name /\ t.rule.name \in R!InCatalog \ doubled' => t = u
      BY <1>2, <1>3, <2>1, JobOf DEF Own
    <3>2. ASSUME NEW i \in DOMAIN rules', NEW n \in DOMAIN Catalog, n > q.at, rules'[i].name = Catalog[n].name,
                 Catalog[n].name \notin q.unseen
          PROVE  \E t \in q.seen : t.id = i /\ t.rule.name = rules'[i].name
      <4>1. Ahead(job[j], n) /\ Own(job[j], rules, doubled)
        BY <1>2, <1>3, <2>1, <3>2, JobOf, RulesConstants DEF Ahead
      <4> QED
        BY <1>3, <1>6, <1>8, <2>1, <3>2, <4>1 DEF Own
    <3>3. q.ok => \A n \in DOMAIN Catalog : n < q.at => Applied(rules', q.def, n)
      BY <1>3, <1>7, <2>1, JobOf DEF Own
    <3> QED
      BY <1>2, <2>1, <2>5, <3>1, <3>2, <3>3 DEF Own, Ahead
  <2> QED
    BY <1>2, <1>3, <1>6, <2>1, <2>2, <2>3, <2>4, <2>6, RulesFrame
<1>9. CASE R!Past(j, FALSE)
  <2> DEFINE q == [job[j] EXCEPT !.ok = FALSE, !.at = job[j].at + 1, !.pc = R!Pc(job[j].at + 1),
                                !.unseen = job[j].unseen \ {Catalog[job[j].at].name}]
  <2>1. /\ q \in RuleJobs /\ Live(q) /\ q.alone = job[j].alone /\ q.pc # "green"
        /\ Control(q) /\ Memory(q, rules', made') /\ Own(q, rules', doubled')
    BY <1>2, <1>3, <1>6, NextDefinition
  <2>2. job' = [job EXCEPT ![j] = q]
    BY <1>9 DEF R!Past, R!Wanted
  <2> HIDE DEF q
  <2>3. ~Idle(q)
    BY <2>1 DEF Live, Idle
  <2> QED
    BY <1>2, <1>3, <1>6, <2>1, <2>2, <2>3, RulesFrame
<1>10. CASE R!Deleted(rules', job[j].id) /\ R!Go(j, "create")
  <2> DEFINE q == [job[j] EXCEPT !.pc = "create"]
  <2>0. "create" \in RulePcs /\ job[j] \in RuleJobs
    BY JobOf DEF RulePcs
  <2>1. /\ q \in RuleJobs /\ q.pc = "create" /\ q.kind = job[j].kind /\ q.seen = job[j].seen /\ q.at = job[j].at
        /\ q.todo = job[j].todo /\ q.alone = job[j].alone /\ q.ok = job[j].ok /\ q.def = job[j].def
        /\ q.unseen = job[j].unseen
    BY <2>0, RulesAt
  <2>2. job' = [job EXCEPT ![j] = q]
    BY <1>10 DEF R!Go
  <2> HIDE DEF q
  <2> QED
    BY <1>8, <1>10, <2>1, <2>2
<1>11. CASE job' = [job EXCEPT ![j].pc = "create", ![j].unseen = @ \cup {R!Wanted(j).name}]
  <2>1. PICK names : names = job[j].unseen \cup {Catalog[job[j].at].name}
    OBVIOUS
  <2>2. names \subseteq R!InCatalog
    BY <1>3, <2>1, JobOf, RulesConstants DEF RuleJobs
  <2>3. PICK q : q = [job[j] EXCEPT !.pc = "create", !.unseen = names]
    OBVIOUS
  <2>4. /\ q \in RuleJobs /\ q.pc = "create" /\ q.kind = job[j].kind /\ q.seen = job[j].seen /\ q.at = job[j].at
        /\ q.todo = job[j].todo /\ q.alone = job[j].alone /\ q.ok = job[j].ok /\ q.def = job[j].def
        /\ q.unseen = names
    BY <2>2, <2>3, JobOf DEF RuleJobs, RulePcs
  <2>5. job' = [job EXCEPT ![j] = q]
    BY <1>11, <2>1, <2>3 DEF R!Wanted
  <2> QED
    BY <1>8, <2>1, <2>4, <2>5
<1> QED
  BY <1>1, <1>9, <1>10, <1>11 DEF R!Answers

(* What a job posts.                                                       *)
LEMMA PayloadIs ==
  ASSUME RulesInv, NEW j \in Jobs, job[j].pc = "create"
  PROVE  /\ R!Payload(j) \in SignozRules
         /\ Applies(job[j]) => R!Payload(j).name = Catalog[job[j].at].name /\ R!Payload(j).def = job[j].def
         /\ job[j].kind = "canary" => R!Payload(j).name = R!CanaryName
         /\ job[j].kind \in R!JobKinds
<1>1. job[j].kind \in R!JobKinds /\ job[j].def \in Nat /\ (Applies(job[j]) => job[j].at \in DOMAIN Catalog)
  BY JobOf, RulesConstants DEF Control, Idle, InLoop
<1>2. 1 \in DOMAIN Catalog /\ \A n \in DOMAIN Catalog : Catalog[n].name \in RuleNames /\ Catalog[n].signal \in R!Signals
  BY RulesConstants DEF RuleNames
<1>3. CASE job[j].kind = "canary"
  <2>1. R!CanaryName \in RuleNames
    BY DEF RuleNames
  <2> QED
    BY <1>1, <1>3, <2>1 DEF R!Payload, R!MetricRule, SignozRules, R!Sources, R!Signals, Applies
<1>4. CASE job[j].kind = "ensure"
  BY <1>1, <1>2, <1>4 DEF R!Payload, R!LogRule, SignozRules, R!Sources, R!Signals, Applies
<1>5. CASE Applies(job[j])
  <2>1. R!Payload(j) = R!CatalogRule(Catalog[job[j].at], job[j].def)
    BY <1>5 DEF R!Payload, R!Wanted, Applies
  <2> QED
    BY <1>1, <1>2, <1>5, <2>1 DEF R!CatalogRule, R!LogRule, R!MetricRule, SignozRules, R!Sources, R!Signals, Applies
<1> QED
  BY <1>1, <1>3, <1>4, <1>5 DEF R!JobKinds, Applies

(* What a POST may do.                                                     *)
LEMMA Posted ==
  ASSUME RulesInv, NEW j \in Jobs, job[j].pc = "create", made < MaxRules, made' = made + 1,
         rules' = [i \in DOMAIN rules \cup {made + 1} |-> IF i = made + 1 THEN R!Payload(j) ELSE rules[i]],
         doubled' = IF job[j].kind = "ensure" \/ ~job[j].alone \/ R!Payload(j).name \in job[j].unseen
                    THEN doubled \cup {R!Payload(j).name} ELSE doubled
  PROVE  /\ Evolves /\ Kept /\ Once(rules', doubled') /\ doubled \subseteq doubled'
         /\ DOMAIN rules' = DOMAIN rules \cup {made'} /\ rules'[made'] = R!Payload(j)
         /\ \A i \in DOMAIN rules : i # made' /\ rules'[i] = rules[i]
<1>1. made \in Nat /\ MaxRules \in Nat /\ DOMAIN rules \subseteq 1..made
  BY JobOf, RulesConstants DEF RulesInv, RulesTypes
<1>2. made + 1 \notin DOMAIN rules
  BY <1>1
<1>3. /\ DOMAIN rules' = DOMAIN rules \cup {made'} /\ rules'[made'] = R!Payload(j)
      /\ \A i \in DOMAIN rules : i # made' /\ rules'[i] = rules[i]
  BY <1>2
<1>4. Evolves
  <2>1. made' \in made..MaxRules /\ made' > made /\ made' \in 1..made'
    BY <1>1
  <2>2. \A i \in DOMAIN rules : i \in 1..made' /\ rules[i] \in SignozRules
    BY <1>1 DEF RulesInv, RulesTypes
  <2> QED
    BY <1>3, <2>1, <2>2, PayloadIs DEF Evolves
<1>5. Kept
  BY <1>3 DEF Kept, RulesInv, Heirlooms
<1>6. doubled \subseteq doubled'
  OBVIOUS
<1>7. ASSUME R!Payload(j).name \in R!InCatalog \ doubled', NEW i \in DOMAIN rules PROVE rules[i].name # R!Payload(j).name
  <2>1. job[j].kind # "ensure" /\ job[j].alone /\ R!Payload(j).name \notin doubled \cup job[j].unseen
    BY <1>7
  <2>2. job[j].kind # "canary"
    BY <1>7, PayloadIs, RulesConstants
  <2>3. Applies(job[j])
    BY <2>1, <2>2, PayloadIs DEF R!JobKinds, Applies
  <2>4. Own(job[j], rules, doubled) /\ R!Payload(j).name = Catalog[job[j].at].name
    BY <2>3, JobOf, PayloadIs
  <2> QED
    BY <2>1, <2>3, <2>4 DEF Own, InLoop
<1>8. Once(rules', doubled')
  <2>1. ASSUME NEW i \in DOMAIN rules', NEW k \in DOMAIN rules', rules'[i].name = rules'[k].name,
               rules'[i].name \in R!InCatalog \ doubled'
        PROVE  i = k
    <3>1. CASE i \in DOMAIN rules /\ k \in DOMAIN rules
      BY <1>3, <1>6, <2>1, <3>1 DEF RulesInv, Once
    <3>2. CASE i = made' /\ k \in DOMAIN rules
      BY <1>3, <1>7, <2>1, <3>2
    <3>3. CASE k = made' /\ i \in DOMAIN rules
      BY <1>3, <1>7, <2>1, <3>3
    <3> QED
      BY <1>3, <3>1, <3>2, <3>3
  <2> QED
    BY <2>1 DEF Once
<1> QED
  BY <1>3, <1>4, <1>5, <1>6, <1>8

LEMMA RulesCreate == ASSUME RulesInv, NEW j \in Jobs, R!Create(j) PROVE RulesInv'
<1>1. PICK done \in BOOLEAN, heard \in BOOLEAN :
        /\ heard => done
        /\ IF done
           THEN /\ made < MaxRules
                /\ made' = made + 1
                /\ rules' = [i \in DOMAIN rules \cup {made + 1} |-> IF i = made + 1 THEN R!Payload(j) ELSE rules[i]]
                /\ doubled' = IF job[j].kind = "ensure" \/ ~job[j].alone \/ R!Payload(j).name \in job[j].unseen
                              THEN doubled \cup {R!Payload(j).name} ELSE doubled
           ELSE UNCHANGED <<made, rules, doubled>>
        /\ CASE job[j].kind = "ensure" -> R!End(j, IF heard THEN "green" ELSE "red")
             [] job[j].kind = "canary" ->
                  IF heard THEN job' = [job EXCEPT ![j].pc = "resolve", ![j].id = made'] ELSE R!End(j, "red")
             [] OTHER -> R!Past(j, heard /\ job[j].ok)
  BY DEF R!Create
<1>2. job[j].pc = "create" /\ Live(job[j]) /\ UNCHANGED <<channel, dashboard, tip>>
  BY DEF R!Create, R!At, Live
<1>3. channel' \in BOOLEAN /\ dashboard' \in Nat /\ job[j].kind \in R!JobKinds /\ made \in Nat
  BY <1>2, JobOf, PayloadIs DEF RulesInv, RulesTypes
<1>4. /\ Evolves /\ Kept /\ Once(rules', doubled') /\ doubled \subseteq doubled'
      /\ \A i \in DOMAIN rules : i \in DOMAIN rules' /\ rules'[i] = rules[i]
      /\ \A i \in DOMAIN rules' : i \notin DOMAIN rules => rules'[i] = R!Payload(j)
      /\ done => made' \in DOMAIN rules' /\ rules'[made'] = R!Payload(j) /\ made' = made + 1
  <2>1. CASE done
    <3>1. /\ Evolves /\ Kept /\ Once(rules', doubled') /\ doubled \subseteq doubled'
          /\ DOMAIN rules' = DOMAIN rules \cup {made'} /\ rules'[made'] = R!Payload(j)
          /\ \A i \in DOMAIN rules : i # made' /\ rules'[i] = rules[i]
      BY <1>1, <1>2, <2>1, Posted
    <3> QED
      BY <1>1, <2>1, <3>1
  <2>2. CASE ~done
    <3>1. UNCHANGED <<made, rules, doubled>>
      BY <1>1, <2>2
    <3> QED
      BY <2>2, <3>1, NothingChanges DEF RulesInv
  <2> QED
    BY <2>1, <2>2
<1>5. CASE job[j].kind = "ensure"
  <2>1. PICK k \in {"green", "red"} : R!End(j, k)
    BY <1>1, <1>5
  <2> QED
    BY <1>2, <1>3, <1>4, <1>5, <2>1, RulesEnd DEF Applies
<1>6. CASE job[j].kind = "canary" /\ R!End(j, "red")
  BY <1>2, <1>3, <1>4, <1>6, RulesEnd
<1>7. CASE job[j].kind = "canary" /\ heard /\ job' = [job EXCEPT ![j].pc = "resolve", ![j].id = made']
  <2>1. PICK n \in Nat : n = made'
    BY <1>1, <1>3, <1>4, <1>7
  <2>2. PICK q : q = [job[j] EXCEPT !.pc = "resolve", !.id = n]
    OBVIOUS
  <2>3. /\ q \in RuleJobs /\ q.pc = "resolve" /\ q.kind = "canary" /\ q.seen = job[j].seen /\ q.todo = job[j].todo
        /\ q.id = n /\ q.alone = job[j].alone
    BY <1>7, <2>1, <2>2, JobOf DEF RuleJobs, RulePcs
  <2>4. job' = [job EXCEPT ![j] = q]
    BY <1>7, <2>1, <2>2
  <2>5. Control(q) /\ ~Idle(q) /\ Own(q, rules', doubled')
    BY <1>2, <1>3, <1>7, <2>3, JobOf DEF Control, Own, Idle, InLoop, Looped
  <2>6. Memory(q, rules', made')
    <3>1. \A id \in 1..made : id \in 1..made' /\ (id \in DOMAIN rules' => id \in DOMAIN rules /\ rules'[id] = rules[id])
      BY <1>3, <1>4, RulesConstants DEF Evolves
    <3>2. n \in 1..made' /\ rules'[n].name = R!CanaryName
      BY <1>1, <1>2, <1>3, <1>4, <1>7, <2>1, PayloadIs
    <3>3. job[j].todo = {}
      BY <1>2, JobOf DEF Control
    <3> QED
      BY <2>3, <3>1, <3>2, <3>3, JobOf DEF Memory
  <2> QED
    BY <1>2, <1>3, <1>4, <2>3, <2>4, <2>5, <2>6, RulesFrame
<1>8. CASE job[j].kind \notin {"ensure", "canary"}
  <2>1. Applies(job[j]) /\ InLoop(job[j])
    BY <1>2, <1>3, <1>8 DEF Applies, InLoop, R!JobKinds
  <2>2. job[j].at \in DOMAIN Catalog /\ R!Payload(j).name = Catalog[job[j].at].name /\ R!Payload(j).def = job[j].def
    BY <1>2, <2>1, JobOf, PayloadIs, RulesConstants DEF Control
  <2>3. PICK ok \in BOOLEAN : ok = (heard /\ job[j].ok)
    OBVIOUS
  <2>4. ASSUME NEW i \in DOMAIN rules', NEW n \in DOMAIN Catalog, n > job[j].at, rules'[i].name = Catalog[n].name
        PROVE  i \in DOMAIN rules
    <3>1. n # job[j].at
      BY <2>2, <2>4, RulesConstants
    <3> QED
      BY <1>4, <2>2, <2>4, <3>1, RulesConstants
  <2>5. ASSUME job[j].alone, ok, NEW n \in DOMAIN Catalog, n <= job[j].at PROVE Applied(rules', job[j].def, n)
    <3>1. CASE n = job[j].at
      BY <1>1, <1>4, <2>2, <2>3, <2>5, <3>1 DEF Applied
    <3>2. CASE n < job[j].at
      <4>1. Applied(rules, job[j].def, n)
        BY <2>1, <2>3, <2>5, <3>2, JobOf DEF Own
      <4> QED
        BY <1>4, <4>1 DEF Applied
    <3> QED
      BY <2>2, <2>5, <3>1, <3>2, RulesConstants
  <2> DEFINE q == [job[j] EXCEPT !.ok = ok, !.at = job[j].at + 1, !.pc = R!Pc(job[j].at + 1),
                                !.unseen = job[j].unseen \ {Catalog[job[j].at].name}]
  <2>6. /\ q \in RuleJobs /\ Live(q) /\ q.alone = job[j].alone /\ q.pc # "green"
        /\ Control(q) /\ Memory(q, rules', made') /\ Own(q, rules', doubled')
    BY <1>4, <2>1, <2>3, <2>4, <2>5, NextDefinition
  <2>7. job' = [job EXCEPT ![j] = q]
    BY <1>1, <1>8, <2>3 DEF R!Past, R!Wanted
  <2> HIDE DEF q
  <2>8. ~Idle(q)
    BY <2>6 DEF Live, Idle
  <2> QED
    BY <1>2, <1>3, <1>4, <2>6, <2>7, <2>8, RulesFrame
<1> QED
  BY <1>1, <1>3, <1>5, <1>6, <1>7, <1>8

LEMMA RulesPlanPrune == ASSUME RulesInv, NEW j \in Jobs, R!PlanPrune(j) PROVE RulesInv'
<1>1. /\ job[j].pc = "prune" /\ Live(job[j]) /\ UNCHANGED <<rules, made, channel, dashboard, tip, doubled>>
      /\ channel' \in BOOLEAN
  BY DEF R!PlanPrune, R!At, Live, R!signoz, RulesInv, RulesTypes
<1>2. Looped(job[j]) /\ Applies(job[j]) /\ job[j].at = Len(Catalog) + 1 /\ job[j].kind \in R!JobKinds
  BY <1>1, JobOf DEF Control, Looped, Idle
<1>3. PICK todo : /\ todo = IF job[j].kind = "prune" THEN {s.id : s \in {t \in job[j].seen : R!Prunable(t.rule)}} ELSE {}
                  /\ job' = [job EXCEPT ![j].pc = "pruning", ![j].todo = todo]
  BY DEF R!PlanPrune
<1>4. \A id \in todo : \E s \in job[j].seen : s.id = id /\ R!Prunable(s.rule)
  BY <1>3
<1>5. todo \in SUBSET Nat
  BY <1>4, JobOf DEF RuleJobs
<1>6. PICK q : q = [job[j] EXCEPT !.pc = "pruning", !.todo = todo]
  OBVIOUS
<1>7. /\ q \in RuleJobs /\ q.pc = "pruning" /\ q.kind = job[j].kind /\ q.seen = job[j].seen /\ q.at = job[j].at
      /\ q.todo = todo /\ q.alone = job[j].alone /\ q.ok = job[j].ok /\ q.def = job[j].def
      /\ q.unseen = job[j].unseen
  BY <1>5, <1>6, JobOf DEF RuleJobs, RulePcs
<1>8. job' = [job EXCEPT ![j] = q]
  BY <1>3, <1>6
<1>9. Control(q) /\ Live(q)
  BY <1>2, <1>7, RulesConstants DEF Control, Idle, InLoop, Looped, Applies, Live
<1>10. Memory(q, rules, made)
  BY <1>4, <1>7, JobOf DEF Memory
<1>11. Own(q, rules, doubled)
  <2>1. \A n \in DOMAIN Catalog : Ahead(q, n) => Ahead(job[j], n)
    BY <1>1, <1>7 DEF Ahead
  <2> QED
    BY <1>2, <1>7, <2>1, JobOf, OwnCarries
<1> QED
  BY <1>1, <1>7, <1>8, <1>9, <1>10, <1>11, RulesMove

LEMMA RulesPrune == ASSUME RulesInv, NEW j \in Jobs, R!Prune(j) PROVE RulesInv'
<1>1. /\ job[j].pc = "pruning" /\ Live(job[j]) /\ UNCHANGED <<made, channel, dashboard, tip, doubled>>
      /\ channel' \in BOOLEAN /\ dashboard' \in Nat
  BY DEF R!Prune, R!At, Live, RulesInv, RulesTypes
<1>2. Looped(job[j]) /\ Applies(job[j]) /\ job[j].at = Len(Catalog) + 1 /\ job[j].kind \in R!JobKinds
  BY <1>1, JobOf DEF Control, Looped, Idle
<1>3. CASE UNCHANGED rules /\ R!End(j, "red")
  BY <1>1, <1>3, RulesStop
<1>4. CASE job[j].todo = {} /\ job[j].ok /\ R!Go(j, "dashboard") /\ UNCHANGED rules
  <2> DEFINE q == [job[j] EXCEPT !.pc = "dashboard"]
  <2>0. "dashboard" \in RulePcs /\ job[j] \in RuleJobs
    BY JobOf DEF RulePcs
  <2>1. /\ q \in RuleJobs /\ q.pc = "dashboard" /\ q.kind = job[j].kind /\ q.seen = job[j].seen /\ q.at = job[j].at
        /\ q.todo = job[j].todo /\ q.alone = job[j].alone /\ q.ok = job[j].ok /\ q.def = job[j].def
        /\ q.unseen = job[j].unseen
    BY <2>0, RulesAt
  <2>2. job' = [job EXCEPT ![j] = q]
    BY <1>4 DEF R!Go
  <2> HIDE DEF q
  <2>3. Control(q) /\ Live(q)
    BY <1>2, <1>4, <2>1, RulesConstants DEF Control, Idle, InLoop, Looped, Applies, Live
  <2>4. Memory(q, rules, made)
    BY <1>4, <2>1, JobOf DEF Memory
  <2>5. Own(q, rules, doubled)
    <3>1. \A n \in DOMAIN Catalog : Ahead(q, n) => Ahead(job[j], n)
      BY <1>1, <2>1 DEF Ahead
    <3> QED
      BY <1>2, <2>1, <3>1, JobOf, OwnCarries
  <2> QED
    BY <1>1, <1>4, <2>1, <2>2, <2>3, <2>4, <2>5, RulesMove
<1>5. ASSUME NEW id \in job[j].todo, NEW gone \in BOOLEAN, NEW answer \in R!Answers,
             rules' = [i \in DOMAIN rules \ (IF gone THEN {id} ELSE {}) |-> rules[i]],
             job' = [job EXCEPT ![j].todo = @ \ {id},
                       ![j].ok = @ /\ (answer = "unreadable" \/ (answer = "list" /\ R!Deleted(rules', id)))]
      PROVE  RulesInv'
  <2>1. PICK s \in job[j].seen : s.id = id /\ R!Prunable(s.rule)
    BY JobOf DEF Memory
  <2>2. id \in DOMAIN rules => R!Prunable(rules[id])
    BY <2>1, JobOf DEF Memory
  <2>3. /\ Evolves /\ Kept /\ Once(rules', doubled')
        /\ DOMAIN rules' \subseteq DOMAIN rules /\ \A i \in DOMAIN rules' : rules'[i] = rules[i]
        /\ \A i \in DOMAIN rules : i # id => i \in DOMAIN rules'
    BY <1>1, <1>5, <2>2, Shrunk
  <2>4. PICK ok \in BOOLEAN : ok = (job[j].ok /\ (answer = "unreadable" \/ (answer = "list" /\ R!Deleted(rules', id))))
    OBVIOUS
  <2>5. PICK todo : todo = job[j].todo \ {id}
    OBVIOUS
  <2>6. PICK q : q = [job[j] EXCEPT !.todo = todo, !.ok = ok]
    OBVIOUS
  <2>7. job' = [job EXCEPT ![j] = q]
    BY <1>5, <2>4, <2>5, <2>6
  <2>8. todo \in SUBSET Nat
    BY <2>5, JobOf DEF RuleJobs
  <2>9. /\ q \in RuleJobs /\ q.pc = "pruning" /\ q.kind = job[j].kind /\ q.seen = job[j].seen /\ q.at = job[j].at
        /\ q.todo = todo /\ q.alone = job[j].alone /\ q.ok = ok /\ q.def = job[j].def
        /\ q.unseen = job[j].unseen
    BY <1>1, <2>6, <2>8, JobOf DEF RuleJobs
  <2>10. Control(q) /\ ~Idle(q)
    BY <1>2, <2>9, RulesConstants DEF Control, Idle, InLoop, Looped, Applies
  <2>11. Memory(q, rules', made')
    <3>1. \A t \in q.seen : t.id \in 1..made' /\ (t.id \in DOMAIN rules' => rules'[t.id] = t.rule)
      BY <1>1, <2>3, <2>9, JobOf DEF Memory
    <3>2. \A i \in q.todo : \E t \in q.seen : t.id = i /\ R!Prunable(t.rule)
      BY <2>5, <2>9, JobOf DEF Memory
    <3> QED
      BY <2>9, <3>1, <3>2 DEF Memory
  <2>12. Own(q, rules', doubled')
    <3> SUFFICES ASSUME q.alone PROVE Own(q, rules', doubled')
      BY DEF Own
    <3>1. Own(job[j], rules, doubled)
      BY JobOf
    <3>2. \A t, u \in q.seen : t.rule.name = u.rule.name /\ t.rule.name \in R!InCatalog \ doubled' => t = u
      BY <1>1, <1>2, <2>9, <3>1 DEF Own
    <3>3. \A n \in DOMAIN Catalog : ~Ahead(q, n)
      BY <1>2, <2>9, RulesConstants DEF Ahead
    <3>4. ASSUME q.ok, NEW n \in DOMAIN Catalog, n < q.at PROVE Applied(rules', q.def, n)
      <4>1. Applied(rules, job[j].def, n)
        BY <1>2, <2>4, <2>9, <3>1, <3>4 DEF Own
      <4>2. PICK i \in DOMAIN rules : rules[i].name = Catalog[n].name /\ rules[i].def = job[j].def
        BY <4>1 DEF Applied
      <4>3. i # id
        BY <2>2, <4>2, RulesConstants DEF R!Prunable
      <4> QED
        BY <2>3, <2>9, <4>2, <4>3 DEF Applied
    <3> QED
      BY <2>9, <3>2, <3>3, <3>4 DEF Own
  <2> QED
    BY <1>1, <2>3, <2>7, <2>9, <2>10, <2>11, <2>12, RulesFrame
<1> QED
  BY <1>3, <1>4, <1>5 DEF R!Prune

LEMMA RulesDashboard == ASSUME RulesInv, NEW j \in Jobs, R!Dashboard(j) PROVE RulesInv'
<1>1. /\ job[j].pc = "dashboard" /\ Live(job[j]) /\ UNCHANGED <<rules, made, channel, tip, doubled>>
      /\ channel' \in BOOLEAN
  BY DEF R!Dashboard, R!At, Live, RulesInv, RulesTypes
<1>2. dashboard' \in Nat
  BY JobOf DEF R!Dashboard, RulesInv, RulesTypes
<1>3. PICK k \in {"green", "red"} : R!End(j, k)
  BY DEF R!Dashboard
<1>4. ASSUME job[j].alone, NEW n \in DOMAIN Catalog PROVE Applied(rules, job[j].def, n)
  <2>1. Looped(job[j]) /\ job[j].ok /\ job[j].at = Len(Catalog) + 1 /\ Own(job[j], rules, doubled)
    BY <1>1, JobOf DEF Control, Looped
  <2>2. n < job[j].at
    BY <2>1, RulesConstants
  <2> QED
    BY <1>4, <2>1, <2>2 DEF Own
<1> QED
  BY <1>1, <1>2, <1>3, <1>4, RulesStop

LEMMA RulesResolve == ASSUME RulesInv, NEW j \in Jobs, R!Resolve(j) PROVE RulesInv'
<1>1. /\ job[j].pc = "resolve" /\ Live(job[j]) /\ UNCHANGED <<made, channel, dashboard, tip, doubled>>
      /\ channel' \in BOOLEAN /\ dashboard' \in Nat
  BY DEF R!Resolve, R!At, Live, RulesInv, RulesTypes
<1>2. CASE UNCHANGED rules /\ R!End(j, "red")
  BY <1>1, <1>2, RulesStop
<1>3. ASSUME NEW gone \in BOOLEAN, NEW k \in {"green", "red"}, R!End(j, k),
             rules' = [i \in DOMAIN rules \ (IF gone THEN {job[j].id} ELSE {}) |-> rules[i]]
      PROVE  RulesInv'
  <2>1. job[j].id \in DOMAIN rules => rules[job[j].id].name = R!CanaryName
    BY <1>1, JobOf DEF Memory
  <2>2. Evolves /\ Kept /\ Once(rules', doubled')
    BY <1>1, <1>3, <2>1, Shrunk
  <2>3. ~Applies(job[j])
    BY <1>1, JobOf DEF Control, Applies
  <2> QED
    BY <1>1, <1>3, <2>2, <2>3, RulesEnd
<1> QED
  BY <1>2, <1>3 DEF R!Resolve

LEMMA RulesNext == ASSUME RulesInv, [Next]_vars PROVE RulesInv'
<1>1. CASE R!Next
  BY <1>1, RulesMerge, RulesStart, RulesChannel, RulesList, RulesUpsert, RulesDelete, RulesCreate, RulesPlanPrune,
     RulesPrune, RulesDashboard, RulesResolve, RulesDie DEF R!Next
<1> QED
  BY <1>1, RulesStep, RulesUnchanged

LEMMA RulesAlways == Spec => []RulesInv
<1>1. Init => RulesInv
  BY InitParts, RulesInit
<1> QED
  BY <1>1, RulesNext, PTL DEF Spec

LEMMA RulesSafe == RulesInv => R!TypeOK /\ GreenApplyMeansCatalog
<1> SUFFICES ASSUME RulesInv PROVE R!TypeOK /\ GreenApplyMeansCatalog
  OBVIOUS
<1>1. R!TypeOK
  <2>1. \A i \in DOMAIN rules :
          rules[i] \in [name : R!InCatalog \cup {R!CanaryName} \cup {Legacy[n].name : n \in DOMAIN Legacy}, def : Nat,
                        source : R!Sources, signal : R!Signals]
    BY DEF RulesInv, RulesTypes, SignozRules, RuleNames
  <2>2. ASSUME NEW j \in Jobs
        PROVE  /\ job[j].kind \in R!JobKinds \cup {"none"} /\ job[j].at \in 1..Len(Catalog) + 1
               /\ job[j].todo \subseteq 1..made
    <3>1. job[j].todo \subseteq 1..made
      BY JobOf DEF Memory
    <3> QED
      BY <3>1, JobOf DEF RuleJobs, RuleKinds
  <2> QED
    BY <2>1, <2>2 DEF RulesInv, RulesTypes, R!TypeOK
<1>2. ASSUME NEW j \in Jobs, R!At(j, "green"), job[j].kind \in {"apply", "prune"}, job[j].alone,
             \A k \in Jobs : k > j => R!At(k, "idle"), NEW name \in R!InCatalog
      PROVE  /\ \E i \in R!Named(name) : rules[i].def = job[j].def
             /\ name \notin doubled => Cardinality(R!Named(name)) = 1
  <2>1. PICK n \in DOMAIN Catalog : Catalog[n].name = name
    BY DEF R!InCatalog
  <2>2. Applied(rules, job[j].def, n)
    BY <1>2 DEF RulesInv, Greens, Applies, Last, Idle, R!At
  <2>3. PICK i \in R!Named(name) : rules[i].def = job[j].def
    BY <2>1, <2>2 DEF Applied, R!Named
  <2>4. ASSUME name \notin doubled PROVE R!Named(name) = {i}
    BY <1>2, <2>3, <2>4 DEF R!Named, RulesInv, Once
  <2> QED
    BY <2>3, <2>4, FS_Singleton
<1>3. \A i \in DOMAIN Legacy :
        Legacy[i].source = "none" /\ Legacy[i].name \notin R!InCatalog \cup {R!CanaryName} => i \in DOMAIN rules
  BY DEF RulesInv, Heirlooms
<1>4. GreenApplyMeansCatalog
  BY <1>2, <1>3 DEF GreenApplyMeansCatalog, R!GreenApplyMeansCatalog, R!Cardinality, Cardinality
<1> QED
  BY <1>1, <1>4

(* An apply of its own that ends green has put its catalog into SigNoz     *)
(* (apply_alerts): the rule of every alert is the one it applied and,      *)
(* unless a job made a second one blindly (by hand, beside another job, or *)
(* after a list that it could not read), the only one of its name, and no  *)
(* rule that a person made is gone, for any catalog, any rules before it   *)
(* and any jobs, however many of them failed or died half way.             *)
THEOREM GreenApplyCorrect == Spec => []GreenApplyMeansCatalog
  BY RulesAlways, RulesSafe, PTL

-----------------------------------------------------------------------------
(* The watchdog.                                                           *)
LEMMA WatchStep == [Next]_vars => W!Next \/ UNCHANGED ofWatch
  BY DEF Next, vars, Previews, Sidecar, Bridge, Rules, Audit, Drift, Watch

(* What the constants of the watchdog are.                                 *)
LEMMA WatchConstants ==
  /\ Heartbeat \notin Routes /\ Preflight \notin Routes \cup {Heartbeat}
  /\ MinWrite \in Nat /\ MaxAge \in Nat /\ Renotify \in Nat /\ CronEvery \in Nat \ {0}
  /\ Faults \subseteq {"post", "put", "delivery", "config"}
  /\ W!Horizon \in Nat /\ W!Patience \in Nat \ {0} /\ MaxAge < W!Horizon /\ MinWrite < W!Horizon
  BY ChecksAssumption DEF ChecksAssumption, W!WatchdogAssumption, W!Horizon, W!Patience

(* What a heartbeat may change.                                            *)
LEMMA HeartbeatFacts ==
  ASSUME W!TypeOK, W!HeartbeatAgeIsHonest, NEW ok \in BOOLEAN, W!RecordHeartbeat(ok)
  PROVE  /\ silence' \in 0..W!Horizon
         /\ beat' \in [ok : BOOLEAN, age : 0..W!Horizon]
         /\ put' \in {"none", "heartbeat"}
         /\ faulty' \in BOOLEAN
         /\ faulty => faulty'
         /\ W!HeartbeatAgeIsHonest'
<1>1. CASE W!Throttled(ok) /\ silence' = 0 /\ put' = "none" /\ UNCHANGED <<beat, faulty>>
  BY <1>1, WatchConstants DEF W!Throttled, W!TypeOK, W!HeartbeatAgeIsHonest
<1>2. CASE silence' = 0 /\ beat' = [ok |-> ok, age |-> 0] /\ put' = "heartbeat" /\ UNCHANGED faulty
  BY <1>2, WatchConstants DEF W!TypeOK, W!HeartbeatAgeIsHonest
<1>3. CASE silence' = 0 /\ put' = "none" /\ faulty' = TRUE /\ UNCHANGED beat
  BY <1>3, WatchConstants DEF W!TypeOK, W!HeartbeatAgeIsHonest
<1>4. CASE put' = "none" /\ faulty' = TRUE /\ UNCHANGED <<beat, silence>>
  BY <1>4 DEF W!TypeOK, W!HeartbeatAgeIsHonest
<1> QED
  BY <1>1, <1>2, <1>3, <1>4 DEF W!RecordHeartbeat

-----------------------------------------------------------------------------
(* The types, with the honest age that HeartbeatFacts needs.               *)
LEMMA WatchTypes == W!TypeOK /\ W!HeartbeatAgeIsHonest /\ [W!Next]_(W!vars) => W!TypeOK'
<1> SUFFICES ASSUME W!TypeOK, W!HeartbeatAgeIsHonest, [W!Next]_(W!vars) PROVE W!TypeOK'
  OBVIOUS
<1>1. CASE W!Iterate
  <2>1. \E ok \in BOOLEAN : W!RecordHeartbeat(ok)
    BY <1>1 DEF W!Iterate
  <2>2. UNCHANGED <<W!run, parses>> /\ runner' \in {"start", "probing", "sleep", "down"}
    BY <1>1 DEF W!Iterate
  <2> QED
    BY <2>1, <2>2, HeartbeatFacts DEF W!TypeOK, W!run
<1>2. CASE W!Probed
  <2>1. \E ok \in BOOLEAN : W!RecordHeartbeat(ok)
    BY <1>2 DEF W!Probed
  <2>2. UNCHANGED <<W!run, parses>> /\ runner' \in {"start", "probing", "sleep", "down"}
    BY <1>2 DEF W!Probed
  <2> QED
    BY <2>1, <2>2, HeartbeatFacts DEF W!TypeOK, W!run
<1>3. CASE W!RunnerDies
  BY <1>3 DEF W!RunnerDies, W!run, W!TypeOK
<1>4. CASE W!RunnerStarts
  BY <1>4 DEF W!RunnerStarts, W!run, W!TypeOK
<1>5. CASE W!Check
  <2>1. W!FailingHeartbeat \subseteq W!Checks /\ {Preflight} \subseteq W!Checks /\ Routes \subseteq W!Checks
    BY DEF W!FailingHeartbeat, W!Checks
  <2>2. failing' \in SUBSET W!Checks /\ cron' \in {"ledger", "notify"}
    BY <1>5, <2>1 DEF W!Check
  <2>3. due' \in 0..CronEvery
    BY <1>5, WatchConstants DEF W!Check
  <2> QED
    BY <1>5, <2>2, <2>3 DEF W!Check, W!loop, W!TypeOK
<1>6. CASE W!RecordLedger
  <2>1. W!NoSpell \in [of : SUBSET W!Checks, for : 0..W!Patience]
    BY WatchConstants DEF W!NoSpell
  <2>2. /\ cron' \in {"idle", "notify"} /\ put' \in {"none", "ledger"}
        /\ failing' = failing \/ failing' = {}
        /\ spell' = spell \/ spell' = W!NoSpell
        /\ faulty' = faulty \/ faulty' = TRUE
        /\ UNCHANGED <<W!loop, parses, due, unsent, incident, lastRun, notified, quiet>>
    BY <1>6 DEF W!RecordLedger
  <2>3. /\ failing' \in SUBSET W!Checks /\ faulty' \in BOOLEAN
        /\ spell' \in [of : SUBSET W!Checks, for : 0..W!Patience]
    BY <2>1, <2>2, Zenon DEF W!TypeOK
  <2>4. /\ cron' \in {"idle", "ledger", "notify", "record", "finish"}
        /\ put' \in {"none", "heartbeat", "ledger", "alert", "last-run"}
    BY <2>2
  <2> QED
    BY <2>2, <2>3, <2>4 DEF W!loop, W!TypeOK
<1>7. CASE W!NothingToSend
  BY <1>7 DEF W!NothingToSend, W!loop, W!TypeOK
<1>8. CASE W!Deliver
  BY <1>8, WatchConstants DEF W!Deliver, W!loop, W!TypeOK
<1>9. CASE W!DeliveryFails
  BY <1>9, WatchConstants DEF W!DeliveryFails, W!loop, W!TypeOK
<1>10. CASE W!RecordAlert
  <2>1. [active |-> failing # {}, failures |-> failing, age |-> 0]
          \in [active : BOOLEAN, failures : SUBSET W!Checks, age : 0..Renotify]
    <3>1. 0 \in 0..Renotify
      BY WatchConstants
    <3>2. failing \in SUBSET W!Checks /\ (failing # {}) \in BOOLEAN
      BY Zenon DEF W!TypeOK
    <3> QED
      BY <3>1, <3>2, Zenon
  <2> QED
    BY <1>10, <2>1 DEF W!RecordAlert, W!loop, W!TypeOK
<1>11. CASE W!Finish
  <2>1. W!AtMost(spell.for + CronEvery, W!Patience) \in 0..W!Patience
    BY WatchConstants DEF W!TypeOK, W!AtMost
  <2>2. spell' \in [of : SUBSET W!Checks, for : 0..W!Patience]
    BY <1>11, <2>1, WatchConstants DEF W!Finish, W!TypeOK, W!NoSpell, W!Longer
  <2> QED
    BY <1>11, <2>2 DEF W!Finish, W!loop, W!TypeOK
<1>12. CASE W!Configure
  BY <1>12 DEF W!Configure, W!loop, W!run, W!TypeOK
<1>13. CASE W!Tick
  <2>1. /\ W!AtMost(silence + 1, W!Horizon) \in 0..W!Horizon
        /\ W!AtMost(beat.age + 1, W!Horizon) \in 0..W!Horizon
        /\ W!AtMost(incident.age + 1, Renotify) \in 0..Renotify
        /\ W!AtMost(quiet + 1, Renotify) \in 0..Renotify
    BY WatchConstants DEF W!TypeOK, W!AtMost
  <2>2. due' \in 0..CronEvery
    BY <1>13, WatchConstants DEF W!Tick, W!TypeOK
  <2> QED
    BY <1>13, <2>1, <2>2 DEF W!Tick, W!TypeOK
<1>14. CASE UNCHANGED W!vars
  BY <1>14 DEF W!vars, W!loop, W!run, W!TypeOK
<1> QED
  BY <1>1, <1>2, <1>3, <1>4, <1>5, <1>6, <1>7, <1>8, <1>9, <1>10, <1>11, <1>12, <1>13, <1>14 DEF W!Next

LEMMA BeatStep == W!TypeOK /\ W!HeartbeatAgeIsHonest /\ [W!Next]_(W!vars) => W!HeartbeatAgeIsHonest'
<1> SUFFICES ASSUME W!TypeOK, W!HeartbeatAgeIsHonest, [W!Next]_(W!vars) PROVE W!HeartbeatAgeIsHonest'
  OBVIOUS
<1>1. CASE W!Iterate \/ W!Probed
  <2>1. \E ok \in BOOLEAN : W!RecordHeartbeat(ok)
    BY <1>1 DEF W!Iterate, W!Probed
  <2> QED
    BY <2>1, HeartbeatFacts
<1>2. CASE W!Tick
  <2>1. /\ silence' = W!AtMost(silence + 1, W!Horizon)
        /\ beat' = [beat EXCEPT !.age = W!AtMost(@ + 1, W!Horizon)]
        /\ UNCHANGED faulty
    BY <1>2 DEF W!Tick
  <2> QED
    BY <2>1, WatchConstants DEF W!TypeOK, W!HeartbeatAgeIsHonest, W!AtMost
<1>3. CASE W!RunnerDies \/ W!RunnerStarts
  BY <1>3 DEF W!RunnerDies, W!RunnerStarts, W!HeartbeatAgeIsHonest
<1>4. CASE UNCHANGED <<W!loop, faulty>>
  BY <1>4 DEF W!loop, W!HeartbeatAgeIsHonest
<1>5. CASE UNCHANGED W!loop /\ faulty'
  BY <1>5 DEF W!loop, W!HeartbeatAgeIsHonest
<1>6. CASE W!Check \/ W!NothingToSend \/ W!Deliver \/ W!Configure
  BY <1>4, <1>6 DEF W!Check, W!NothingToSend, W!Deliver, W!Configure
<1>7. CASE W!RecordLedger \/ W!DeliveryFails \/ W!RecordAlert \/ W!Finish
  BY <1>4, <1>5, <1>7 DEF W!RecordLedger, W!DeliveryFails, W!RecordAlert, W!Finish
<1>8. CASE UNCHANGED W!vars
  BY <1>4, <1>8 DEF W!vars
<1> QED
  BY <1>1, <1>2, <1>3, <1>6, <1>7, <1>8 DEF W!Next

-----------------------------------------------------------------------------
(* The alert state, once a run has recorded it: what the operator was told *)
(* and no more recent than that.                                           *)
AlertKept ==
  /\ cron = "record" => notified = failing
  /\ ~faulty /\ cron # "record" =>
       /\ incident.active <=> notified # {}
       /\ incident.active => incident.failures = notified
       /\ incident.age <= quiet

(* A heartbeat that fails makes the behaviour faulty.                      *)
LEMMA FaultyStays ==
  ASSUME W!TypeOK, NEW ok \in BOOLEAN, W!RecordHeartbeat(ok) PROVE faulty => faulty'
BY DEF W!RecordHeartbeat

LEMMA AlertStep == W!TypeOK /\ AlertKept /\ [W!Next]_(W!vars) => AlertKept'
<1> SUFFICES ASSUME W!TypeOK, AlertKept, [W!Next]_(W!vars) PROVE AlertKept'
  OBVIOUS
<1>1. CASE W!Iterate
  <2>1. (faulty => faulty') /\ UNCHANGED W!run
    BY <1>1, FaultyStays DEF W!Iterate
  <2> QED
    BY <2>1 DEF AlertKept, W!run
<1>2. CASE W!Probed
  <2>1. (faulty => faulty') /\ UNCHANGED W!run
    BY <1>2, FaultyStays DEF W!Probed
  <2> QED
    BY <2>1 DEF AlertKept, W!run
<1>3. CASE W!RunnerDies
  BY <1>3 DEF W!RunnerDies, W!run, AlertKept
<1>4. CASE W!RunnerStarts
  BY <1>4 DEF W!RunnerStarts, W!run, AlertKept
<1>5. CASE W!Check
  BY <1>5 DEF W!Check, W!loop, AlertKept
<1>6. CASE W!RecordLedger
  BY <1>6 DEF W!RecordLedger, W!loop, AlertKept
<1>7. CASE W!NothingToSend
  BY <1>7 DEF W!NothingToSend, W!loop, AlertKept
<1>8. CASE W!Deliver
  BY <1>8 DEF W!Deliver, W!loop, AlertKept
<1>9. CASE W!DeliveryFails
  BY <1>9 DEF W!DeliveryFails, W!loop, AlertKept
<1>10. CASE W!RecordAlert
  <2>1. cron = "record" /\ cron' = "finish" /\ UNCHANGED <<notified, quiet>>
    BY <1>10 DEF W!RecordAlert
  <2>2. CASE faulty'
    BY <2>1, <2>2 DEF AlertKept
  <2>3. CASE incident' = [active |-> failing # {}, failures |-> failing, age |-> 0]
    <3>1. incident'.active = (failing # {}) /\ incident'.failures = failing /\ incident'.age = 0
      BY <2>3, Zenon
    <3>2. notified = failing /\ 0 <= quiet
      BY <2>1, WatchConstants DEF AlertKept, W!TypeOK
    <3> QED
      BY <2>1, <3>1, <3>2 DEF AlertKept
  <2> QED
    BY <1>10, <2>2, <2>3 DEF W!RecordAlert
<1>11. CASE W!Finish
  BY <1>11 DEF W!Finish, W!loop, AlertKept
<1>12. CASE W!Configure
  BY <1>12 DEF W!Configure, W!loop, W!run, AlertKept
<1>13. CASE W!Tick
  <2>1. /\ incident' = [incident EXCEPT !.age = W!AtMost(@ + 1, Renotify)]
        /\ quiet' = W!AtMost(quiet + 1, Renotify)
        /\ UNCHANGED <<cron, notified, faulty>> /\ cron = "idle"
    BY <1>13 DEF W!Tick
  <2>2. incident.age <= quiet => W!AtMost(incident.age + 1, Renotify) <= W!AtMost(quiet + 1, Renotify)
    BY WatchConstants DEF W!TypeOK, W!AtMost
  <2> QED
    BY <2>1, <2>2 DEF AlertKept, W!TypeOK
<1>14. CASE UNCHANGED W!vars
  BY <1>14 DEF W!vars, W!loop, W!run, AlertKept
<1> QED
  BY <1>1, <1>2, <1>3, <1>4, <1>5, <1>6, <1>7, <1>8, <1>9, <1>10, <1>11, <1>12, <1>13, <1>14 DEF W!Next

-----------------------------------------------------------------------------
(* While the same failures are found and the operator has not been told,   *)
(* the alert state, which says so wrongly, gets old with the spell.  Within *)
(* a run the clock of the next one stands.                                 *)
Overdue(n) == n <= incident.age + 1 \/ incident.age >= Renotify

SpellKept ==
  /\ cron # "idle" => due = CronEvery
  /\ cron = "record" => notified = failing
  /\ cron = "idle" /\ spell.of # {} /\ notified # spell.of =>
       spell.for <= Renotify /\ Overdue(spell.for + (CronEvery - due))
  /\ cron \in {"ledger", "notify"} /\ spell.of # {} /\ notified # spell.of =>
       Overdue(spell.for + CronEvery)
  /\ cron = "finish" /\ ~unsent /\ failing # {} /\ notified # failing =>
       /\ incident.age < Renotify
       /\ spell.of = failing => spell.for + CronEvery <= incident.age + 1

LEMMA SpellStep == W!TypeOK /\ SpellKept /\ [W!Next]_(W!vars) => SpellKept'
<1> SUFFICES ASSUME W!TypeOK, SpellKept, [W!Next]_(W!vars) PROVE SpellKept'
  OBVIOUS
<1>1. CASE W!Iterate
  BY <1>1 DEF W!Iterate, W!run, SpellKept, Overdue
<1>2. CASE W!Probed
  BY <1>2 DEF W!Probed, W!run, SpellKept, Overdue
<1>3. CASE W!RunnerDies
  BY <1>3 DEF W!RunnerDies, W!run, SpellKept, Overdue
<1>4. CASE W!RunnerStarts
  BY <1>4 DEF W!RunnerStarts, W!run, SpellKept, Overdue
<1>5. CASE W!Check
  <2>1. /\ due = 0 /\ due' = CronEvery /\ cron = "idle" /\ cron' \in {"ledger", "notify"}
        /\ UNCHANGED <<incident, notified, spell>>
    BY <1>5 DEF W!Check
  <2> QED
    BY <2>1, WatchConstants DEF SpellKept, Overdue, W!TypeOK
<1>6. CASE W!RecordLedger
  BY <1>6 DEF W!RecordLedger, W!loop, SpellKept, Overdue, W!NoSpell
<1>7. CASE W!NothingToSend
  <2>1. /\ cron = "notify" /\ cron' = "finish" /\ ~W!ShouldSend
        /\ UNCHANGED <<due, failing, unsent, incident, notified, spell>>
    BY <1>7 DEF W!NothingToSend
  <2>2. failing # {} => incident.age < Renotify
    BY <2>1, WatchConstants DEF W!ShouldSend, W!TypeOK
  <2> QED
    BY <2>1, <2>2, WatchConstants DEF SpellKept, Overdue, W!TypeOK
<1>8. CASE W!Deliver
  BY <1>8 DEF W!Deliver, W!loop, SpellKept, Overdue
<1>9. CASE W!DeliveryFails
  BY <1>9 DEF W!DeliveryFails, W!loop, SpellKept, Overdue
<1>10. CASE W!RecordAlert
  BY <1>10 DEF W!RecordAlert, W!loop, SpellKept, Overdue
<1>11. CASE W!Finish
  <2>1. /\ cron = "finish" /\ cron' = "idle" /\ UNCHANGED <<due, incident, notified>>
        /\ spell' = IF unsent THEN W!NoSpell ELSE W!Longer
    BY <1>11 DEF W!Finish
  <2>2. CASE unsent
    BY <2>1, <2>2 DEF SpellKept, W!NoSpell
  <2>3. CASE ~unsent
    <3>1. /\ spell' = W!Longer /\ spell'.of = failing
          /\ spell'.for = IF spell.of = failing THEN W!AtMost(spell.for + CronEvery, W!Patience) ELSE 1
      BY <2>1, <2>3 DEF W!Longer
    <3>2. W!AtMost(spell.for + CronEvery, W!Patience) <= spell.for + CronEvery
      BY WatchConstants DEF W!TypeOK, W!AtMost
    <3>3. W!AtMost(spell.for + CronEvery, W!Patience) \in Nat
      BY WatchConstants DEF W!TypeOK, W!AtMost
    <3>4. CASE failing = {} \/ notified = failing
      BY <2>1, <3>1, <3>4 DEF SpellKept
    <3>5. CASE failing # {} /\ notified # failing
      <4>1. /\ incident.age < Renotify /\ due = CronEvery
            /\ spell.of = failing => spell.for + CronEvery <= incident.age + 1
        BY <2>1, <2>3, <3>5 DEF SpellKept
      <4>2. spell'.for <= incident.age + 1 /\ spell'.for \in Nat
        BY <3>1, <3>2, <3>3, <4>1, WatchConstants DEF W!TypeOK
      <4>3. spell'.for <= Renotify /\ spell'.for + (CronEvery - due) <= incident.age + 1
        BY <4>1, <4>2, WatchConstants DEF W!TypeOK
      <4> QED
        BY <2>1, <4>3 DEF SpellKept, Overdue
    <3> QED
      BY <3>4, <3>5
  <2> QED
    BY <2>2, <2>3
<1>12. CASE W!Configure
  BY <1>12 DEF W!Configure, W!run, SpellKept, Overdue
<1>13. CASE W!Tick
  <2>1. /\ cron = "idle" /\ due > 0 /\ due' = due - 1
        /\ incident' = [incident EXCEPT !.age = W!AtMost(@ + 1, Renotify)]
        /\ UNCHANGED <<cron, notified, spell>>
    BY <1>13 DEF W!Tick
  <2>2. incident'.age = W!AtMost(incident.age + 1, Renotify)
    BY <2>1 DEF W!TypeOK
  <2>3. Overdue(spell.for + (CronEvery - due)) => Overdue(spell.for + (CronEvery - due))'
    BY <2>1, <2>2, WatchConstants DEF Overdue, W!TypeOK, W!AtMost
  <2> QED
    BY <2>1, <2>3 DEF SpellKept
<1>14. CASE UNCHANGED W!vars
  BY <1>14 DEF W!vars, W!loop, W!run, SpellKept, Overdue
<1> QED
  BY <1>1, <1>2, <1>3, <1>4, <1>5, <1>6, <1>7, <1>8, <1>9, <1>10, <1>11, <1>12, <1>13, <1>14 DEF W!Next

(* The inductive invariant of the watchdog.                                *)
WatchInv == W!TypeOK /\ W!HeartbeatAgeIsHonest /\ AlertKept /\ SpellKept

LEMMA WatchInit == W!Init => WatchInv
<1> SUFFICES ASSUME W!Init PROVE WatchInv
  OBVIOUS
<1>1. W!TypeOK
  <2>1. /\ W!NoBeat \in [ok : BOOLEAN, age : 0..W!Horizon]
        /\ W!NoSpell \in [of : SUBSET W!Checks, for : 0..W!Patience]
    BY WatchConstants DEF W!NoBeat, W!NoSpell
  <2>2. W!NoAlert \in [active : BOOLEAN, failures : SUBSET W!Checks, age : 0..Renotify]
    BY WatchConstants DEF W!NoAlert
  <2>3. W!Horizon \in 0..W!Horizon /\ CronEvery \in 0..CronEvery /\ Renotify \in 0..Renotify
    BY WatchConstants
  <2> QED
    BY <2>1, <2>2, <2>3 DEF W!Init, W!TypeOK
<1>2. W!HeartbeatAgeIsHonest
  BY WatchConstants DEF W!Init, W!HeartbeatAgeIsHonest, W!NoBeat
<1>3. AlertKept
  BY WatchConstants DEF W!Init, AlertKept, W!NoAlert
<1>4. SpellKept
  BY DEF W!Init, SpellKept, W!NoSpell
<1> QED
  BY <1>1, <1>2, <1>3, <1>4 DEF WatchInv

LEMMA WatchNext == WatchInv /\ [Next]_vars => WatchInv'
<1>1. [Next]_vars => [W!Next]_(W!vars)
  BY WatchStep DEF ofWatch, W!vars, W!loop, W!run
<1> QED
  BY <1>1, WatchTypes, BeatStep, AlertStep, SpellStep DEF WatchInv

LEMMA WatchAlways == Spec => []WatchInv
<1>1. Init => WatchInv
  BY InitParts, WatchInit
<1> QED
  BY <1>1, WatchNext, PTL DEF Spec

(* recordHeartbeat's throttle: the stored heartbeat is never younger than  *)
(* the last one, and without faults at most the throttle older.            *)
THEOREM HeartbeatCorrect == Spec => []HeartbeatAgeIsHonest
<1>1. WatchInv => HeartbeatAgeIsHonest
  BY DEF WatchInv, HeartbeatAgeIsHonest
<1> QED
  BY WatchAlways, <1>1, PTL

(* notifyIfNeeded: between runs the alert state is what was told.          *)
THEOREM AlertCorrect == Spec => []AlertSaysWhatWasTold
<1>1. WatchInv => AlertSaysWhatWasTold
  BY DEF WatchInv, AlertKept, AlertSaysWhatWasTold, W!AlertSaysWhatWasTold
<1> QED
  BY WatchAlways, <1>1, PTL

(* Whatever failed before, an outage that stays is told in time.           *)
THEOREM OutageTold == Spec => []StableOutageIsTold
<1>1. WatchInv => StableOutageIsTold
  <2> SUFFICES ASSUME WatchInv, cron = "idle", spell.of # {}, spell.for > Renotify
               PROVE  notified = spell.of
    BY DEF StableOutageIsTold, W!StableOutageIsTold
  <2> QED
    BY WatchConstants DEF WatchInv, SpellKept, W!TypeOK
<1> QED
  BY WatchAlways, <1>1, PTL

(* notifyIfNeeded: the same message waits for the interval.                *)
THEOREM MessagesWait == Spec => SameMessageWaits
<1>1. WatchInv /\ W!Deliver /\ ~faulty /\ notified' = notified =>
        notified # {} /\ incident.age >= Renotify /\ quiet >= Renotify
  <2> SUFFICES ASSUME WatchInv, W!Deliver, ~faulty, notified' = notified
               PROVE  notified # {} /\ incident.age >= Renotify /\ quiet >= Renotify
    OBVIOUS
  <2>1. cron = "notify" /\ W!ShouldSend /\ failing = notified
    BY DEF W!Deliver
  <2>2. /\ incident.active <=> notified # {}
        /\ incident.active => incident.failures = notified
        /\ incident.age <= quiet
    BY <2>1 DEF WatchInv, AlertKept
  <2>3. notified # {} /\ incident.age >= Renotify
    BY <2>1, <2>2 DEF W!ShouldSend
  <2> QED
    BY <2>2, <2>3, WatchConstants DEF WatchInv, W!TypeOK
<1> QED
  BY WatchAlways, <1>1, PTL DEF Spec, SameMessageWaits, W!SameMessageWaits

-----------------------------------------------------------------------------
(* The seven invariants give every variable its type.                      *)
LEMMA TypesSafe ==
  PreviewInv /\ SidecarInv /\ BridgeInv /\ RulesInv /\ AuditInv /\ DriftInv /\ WatchInv => TypeOK
  BY PreviewSafe, SidecarSafe, BridgeSafe, RulesSafe, AuditSafe, DriftSafe DEF WatchInv, TypeOK

(* Every variable of the seven machines has its type.                      *)
THEOREM TypeCorrect == Spec => []TypeOK
  BY PreviewAlways, SidecarAlways, BridgeAlways, RulesAlways, AuditAlways, DriftAlways, WatchAlways, TypesSafe, PTL

=============================================================================
