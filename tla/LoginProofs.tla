---------------------------- MODULE LoginProofs ----------------------------
(***************************************************************************)
(* Theorems about Login, for every set of browsers, persons, challenges    *)
(* and workers, every sequence of allowlists and every bound.              *)
(***************************************************************************)
EXTENDS Login, TLAPS

USE LoginAssumption DEF Version, FlowId, NoFlow

(***************************************************************************)
(* Types.  TypeOK is not inductive alone: a handler indexes Hydra's and    *)
(* Redis's state with what it carries, which is there from some step on.   *)
(***************************************************************************)
\* What a request in progress carries, by handler.
Carries(work) ==
  /\ work.handler \in {"login", "consent", "decision"} => work.challenge \in Challenge
  /\ work.handler \in {"login", "callback"} => work.browser \in Browser
  /\ work.handler = "callback" => work.cookie \in FlowId /\ work.state \in FlowId
  /\ work.handler = "callback" /\ work.step # "start" => work.challenge \in Challenge

\* An authorization that was begun has a browser.
Begun(r) == \A c \in Challenge : r[c].phase # "unsent" => r[c].browser \in Browser

Typed ==
  /\ TypeOK
  /\ Begun(request)
  /\ \A w \in Worker : Carries(worker[w])

GoodWork == {work \in Work : Carries(work)}

LEMMA IdleType == Idle \in GoodWork /\ Idle.step = "start"
  BY DEF Idle, GoodWork, Carries, Work, Subject, Step

LEMMA UnsentType == Unsent \in Request
  BY DEF Unsent, Request, Phase, Subject

\* The changes a handler makes to the work in progress.
LEMMA WorkType ==
  ASSUME NEW work \in GoodWork
  PROVE  /\ \A v \in Version : [work EXCEPT !.version = v] \in GoodWork
         /\ \A s \in Step : work.step # "start" \/ work.handler # "callback"
                              => [work EXCEPT !.step = s] \in GoodWork
         /\ \A s \in Step, p \in Subject, e \in BOOLEAN :
              work.handler # "callback" =>
                [work EXCEPT !.subject = p, !.email = e, !.step = s] \in GoodWork
         /\ \A c \in Challenge, s \in Step :
              [work EXCEPT !.challenge = c, !.step = s] \in GoodWork
         /\ work.step # "start" => [work EXCEPT !.step = "accept", !.email = TRUE] \in GoodWork
<1> USE DEF Work, GoodWork, Carries
<1>1. \A v \in Version : [work EXCEPT !.version = v] \in GoodWork
  OBVIOUS
<1>2. \A s \in Step : work.step # "start" \/ work.handler # "callback"
                              => [work EXCEPT !.step = s] \in GoodWork
  OBVIOUS
<1>3. \A s \in Step, p \in Subject, e \in BOOLEAN : work.handler # "callback" =>
        [work EXCEPT !.subject = p, !.email = e, !.step = s] \in GoodWork
  OBVIOUS
<1>4. \A c \in Challenge, s \in Step : [work EXCEPT !.challenge = c, !.step = s] \in GoodWork
  OBVIOUS
<1>5. work.step # "start" => [work EXCEPT !.step = "accept", !.email = TRUE] \in GoodWork
  BY DEF Step
<1> QED
  BY <1>1, <1>2, <1>3, <1>4, <1>5

LEMMA WorkerType ==
  ASSUME Typed, NEW w \in Worker
  PROVE  /\ worker[w] \in GoodWork
         /\ worker \in [Worker -> GoodWork]
         /\ \A work \in GoodWork : Goto(w, work) => worker' \in [Worker -> GoodWork]
         /\ Return(w) => worker' \in [Worker -> GoodWork]
  BY IdleType DEF Typed, TypeOK, GoodWork, Goto, Return

\* A step of a handler that goes on is still a step of that handler.
LEMMA SameHandler ==
  ASSUME NEW work \in Work
  PROVE  \A s \in Step :
           /\ [work EXCEPT !.step = s].handler = work.handler
           /\ \A p \in Subject, e \in BOOLEAN :
                LET known == [work EXCEPT !.subject = p, !.email = e]
                IN [known EXCEPT !.step = s].handler = work.handler
  BY DEF Work

LEMMA OneWorker ==
  ASSUME Typed, NEW w \in Worker
  PROVE  /\ Return(w) => worker'[w] = Idle
         /\ \A work : Goto(w, work) => worker'[w] = work
         /\ \A work : Return(w) \/ Goto(w, work)
                       => \A x \in Worker \ {w} : worker'[x] = worker[x]
  BY DEF Typed, TypeOK, Return, Goto

LEMMA ReceiveType ==
  ASSUME Typed, NEW w \in Worker, NEW work \in GoodWork, Receive(w, work)
  PROVE  Typed'
<1>1. PICK v \in oldest..latest :
        worker' = [worker EXCEPT ![w] = [work EXCEPT !.version = v]]
  BY DEF Receive
<1>2. v \in Version
  BY DEF Typed, TypeOK
<1>3. [work EXCEPT !.version = v] \in GoodWork
  BY <1>2, WorkType
<1>4. worker' \in [Worker -> GoodWork]
  BY <1>1, <1>3, WorkerType
<1> QED
  BY <1>4 DEF Typed, TypeOK, GoodWork, Receive, hydra, flow, rollout

\* Moving an authorization on keeps the rest of what Hydra knows of it.
LEMMA PhaseType ==
  ASSUME Typed, NEW c \in Challenge, request[c].phase # "unsent", NEW p \in Phase,
         request' = [request EXCEPT ![c].phase = p]
  PROVE  request' \in [Challenge -> Request] /\ Begun(request')
<1>1. [request[c] EXCEPT !.phase = p] \in Request
  <2>1. request[c] \in Request
    BY DEF Typed, TypeOK
  <2> QED BY <2>1 DEF Request
<1>2. request' \in [Challenge -> Request]
  BY <1>1 DEF Typed, TypeOK
<1>3. \A d \in Challenge : request'[d].browser = request[d].browser
  BY DEF Typed, TypeOK, Request
<1>4. \A d \in Challenge : d # c => request'[d] = request[d]
  BY DEF Typed, TypeOK
<1> QED
  BY <1>2, <1>3, <1>4 DEF Typed, Begun

\* The answer of a handler that ends: Hydra's state is settled before it.
LEMMA RespondType ==
  ASSUME Typed, NEW w \in Worker, Respond(w), request' \in [Challenge -> Request],
         Begun(request'), session' = session, grants' \in SUBSET Challenge
  PROVE  Typed'
<1>1. worker' \in [Worker -> GoodWork]
  BY WorkerType DEF Respond
<1>2. jar' \in [Browser -> FlowId \cup {NoFlow}] /\ faults' \in 0..MaxFaults
  BY DEF Respond, Lost, Typed, TypeOK
<1> QED
  BY <1>1, <1>2 DEF Respond, Typed, TypeOK, GoodWork, rollout

\* Every variable keeps its type, and every handler carries what it uses.
LEMMA TypeStep == Typed /\ [Next]_vars => Typed'
<1> SUFFICES ASSUME Typed, [Next]_vars PROVE Typed'
  OBVIOUS
<1>1. ASSUME NEW c \in Challenge, FollowLogin(c) PROVE Typed'
  <2>1. request' \in [Challenge -> Request] /\ Begun(request')
    BY <1>1, PhaseType DEF FollowLogin, Phase
  <2>2. [subject |-> request[c].subject, email |-> request[c].email] \in Claims
    BY DEF Typed, TypeOK, Request, Claims
  <2>3. session' \in [Browser -> Claims]
    BY <1>1, <2>2 DEF FollowLogin, Typed, TypeOK
  <2> QED BY <1>1, <2>1, <2>3 DEF Typed, TypeOK, FollowLogin, flow, rollout
<1>2. ASSUME NEW c \in Challenge, NEW b \in Browser, Begin(c, b) PROVE Typed'
  <2> DEFINE new == [phase |-> "login", browser |-> b, skip |-> session[b].subject # Nobody,
                     subject |-> session[b].subject, email |-> session[b].email]
  <2>1. new \in Request
    BY DEF Typed, TypeOK, Claims, Request, Phase
  <2>2. request' = [request EXCEPT ![c] = new]
    BY <1>2 DEF Begin
  <2>3. request' \in [Challenge -> Request]
    BY <2>1, <2>2 DEF Typed, TypeOK
  <2>4. Begun(request')
    BY <2>2 DEF Typed, TypeOK, Begun
  <2> QED BY <1>2, <2>3, <2>4 DEF Typed, TypeOK, Begin, flow, rollout
<1>3. ASSUME NEW w \in Worker, NEW c \in Challenge, ReceiveLogin(w, c) PROVE Typed'
  <2>1. [Idle EXCEPT !.handler = "login", !.challenge = c,
                     !.browser = request[c].browser] \in GoodWork
    <3>1. request[c].browser \in Browser
      BY <1>3 DEF Typed, Begun, ReceiveLogin
    <3> QED BY <3>1, IdleType DEF GoodWork, Carries, Work, Handler
  <2> QED BY <1>3, <2>1, ReceiveType DEF ReceiveLogin
<1>4. ASSUME NEW w \in Worker, NEW c \in Challenge, ReceiveConsent(w, c) PROVE Typed'
  <2>1. [Idle EXCEPT !.handler = "consent", !.challenge = c] \in GoodWork
    BY IdleType DEF GoodWork, Carries, Work, Handler
  <2> QED BY <1>4, <2>1, ReceiveType DEF ReceiveConsent
<1>5. ASSUME NEW w \in Worker, NEW c \in Challenge, NEW approve \in BOOLEAN,
             ReceiveDecision(w, c, approve)
      PROVE  Typed'
  <2>1. [Idle EXCEPT !.handler = "decision", !.challenge = c,
                     !.step = IF approve THEN "start" ELSE "reject"] \in GoodWork
    BY IdleType DEF GoodWork, Carries, Work, Handler, Step
  <2> QED BY <1>5, <2>1, ReceiveType DEF ReceiveDecision
<1>6. ASSUME NEW w \in Worker, NEW t \in trips, NEW p \in Subject,
             ReceiveCallback(w, t, p)
      PROVE  Typed'
  <2>1. [Idle EXCEPT !.handler = "callback", !.browser = t.browser,
                     !.cookie = jar[t.browser], !.state = t.state,
                     !.subject = p] \in GoodWork
    <3>1. t.browser \in Browser /\ t.state \in FlowId /\ jar[t.browser] \in FlowId
      BY <1>6 DEF Typed, TypeOK, ReceiveCallback, Trip
    <3> QED BY <3>1, IdleType DEF GoodWork, Carries, Work, Handler
  <2> QED BY <1>6, <2>1, ReceiveType DEF ReceiveCallback
<1>7. ASSUME NEW w \in Worker, GetLogin(w) PROVE Typed'
  <2> DEFINE asked == request[worker[w].challenge]
  <2>1. worker[w].challenge \in Challenge
    BY <1>7 DEF Typed, Carries, GetLogin, At
  <2>2. asked.subject \in Subject /\ asked.email \in BOOLEAN
    BY <2>1 DEF Typed, TypeOK, Request
  <2>3. worker' \in [Worker -> GoodWork]
    BY <1>7, <2>2, WorkType, WorkerType DEF GetLogin, At, Step
  <2> QED BY <1>7, <2>3 DEF GetLogin, Typed, TypeOK, GoodWork, hydra, flow, rollout
<1>8. ASSUME NEW w \in Worker, CreateFlow(w) PROVE Typed'
  <2>1. worker[w].challenge \in Challenge /\ worker[w].browser \in Browser
    BY <1>8 DEF Typed, Carries, CreateFlow, At
  <2>2. worker' \in [Worker -> GoodWork]
    BY <1>8, WorkerType DEF CreateFlow
  <2>3. flows + 1 \in FlowId
    BY <1>8 DEF CreateFlow, Typed, TypeOK
  <2>4. jar' \in [Browser -> FlowId \cup {NoFlow}] /\ faults' \in 0..MaxFaults
    BY <1>8, <2>1, <2>3 DEF CreateFlow, Typed, TypeOK, Lost
  <2>5. [browser |-> worker[w].browser, state |-> flows + 1,
         for |-> worker[w].challenge] \in Trip
    BY <2>1, <2>3 DEF Trip
  <2>6. trips' \in SUBSET Trip
    BY <1>8, <2>5 DEF CreateFlow, Typed, TypeOK
  <2> QED BY <1>8, <2>1, <2>2, <2>3, <2>4, <2>6
          DEF CreateFlow, Typed, TypeOK, GoodWork, hydra, rollout
<1>9. ASSUME NEW w \in Worker, TakeFlow(w) PROVE Typed'
  <2>1. worker[w].cookie \in FlowId
    BY <1>9 DEF Typed, Carries, TakeFlow, At
  <2>2. worker' \in [Worker -> GoodWork]
    BY <1>9, <2>1, WorkType, WorkerType DEF TakeFlow, At, Typed, TypeOK, Step
  <2> QED BY <1>9, <2>1, <2>2
          DEF TakeFlow, Taken, Typed, TypeOK, GoodWork, hydra, rollout
<1>10. ASSUME NEW w \in Worker, ExchangeCode(w) PROVE Typed'
  <2>1. worker' \in [Worker -> GoodWork]
    BY <1>10, WorkType, WorkerType DEF ExchangeCode, At, Step
  <2> QED BY <1>10, <2>1
          DEF ExchangeCode, Typed, TypeOK, GoodWork, hydra, flow, rollout
<1>11. ASSUME NEW w \in Worker, GetConsent(w) PROVE Typed'
  <2> DEFINE asked == request[worker[w].challenge]
  <2>1. worker[w].challenge \in Challenge
    BY <1>11 DEF Typed, Carries, GetConsent, At
  <2>2. asked.subject \in Subject /\ asked.email \in BOOLEAN
    BY <2>1 DEF Typed, TypeOK, Request
  <2>3. worker' \in [Worker -> GoodWork]
    BY <1>11, <2>2, WorkType, WorkerType DEF GetConsent, At, Step
  <2> QED BY <1>11, <2>1, <2>3
          DEF GetConsent, Lost, Typed, TypeOK, GoodWork, hydra, flow, rollout
<1>12. ASSUME NEW w \in Worker, GetDecision(w) PROVE Typed'
  <2> DEFINE asked == request[worker[w].challenge]
  <2>1. worker[w].challenge \in Challenge
    BY <1>12 DEF Typed, Carries, GetDecision, At
  <2>2. asked.subject \in Subject /\ asked.email \in BOOLEAN
    BY <2>1 DEF Typed, TypeOK, Request
  <2>3. [worker[w] EXCEPT !.subject = asked.subject, !.email = asked.email,
                          !.step = "accept"] \in GoodWork
    BY <1>12, <2>2, WorkType, WorkerType DEF GetDecision, At, Step
  <2>4. [worker[w] EXCEPT !.step = "accept", !.subject = asked.subject,
                          !.email = asked.email]
        = [worker[w] EXCEPT !.subject = asked.subject, !.email = asked.email,
                            !.step = "accept"]
    BY WorkerType DEF GoodWork, Work
  <2>5. worker' \in [Worker -> GoodWork]
    BY <1>12, <2>3, <2>4, WorkerType DEF GetDecision
  <2> QED BY <1>12, <2>5
          DEF GetDecision, Typed, TypeOK, GoodWork, hydra, flow, rollout
<1>13. ASSUME NEW w \in Worker, RevokeConsents(w) PROVE Typed'
  <2>1. worker' \in [Worker -> GoodWork]
    BY <1>13, WorkType, WorkerType DEF RevokeConsents, At, Step
  <2> QED BY <1>13, <2>1
          DEF RevokeConsents, Typed, TypeOK, GoodWork, flow, rollout
<1>14. ASSUME NEW w \in Worker, RevokeLogins(w) PROVE Typed'
  <2>1. worker' \in [Worker -> GoodWork]
    BY <1>14, WorkType, WorkerType DEF RevokeLogins, At, Step
  <2>2. session' \in [Browser -> Claims]
    BY <1>14 DEF RevokeLogins, Typed, TypeOK, NoSession, Claims, Subject
  <2> QED BY <1>14, <2>1, <2>2
          DEF RevokeLogins, Typed, TypeOK, GoodWork, flow, rollout
<1>15. ASSUME NEW w \in Worker, RejectLogin(w) PROVE Typed'
  <2>1. worker[w].challenge \in Challenge
    BY <1>15 DEF Typed, Carries, RejectLogin, At
  <2>2. request' \in [Challenge -> Request] /\ Begun(request')
    BY <1>15, <2>1, PhaseType DEF RejectLogin, At, Open, Phase
  <2> QED BY <1>15, <2>2, RespondType DEF RejectLogin, Typed, TypeOK
<1>16. ASSUME NEW w \in Worker, AcceptLogin(w) PROVE Typed'
  <2>1. worker[w].challenge \in Challenge
    BY <1>16 DEF Typed, Carries, AcceptLogin, At
  <2>2. worker[w].subject \in Subject /\ worker[w].email \in BOOLEAN
    BY WorkerType DEF GoodWork, Work
  <2> DEFINE c == worker[w].challenge
             new == [request[c] EXCEPT !.phase = "accepted", !.subject = worker[w].subject,
                                       !.email = worker[w].email]
  <2>3. new \in Request /\ new.browser = request[c].browser
    <3>1. request[c] \in Request
      BY <2>1 DEF Typed, TypeOK
    <3> QED BY <2>2, <3>1 DEF Request, Phase
  <2>4. request' = [request EXCEPT ![c] = new]
    BY <1>16, <2>1 DEF AcceptLogin, Typed, TypeOK
  <2>5. request' \in [Challenge -> Request]
    BY <2>3, <2>4 DEF Typed, TypeOK
  <2>6. request[c].browser \in Browser
    BY <1>16, <2>1 DEF AcceptLogin, At, Open, Typed, Begun
  <2>7. Begun(request')
    BY <2>1, <2>3, <2>4, <2>6 DEF Typed, TypeOK, Begun
  <2> QED BY <1>16, <2>5, <2>7, RespondType DEF AcceptLogin, Typed, TypeOK
<1>17. ASSUME NEW w \in Worker, RejectConsent(w) PROVE Typed'
  <2>1. worker[w].challenge \in Challenge
    BY <1>17 DEF Typed, Carries, RejectConsent, At
  <2>2. request' \in [Challenge -> Request] /\ Begun(request')
    BY <1>17, <2>1, PhaseType DEF RejectConsent, At, Open, Phase
  <2> QED BY <1>17, <2>2, RespondType DEF RejectConsent, Typed, TypeOK
<1>18. ASSUME NEW w \in Worker, AcceptConsent(w) PROVE Typed'
  <2>1. worker[w].challenge \in Challenge
    BY <1>18 DEF Typed, Carries, AcceptConsent, At
  <2>2. request' \in [Challenge -> Request] /\ Begun(request')
    BY <1>18, <2>1, PhaseType DEF AcceptConsent, At, Open, Phase
  <2>3. grants' \in SUBSET Challenge
    BY <1>18, <2>1 DEF AcceptConsent, Typed, TypeOK
  <2> QED BY <1>18, <2>2, <2>3, RespondType DEF AcceptConsent
<1>19. ASSUME NEW w \in Worker, Refused(w) PROVE Typed'
  BY <1>19, WorkerType DEF Refused, Typed, TypeOK, GoodWork, hydra, flow, rollout
<1>20. ASSUME NEW w \in Worker, CallFails(w) PROVE Typed'
  BY <1>20, WorkerType DEF CallFails, Lost, Typed, TypeOK, GoodWork, hydra, flow, rollout
<1>21. ASSUME NEW w \in Worker, RevokeFails(w) PROVE Typed'
  <2>1. worker' \in [Worker -> GoodWork]
    BY <1>21, WorkType, WorkerType DEF RevokeFails, At, Step, Typed, TypeOK
  <2>2. faults' \in 0..MaxFaults
    <3>1. Lost
      BY <1>21 DEF RevokeFails
    <3> QED BY <3>1 DEF Lost, Typed, TypeOK
  <2> QED BY <1>21, <2>1, <2>2
          DEF RevokeFails, Typed, TypeOK, GoodWork, hydra, flow, rollout
<1>22. ASSUME NEW f \in FlowId, FlowExpires(f) PROVE Typed'
  BY <1>22 DEF FlowExpires, Lost, Typed, TypeOK, hydra, rollout
<1>23. ASSUME NEW b \in Browser, SessionExpires(b) PROVE Typed'
  BY <1>23 DEF SessionExpires, NoSession, Claims, Subject, Lost, Typed, TypeOK, flow, rollout
<1>24. CASE Roll
  BY <1>24 DEF Roll, Typed, TypeOK, hydra, flow
<1>25. CASE Retire
  BY <1>25 DEF Retire, Typed, TypeOK, hydra, flow
<1>26. CASE UNCHANGED vars
  BY <1>26 DEF vars, Typed, TypeOK, hydra, flow, rollout, Carries
<1> QED
  BY <1>1, <1>2, <1>3, <1>4, <1>5, <1>6, <1>7, <1>8, <1>9, <1>10, <1>11, <1>12, <1>13,
     <1>14, <1>15, <1>16, <1>17, <1>18, <1>19, <1>20, <1>21, <1>22, <1>23, <1>24, <1>25,
     <1>26 DEF Next, Proceed

LEMMA TypeInit == Init => Typed
<1> SUFFICES ASSUME Init PROVE Typed
  OBVIOUS
<1>1. session \in [Browser -> Claims]
  <2>1. NoSession \in Claims /\ Legacy \subseteq Claims
    BY DEF NoSession, Legacy, Claims, Subject
  <2> QED BY <2>1 DEF Init
<1>2. worker \in [Worker -> GoodWork]
  BY IdleType DEF Init
<1>3. request \in [Challenge -> Request] /\ Begun(request)
  BY UnsentType DEF Init, Begun, Unsent
<1> QED
  BY <1>1, <1>2, <1>3 DEF Init, Typed, TypeOK, GoodWork

LEMMA TypedAlways == Spec => []Typed
  BY TypeInit, TypeStep, PTL DEF Spec

\* Every variable of the provider always holds a value of its type: in
\* particular some version always serves, whatever rollouts do.
THEOREM TypeCorrect == Spec => []TypeOK
  BY TypedAlways, PTL DEF Typed
(***************************************************************************)
(* Flows.  Nothing in a callback says which challenge it is for: that it   *)
(* answers its own rests on ids never being reused, on Redis keeping a     *)
(* flow for the challenge its trip was started for until it is taken, and  *)
(* on the csrf check tying the cookie to the trip.                         *)
(***************************************************************************)
Fresh ==
  /\ \A f \in FlowId : store[f] # NoChallenge => f <= flows
  /\ \A t \in trips : t.state <= flows

KeptForItsTrip == \A t \in trips : store[t.state] \in {t.for, NoChallenge}

FromATrip(w) ==
  worker[w].handler = "callback" =>
    \E t \in trips : t.browser = worker[w].browser /\ t.state = worker[w].state

Checked(w) == Holding(w) => worker[w].cookie = worker[w].state

Flows ==
  /\ Fresh /\ KeptForItsTrip
  /\ \A w \in Worker : FromATrip(w) /\ Checked(w)
  /\ FlowHeldOnce
  /\ OwnResponse

\* Steps that leave Redis and the trips alone, and move a callback on only
\* after it took its flow.
LEMMA FlowsKept ==
  ASSUME Flows, store' = store, flows' = flows, trips' = trips,
         \A w \in Worker :
           \/ worker'[w] = worker[w]
           \/ worker'[w].handler # "callback"
           \/ /\ Holding(w)
              /\ worker'[w].browser = worker[w].browser
              /\ worker'[w].cookie = worker[w].cookie
              /\ worker'[w].state = worker[w].state
              /\ worker'[w].challenge = worker[w].challenge
  PROVE  Flows'
<1>1. \A w \in Worker : Holding(w)' =>
        /\ Holding(w)
        /\ worker'[w].browser = worker[w].browser
        /\ worker'[w].cookie = worker[w].cookie
        /\ worker'[w].state = worker[w].state
        /\ worker'[w].challenge = worker[w].challenge
  BY DEF Holding
<1>2. FlowHeldOnce' /\ OwnResponse' /\ \A w \in Worker : Checked(w)'
  BY <1>1 DEF Flows, FlowHeldOnce, OwnResponse, Checked
<1>3. \A w \in Worker : FromATrip(w)'
  BY DEF Flows, FromATrip, Holding
<1> QED
  BY <1>2, <1>3 DEF Flows, Fresh, KeptForItsTrip

LEMMA FlowsStep == Typed /\ Flows /\ [Next]_vars => Flows'
<1> SUFFICES ASSUME Typed, Flows, [Next]_vars PROVE Flows'
  OBVIOUS
<1> USE DEF Typed, TypeOK
<1>1. ASSUME NEW c \in Challenge, FollowLogin(c) PROVE Flows'
  BY <1>1, FlowsKept DEF FollowLogin, flow
<1>2. ASSUME NEW c \in Challenge, NEW b \in Browser, Begin(c, b) PROVE Flows'
  BY <1>2, FlowsKept DEF Begin, flow
<1>3. ASSUME NEW w \in Worker, NEW c \in Challenge, ReceiveLogin(w, c) PROVE Flows'
  <2>1. worker'[w].handler = "login" /\ \A x \in Worker \ {w} : worker'[x] = worker[x]
    BY <1>3 DEF ReceiveLogin, Receive, Idle
  <2> QED BY <1>3, <2>1, FlowsKept DEF ReceiveLogin, Receive, flow
<1>4. ASSUME NEW w \in Worker, NEW c \in Challenge, ReceiveConsent(w, c) PROVE Flows'
  <2>1. worker'[w].handler = "consent" /\ \A x \in Worker \ {w} : worker'[x] = worker[x]
    BY <1>4 DEF ReceiveConsent, Receive, Idle
  <2> QED BY <1>4, <2>1, FlowsKept DEF ReceiveConsent, Receive, flow
<1>5. ASSUME NEW w \in Worker, NEW c \in Challenge, NEW approve \in BOOLEAN,
             ReceiveDecision(w, c, approve)
      PROVE  Flows'
  <2>1. worker'[w].handler = "decision" /\ \A x \in Worker \ {w} : worker'[x] = worker[x]
    BY <1>5 DEF ReceiveDecision, Receive, Idle
  <2> QED BY <1>5, <2>1, FlowsKept DEF ReceiveDecision, Receive, flow
<1>6. ASSUME NEW w \in Worker, NEW t \in trips, NEW p \in Subject,
             ReceiveCallback(w, t, p)
      PROVE  Flows'
  <2>1. /\ worker'[w].handler = "callback" /\ worker'[w].step = "start"
        /\ worker'[w].browser = t.browser /\ worker'[w].state = t.state
        /\ \A x \in Worker \ {w} : worker'[x] = worker[x]
        /\ UNCHANGED <<store, flows, trips>>
    BY <1>6 DEF ReceiveCallback, Receive, Idle, flow
  <2>2. \A x \in Worker : Holding(x)' => x # w /\ Holding(x) /\ worker'[x] = worker[x]
    BY <2>1 DEF Holding
  <2>3. FlowHeldOnce' /\ OwnResponse' /\ \A x \in Worker : Checked(x)'
    BY <2>1, <2>2 DEF Flows, FlowHeldOnce, OwnResponse, Checked
  <2>4. \A x \in Worker : FromATrip(x)'
    BY <2>1 DEF Flows, FromATrip
  <2> QED BY <2>1, <2>3, <2>4 DEF Flows, Fresh, KeptForItsTrip
<1>7. ASSUME NEW w \in Worker, GetLogin(w) PROVE Flows'
  <2>1. worker'[w].handler = "login" /\ \A x \in Worker \ {w} : worker'[x] = worker[x]
    <3> DEFINE asked == request[worker[w].challenge]
    <3>1. asked.subject \in Subject /\ asked.email \in BOOLEAN
      BY <1>7 DEF GetLogin, At, Carries, Request
    <3>2. worker[w] \in Work /\ worker[w].handler = "login"
      BY <1>7, WorkerType DEF GetLogin, At, GoodWork
    <3> DEFINE known == [worker[w] EXCEPT !.subject = asked.subject, !.email = asked.email]
    <3>3. \A s \in Step : /\ [known EXCEPT !.step = s].handler = "login"
                          /\ [worker[w] EXCEPT !.step = s].handler = "login"
      BY <3>1, <3>2, SameHandler
    <3>4. PICK s \in Step : \/ Goto(w, [known EXCEPT !.step = s])
                            \/ Goto(w, [worker[w] EXCEPT !.step = s])
      BY <1>7 DEF GetLogin, Step
    <3> QED BY <3>3, <3>4, OneWorker
  <2> QED BY <1>7, <2>1, FlowsKept DEF GetLogin, flow
<1>8. ASSUME NEW w \in Worker, CreateFlow(w) PROVE Flows'
  <2> DEFINE c == worker[w].challenge
             trip == [browser |-> worker[w].browser, state |-> flows + 1, for |-> c]
  <2>1. /\ flows' = flows + 1 /\ flows' \in FlowId /\ c \in Challenge
        /\ store' = [store EXCEPT ![flows + 1] = c]
        /\ trips' \in {trips, trips \cup {trip}}
    BY <1>8 DEF CreateFlow, At, Carries
  <2>2. worker'[w] = Idle /\ \A x \in Worker \ {w} : worker'[x] = worker[x]
    BY <1>8 DEF CreateFlow, Return
  <2>3. \A x \in Worker : Holding(x)' => Holding(x) /\ worker'[x] = worker[x] /\ x # w
    BY <2>2 DEF Holding, Idle
  <2>4. \A x \in Worker : Holding(x) => worker[x].cookie <= flows
    BY DEF Flows, Checked, FromATrip, Fresh, Holding
  <2>5. \A x \in Worker : Holding(x) => worker[x].cookie \in FlowId
    BY DEF Carries, Holding
  <2>6. FlowHeldOnce' /\ OwnResponse' /\ \A x \in Worker : Checked(x)'
    BY <2>1, <2>3, <2>4, <2>5 DEF Flows, FlowHeldOnce, OwnResponse, Checked
  <2>7. \A x \in Worker : FromATrip(x)'
    <3>1. trips \subseteq trips' /\ Idle.handler # "callback"
      BY <2>1 DEF Idle
    <3> QED BY <2>2, <3>1 DEF Flows, FromATrip
  <2>8. Fresh'
    <3>1. \A t \in trips : t.state <= flows' /\ t.state \in FlowId
      BY <2>1 DEF Flows, Fresh, Trip
    <3>2. \A t \in trips' : t.state <= flows'
      BY <2>1, <3>1
    <3>3. \A f \in FlowId : store'[f] # NoChallenge => f <= flows'
      BY <2>1 DEF Flows, Fresh
    <3> QED BY <3>2, <3>3 DEF Fresh
  <2>9. KeptForItsTrip'
    <3>1. \A t \in trips : t.state # flows + 1 /\ t.state \in FlowId
      BY DEF Flows, Fresh, Trip
    <3> QED BY <2>1, <3>1 DEF Flows, KeptForItsTrip
  <2> QED BY <2>6, <2>7, <2>8, <2>9 DEF Flows
<1>9. ASSUME NEW w \in Worker, TakeFlow(w) PROVE Flows'
  <2> DEFINE f == worker[w].cookie
  <2>1. /\ f \in FlowId /\ store' = [store EXCEPT ![f] = NoChallenge]
        /\ UNCHANGED <<flows, trips>>
        /\ \A x \in Worker \ {w} : worker'[x] = worker[x]
        /\ worker[w].handler = "callback"
    BY <1>9 DEF TakeFlow, Taken, At, Carries, Return, Goto
  <2>2. Fresh' /\ KeptForItsTrip'
    BY <2>1 DEF Flows, Fresh, KeptForItsTrip, Trip
  <2>3. CASE worker'[w] = Idle
    <3>1. \A x \in Worker : Holding(x)' => Holding(x) /\ worker'[x] = worker[x]
      BY <2>1, <2>3 DEF Holding, Idle
    <3>2. FlowHeldOnce' /\ OwnResponse' /\ \A x \in Worker : Checked(x)'
      BY <2>1, <3>1 DEF Flows, FlowHeldOnce, OwnResponse, Checked, Carries, Holding
    <3>3. \A x \in Worker : FromATrip(x)'
      BY <2>1, <2>3 DEF Flows, FromATrip, Idle
    <3> QED BY <2>2, <3>2, <3>3 DEF Flows
  <2>4. CASE worker'[w] # Idle
    <3>1. /\ store[f] # NoChallenge /\ f = worker[w].state
          /\ worker'[w].browser = worker[w].browser /\ worker'[w].handler = "callback"
          /\ worker'[w].cookie = f /\ worker'[w].state = f
          /\ worker'[w].challenge = store[f]
      <4>1. store[f] # NoChallenge /\ f = worker[w].state
        BY <1>9, <2>4, OneWorker DEF TakeFlow, StateMatches
      <4>2. PICK s \in Step : worker'[w] = [worker[w] EXCEPT !.challenge = store[f], !.step = s]
        BY <1>9, <2>4, OneWorker DEF TakeFlow, Step
      <4>3. worker[w] \in Work
        BY WorkerType DEF GoodWork
      <4> QED BY <2>1, <4>1, <4>2, <4>3 DEF Work
    <3>2. PICK t \in trips : t.browser = worker[w].browser /\ t.state = f
      BY <2>1, <3>1 DEF Flows, FromATrip
    <3>3. t = [browser |-> worker[w].browser, state |-> f, for |-> store[f]]
      BY <3>1, <3>2 DEF Flows, KeptForItsTrip, Trip
    <3>4. \A x \in Worker \ {w} : Holding(x)' =>
            /\ Holding(x) /\ worker'[x] = worker[x]
            /\ worker[x].cookie # f /\ worker[x].cookie \in FlowId
      BY <2>1, <3>1 DEF Flows, FlowHeldOnce, Holding, Carries
    <3>5. FlowHeldOnce'
      <4>1. \A x \in Worker : Holding(x)' => store'[worker'[x].cookie] = NoChallenge
        BY <2>1, <3>1, <3>4 DEF Flows, FlowHeldOnce
      <4>2. \A x, y \in Worker : Holding(x)' /\ Holding(y)' /\ x # y
                                  => worker'[x].cookie # worker'[y].cookie
        BY <3>1, <3>4 DEF Flows, FlowHeldOnce
      <4> QED BY <4>1, <4>2 DEF FlowHeldOnce
    <3>6. OwnResponse'
      BY <2>1, <3>1, <3>3, <3>4 DEF Flows, OwnResponse
    <3>7. \A x \in Worker : Checked(x)'
      BY <3>1, <3>4 DEF Flows, Checked
    <3>8. \A x \in Worker : FromATrip(x)'
      BY <2>1, <3>1, <3>2 DEF Flows, FromATrip
    <3> QED BY <2>2, <3>5, <3>6, <3>7, <3>8 DEF Flows
  <2> QED BY <2>3, <2>4
<1>10. ASSUME NEW w \in Worker, ExchangeCode(w) PROVE Flows'
  <2>1. /\ Holding(w) /\ worker'[w].browser = worker[w].browser
        /\ worker'[w].cookie = worker[w].cookie /\ worker'[w].state = worker[w].state
        /\ worker'[w].challenge = worker[w].challenge
        /\ \A x \in Worker \ {w} : worker'[x] = worker[x]
    BY <1>10, WorkerType DEF ExchangeCode, At, Goto, Holding, GoodWork, Work
  <2> QED BY <1>10, <2>1, FlowsKept DEF ExchangeCode, flow
<1>11. ASSUME NEW w \in Worker, GetConsent(w) PROVE Flows'
  <2>1. worker'[w].handler # "callback" /\ \A x \in Worker \ {w} : worker'[x] = worker[x]
    <3> DEFINE asked == request[worker[w].challenge]
    <3>1. asked.subject \in Subject /\ asked.email \in BOOLEAN
      BY <1>11 DEF GetConsent, At, Carries, Request
    <3>2. worker[w] \in Work /\ worker[w].handler = "consent"
      BY <1>11, WorkerType DEF GetConsent, At, GoodWork
    <3>3. Idle.handler # "callback"
      BY DEF Idle
    <3> DEFINE known == [worker[w] EXCEPT !.subject = asked.subject, !.email = asked.email]
    <3>4. \A s \in Step : [known EXCEPT !.step = s].handler = "consent"
      BY <3>1, <3>2, SameHandler
    <3>5. Return(w) \/ \E s \in Step : Goto(w, [known EXCEPT !.step = s])
      BY <1>11 DEF GetConsent, Step
    <3> QED BY <3>3, <3>4, <3>5, OneWorker
  <2> QED BY <1>11, <2>1, FlowsKept DEF GetConsent, flow
<1>12. ASSUME NEW w \in Worker, GetDecision(w) PROVE Flows'
  <2>1. worker'[w].handler # "callback" /\ \A x \in Worker \ {w} : worker'[x] = worker[x]
    BY <1>12, WorkerType DEF GetDecision, At, Goto, GoodWork, Work
  <2> QED BY <1>12, <2>1, FlowsKept DEF GetDecision, flow
<1>13. ASSUME NEW w \in Worker, RevokeConsents(w) PROVE Flows'
  <2>1. worker'[w].handler # "callback" /\ \A x \in Worker \ {w} : worker'[x] = worker[x]
    BY <1>13, WorkerType DEF RevokeConsents, At, Goto, GoodWork, Work
  <2> QED BY <1>13, <2>1, FlowsKept DEF RevokeConsents, flow
<1>14. ASSUME NEW w \in Worker, RevokeLogins(w) PROVE Flows'
  <2>1. worker'[w].handler # "callback" /\ \A x \in Worker \ {w} : worker'[x] = worker[x]
    BY <1>14, WorkerType DEF RevokeLogins, At, Goto, GoodWork, Work
  <2> QED BY <1>14, <2>1, FlowsKept DEF RevokeLogins, flow
<1>15. ASSUME NEW w \in Worker, Return(w), UNCHANGED <<store, flows, trips>> PROVE Flows'
  <2>1. worker'[w].handler # "callback" /\ \A x \in Worker \ {w} : worker'[x] = worker[x]
    BY <1>15 DEF Return, Idle
  <2> QED BY <1>15, <2>1, FlowsKept
<1>16. ASSUME NEW w \in Worker,
              RejectLogin(w) \/ AcceptLogin(w) \/ RejectConsent(w) \/ AcceptConsent(w)
       PROVE  Flows'
  BY <1>15, <1>16 DEF RejectLogin, AcceptLogin, RejectConsent, AcceptConsent, Respond
<1>17. ASSUME NEW w \in Worker, Refused(w) \/ CallFails(w) PROVE Flows'
  BY <1>15, <1>17 DEF Refused, CallFails, flow
<1>18. ASSUME NEW w \in Worker, RevokeFails(w) PROVE Flows'
  <2>1. worker'[w].handler # "callback" /\ \A x \in Worker \ {w} : worker'[x] = worker[x]
    BY <1>18, WorkerType DEF RevokeFails, At, Goto, GoodWork, Work
  <2> QED BY <1>18, <2>1, FlowsKept DEF RevokeFails, flow
<1>19. ASSUME NEW f \in FlowId, FlowExpires(f) PROVE Flows'
  <2>1. /\ store' = [store EXCEPT ![f] = NoChallenge]
        /\ UNCHANGED <<flows, trips, worker>>
    BY <1>19 DEF FlowExpires
  <2>2. Fresh' /\ KeptForItsTrip'
    BY <2>1 DEF Flows, Fresh, KeptForItsTrip, Trip
  <2>3. FlowHeldOnce' /\ OwnResponse'
    BY <2>1 DEF Flows, FlowHeldOnce, OwnResponse, Holding, Carries
  <2> QED BY <2>1, <2>2, <2>3 DEF Flows, FromATrip, Checked, Holding
<1>20. ASSUME NEW b \in Browser, SessionExpires(b) PROVE Flows'
  BY <1>20, FlowsKept DEF SessionExpires, flow
<1>21. CASE Roll \/ Retire
  BY <1>21, FlowsKept DEF Roll, Retire, flow
<1>22. CASE UNCHANGED vars
  BY <1>22, FlowsKept DEF vars, flow
<1> QED
  BY <1>1, <1>2, <1>3, <1>4, <1>5, <1>6, <1>7, <1>8, <1>9, <1>10, <1>11, <1>12, <1>13,
     <1>14, <1>16, <1>17, <1>18, <1>19, <1>20, <1>21, <1>22 DEF Next, Proceed

LEMMA FlowsAlways == Spec => []Flows
<1>1. Init => Flows
  BY DEF Init, Flows, Fresh, KeptForItsTrip, FromATrip, Checked, FlowHeldOnce, OwnResponse,
         Holding, Idle
<1> QED
  BY <1>1, FlowsStep, TypedAlways, PTL DEF Spec

\* However callbacks are replayed or raced, one login flow is acted on once.
THEOREM FlowOnce == Spec => []FlowHeldOnce
  BY FlowsAlways, PTL DEF Flows

\* Whatever tabs and replays a browser makes, a callback answers the challenge
\* its own trip to GitHub was started for.
THEOREM Own == Spec => []OwnResponse
  BY FlowsAlways, PTL DEF Flows
=============================================================================
