------------------------------- MODULE Login -------------------------------
(***************************************************************************)
(* apps/auth: the login and consent provider Hydra delegates to.           *)
(*                                                                         *)
(* Every request the deployment handles is a worker that makes the calls   *)
(* of its handler one at a time, so the calls of two requests interleave,  *)
(* a flow can expire and a rollout can happen between any two of them.     *)
(* Hydra, GitHub, Redis and the browsers are external: they are modelled   *)
(* from how the code uses them.                                            *)
(***************************************************************************)
EXTENDS Naturals

CONSTANTS
  Browser,      \* browsers, each with one cookie jar
  NoBrowser,
  Person,       \* GitHub accounts
  Nobody,       \* no account
  Challenge,    \* authorization requests, one Hydra challenge each
  NoChallenge,
  FirstParty,   \* the requests of clients in FIRST_PARTY_CLIENTS
  Worker,       \* requests the deployment handles at once
  MaxVersion,   \* bound: rollouts after the first deploy
  Allowed,      \* GH_ALLOWED of each deployed version
  MaxFlows,     \* bound: login flows ever created
  MaxFaults     \* bound: failed calls, lost answers, expired flows and sessions

Version == 0..MaxVersion
FlowId == 1..MaxFlows
NoFlow == 0

ASSUME LoginAssumption ==
  /\ NoBrowser \notin Browser
  /\ Nobody \notin Person
  /\ NoChallenge \notin Challenge
  /\ FirstParty \subseteq Challenge
  /\ MaxVersion \in Nat
  /\ MaxFlows \in Nat
  /\ MaxFaults \in Nat
  /\ Allowed \in [Version -> SUBSET Person]

VARIABLES
  request,   \* Hydra: the login and consent request behind each challenge
  session,   \* Hydra: the login each browser is remembered under
  grants,    \* Hydra: consents whose tokens are live
  store,     \* Redis: the challenge of each flow in flight
  flows,     \* flow ids drawn so far
  jar,       \* the flow cookie of each browser
  trips,     \* redirects to GitHub a browser holds; "for" is only a label
  screens,   \* consent pages shown, whose form can be posted
  oldest,    \* versions oldest..latest have processes serving
  latest,
  worker,    \* the handlers in progress
  faults

hydra == <<request, session, grants>>
flow == <<store, flows, jar, trips>>
rollout == <<oldest, latest>>
vars == <<hydra, flow, screens, rollout, worker, faults>>

(***************************************************************************)
(* Types                                                                   *)
(***************************************************************************)
Subject == Person \cup {Nobody}
Phase == {"unsent", "login", "accepted", "consent", "granted", "refused"}
Claims == [subject : Subject, email : BOOLEAN]
Request == [phase : Phase, browser : Browser \cup {NoBrowser}, skip : BOOLEAN,
            subject : Subject, email : BOOLEAN]
Trip == [browser : Browser, state : FlowId, for : Challenge]

Handler == {"login", "callback", "consent", "decision"}
Step == {"start", "flow", "exchange", "revoke consents", "revoke logins",
         "reject", "accept"}
Work == [handler : Handler \cup {"idle"}, step : Step, version : Version,
         browser : Browser \cup {NoBrowser},
         challenge : Challenge \cup {NoChallenge},
         cookie : FlowId \cup {NoFlow}, state : FlowId \cup {NoFlow},
         subject : Subject, email : BOOLEAN]

TypeOK ==
  /\ request \in [Challenge -> Request]
  /\ session \in [Browser -> Claims]
  /\ grants \in SUBSET Challenge
  /\ store \in [FlowId -> Challenge \cup {NoChallenge}]
  /\ flows \in 0..MaxFlows
  /\ jar \in [Browser -> FlowId \cup {NoFlow}]
  /\ trips \in SUBSET Trip
  /\ screens \in SUBSET Challenge
  /\ oldest \in Version
  /\ latest \in Version
  /\ oldest <= latest
  /\ worker \in [Worker -> Work]
  /\ faults \in 0..MaxFaults

NoSession == [subject |-> Nobody, email |-> FALSE]
Unsent == [phase |-> "unsent", browser |-> NoBrowser, skip |-> FALSE,
           subject |-> Nobody, email |-> FALSE]
Idle == [handler |-> "idle", step |-> "start", version |-> 0,
         browser |-> NoBrowser, challenge |-> NoChallenge,
         cookie |-> NoFlow, state |-> NoFlow, subject |-> Nobody, email |-> FALSE]

\* A session accepted before the address became a claim carries none.
Legacy == [subject : Person, email : {FALSE}]

Init ==
  /\ request = [c \in Challenge |-> Unsent]
  /\ session \in [Browser -> {NoSession} \cup Legacy]
  /\ grants = {}
  /\ store = [f \in FlowId |-> NoChallenge]
  /\ flows = 0
  /\ jar = [b \in Browser |-> NoFlow]
  /\ trips = {}
  /\ screens = {}
  /\ oldest = 0
  /\ latest = 0
  /\ worker = [w \in Worker |-> Idle]
  /\ faults = 0

(***************************************************************************)
(* The browser and Hydra's public endpoints                                *)
(***************************************************************************)
\* A relying party sends the browser to Hydra, which opens a login request
\* and sets skip when it remembers the browser.
Begin(c, b) ==
  /\ request[c] = Unsent
  /\ request' = [request EXCEPT ![c] =
       [phase |-> "login", browser |-> b, skip |-> session[b].subject # Nobody,
        subject |-> session[b].subject, email |-> session[b].email]]
  /\ UNCHANGED <<session, grants, flow, screens, rollout, worker, faults>>

\* The browser follows the redirect of an accepted login: Hydra remembers it
\* and opens the consent request.
FollowLogin(c) ==
  /\ request[c].phase = "accepted"
  /\ request' = [request EXCEPT ![c].phase = "consent"]
  /\ session' = IF request[c].skip THEN session
                ELSE [session EXCEPT ![request[c].browser] =
                        [subject |-> request[c].subject, email |-> request[c].email]]
  /\ UNCHANGED <<grants, flow, screens, rollout, worker, faults>>

(***************************************************************************)
(* Requests reaching the service, on a process of any version serving.     *)
(* Reloads and replays are possible: a trip or a screen is never used up.  *)
(* A callback without the cookie is answered with the expired page, which  *)
(* changes nothing.                                                        *)
(***************************************************************************)
Receive(w, work) ==
  /\ worker[w] = Idle
  /\ \E v \in oldest..latest :
       worker' = [worker EXCEPT ![w] = [work EXCEPT !.version = v]]
  /\ UNCHANGED <<hydra, flow, screens, rollout, faults>>

ReceiveLogin(w, c) ==
  /\ request[c].phase = "login"
  /\ Receive(w, [Idle EXCEPT !.handler = "login", !.challenge = c,
                             !.browser = request[c].browser])

\* p is the account the code is for, Nobody when GitHub returned no code.
ReceiveCallback(w, t, p) ==
  /\ jar[t.browser] # NoFlow
  /\ Receive(w, [Idle EXCEPT !.handler = "callback", !.browser = t.browser,
                             !.cookie = jar[t.browser], !.state = t.state,
                             !.subject = p])

ReceiveConsent(w, c) ==
  /\ request[c].phase = "consent"
  /\ Receive(w, [Idle EXCEPT !.handler = "consent", !.challenge = c])

ReceiveDecision(w, c, approve) ==
  /\ c \in screens
  /\ Receive(w, [Idle EXCEPT !.handler = "decision", !.challenge = c,
                             !.step = IF approve THEN "start" ELSE "reject"])

(***************************************************************************)
(* The handlers                                                            *)
(***************************************************************************)
At(w, handlers, step) == worker[w].handler \in handlers /\ worker[w].step = step
Goto(w, work) == worker' = [worker EXCEPT ![w] = work]
Return(w) == worker' = [worker EXCEPT ![w] = Idle]

\* Config::login_allowed, for the configuration the process booted with.
AnyoneAllowed(v, p) == TRUE
LoginAllowed(v, p) == p \in Allowed[v]

\* A remembered login is confirmed only when its session carries an address.
SkippedRegardless(asked) == asked.skip
Skipped(asked) == asked.skip /\ asked.email

\* GETDEL of a flow.
Read(f) == store
Taken(f) == [store EXCEPT ![f] = NoChallenge]

\* The csrf of a flow was drawn with its id, so comparing it with the state
\* GitHub returned compares the two flows.
AnyState(work) == TRUE
StateMatches(work) == work.cookie = work.state

\* Config::first_party.
GrantedUnasked(c) == TRUE
IsFirstParty(c) == c \in FirstParty

\* Hydra answers only for a challenge that is still open.
Open(w) ==
  request[worker[w].challenge].phase =
    IF worker[w].handler \in {"login", "callback"} THEN "login" ELSE "consent"

GetLogin(w) ==
  LET work == worker[w]
      asked == request[work.challenge]
      known == [work EXCEPT !.subject = asked.subject, !.email = asked.email]
  IN /\ At(w, {"login"}, "start")
     /\ Open(w)
     /\ \/ /\ Skipped(asked)
           /\ LoginAllowed(work.version, asked.subject)
           /\ Goto(w, [known EXCEPT !.step = "accept"])
        \/ /\ Skipped(asked)
           /\ ~LoginAllowed(work.version, asked.subject)
           /\ Goto(w, [known EXCEPT !.step = "revoke consents"])
        \/ /\ ~Skipped(asked)
           /\ Goto(w, [work EXCEPT !.step = "flow"])
     /\ UNCHANGED <<hydra, flow, screens, rollout, faults>>

\* An answer that never reaches the browser: the connection broke, or the
\* process was stopped before it was sent.
Lost == faults < MaxFaults /\ faults' = faults + 1

CreateFlow(w) ==
  LET work == worker[w]
      id == flows + 1
  IN /\ At(w, {"login"}, "flow")
     /\ flows < MaxFlows
     /\ flows' = id
     /\ store' = [store EXCEPT ![id] = work.challenge]
     /\ \/ /\ jar' = [jar EXCEPT ![work.browser] = id]
           /\ trips' = trips \cup {[browser |-> work.browser, state |-> id,
                                    for |-> work.challenge]}
           /\ UNCHANGED faults
        \/ Lost /\ UNCHANGED <<jar, trips>>
     /\ Return(w)
     /\ UNCHANGED <<hydra, screens, rollout>>

\* GETDEL, then the comparison of the flow's csrf with the state returned.
TakeFlow(w) ==
  LET work == worker[w]
      c == store[work.cookie]
  IN /\ At(w, {"callback"}, "start")
     /\ store' = Taken(work.cookie)
     /\ IF c = NoChallenge \/ ~StateMatches(work)
        THEN Return(w)
        ELSE Goto(w, [work EXCEPT !.challenge = c,
                        !.step = IF work.subject = Nobody THEN "reject" ELSE "exchange"])
     /\ UNCHANGED <<hydra, flows, jar, trips, screens, rollout, faults>>

\* exchange_code always finds an address: a verified one, or the account's own.
ExchangeCode(w) ==
  LET work == worker[w]
  IN /\ At(w, {"callback"}, "exchange")
     /\ Goto(w, IF LoginAllowed(work.version, work.subject)
                THEN [work EXCEPT !.step = "accept", !.email = TRUE]
                ELSE [work EXCEPT !.step = "reject"])
     /\ UNCHANGED <<hydra, flow, screens, rollout, faults>>

GetConsent(w) ==
  LET work == worker[w]
      asked == request[work.challenge]
      known == [work EXCEPT !.subject = asked.subject, !.email = asked.email]
  IN /\ At(w, {"consent"}, "start")
     /\ Open(w)
     /\ \/ /\ ~LoginAllowed(work.version, asked.subject)
           /\ Goto(w, [known EXCEPT !.step = "revoke consents"])
           /\ UNCHANGED <<screens, faults>>
        \/ /\ LoginAllowed(work.version, asked.subject)
           /\ IsFirstParty(work.challenge)
           /\ Goto(w, [known EXCEPT !.step = "accept"])
           /\ UNCHANGED <<screens, faults>>
        \/ /\ LoginAllowed(work.version, asked.subject)
           /\ ~IsFirstParty(work.challenge)
           /\ Return(w)
           /\ \/ screens' = screens \cup {work.challenge} /\ UNCHANGED faults
              \/ Lost /\ UNCHANGED screens
     /\ UNCHANGED <<hydra, flow, rollout>>

GetDecision(w) ==
  LET work == worker[w]
      asked == request[work.challenge]
  IN /\ At(w, {"decision"}, "start")
     /\ Open(w)
     /\ Goto(w, [work EXCEPT !.step = "accept", !.subject = asked.subject,
                             !.email = asked.email])
     /\ UNCHANGED <<hydra, flow, screens, rollout, faults>>

\* revoke_subject: the consents with their tokens first, then the logins.
RevokeConsents(w) ==
  /\ At(w, {"login", "consent"}, "revoke consents")
  /\ grants' = {c \in grants : request[c].subject # worker[w].subject}
  /\ Goto(w, [worker[w] EXCEPT !.step = "revoke logins"])
  /\ UNCHANGED <<request, session, flow, screens, rollout, faults>>

RevokeLogins(w) ==
  /\ At(w, {"login", "consent"}, "revoke logins")
  /\ session' = [b \in Browser |-> IF session[b].subject = worker[w].subject
                                   THEN NoSession ELSE session[b]]
  /\ Goto(w, [worker[w] EXCEPT !.step = "reject"])
  /\ UNCHANGED <<request, grants, flow, screens, rollout, faults>>

\* The response that ends a callback clears the flow cookie, if it arrives.
Respond(w) ==
  /\ Return(w)
  /\ \/ /\ jar' = IF worker[w].handler = "callback"
                  THEN [jar EXCEPT ![worker[w].browser] = NoFlow] ELSE jar
        /\ UNCHANGED faults
     \/ Lost /\ UNCHANGED jar
  /\ UNCHANGED <<store, flows, trips, screens, rollout>>

RejectAnsweredHere(w) ==
  /\ At(w, {"login", "callback"}, "reject")
  /\ Respond(w)
  /\ UNCHANGED hydra
RejectLogin(w) ==
  /\ At(w, {"login", "callback"}, "reject")
  /\ Open(w)
  /\ request' = [request EXCEPT ![worker[w].challenge].phase = "refused"]
  /\ UNCHANGED <<session, grants>>
  /\ Respond(w)

\* Hydra accepts a skipped login only for the subject it remembered.
Acceptable(w) ==
  LET asked == request[worker[w].challenge]
  IN asked.skip => asked.subject = worker[w].subject

AcceptLogin(w) ==
  LET work == worker[w]
  IN /\ At(w, {"login", "callback"}, "accept")
     /\ Open(w) /\ Acceptable(w)
     /\ request' = [request EXCEPT ![work.challenge].phase = "accepted",
                                   ![work.challenge].subject = work.subject,
                                   ![work.challenge].email = work.email]
     /\ UNCHANGED <<session, grants>>
     /\ Respond(w)

RejectConsent(w) ==
  /\ At(w, {"consent", "decision"}, "reject")
  /\ Open(w)
  /\ request' = [request EXCEPT ![worker[w].challenge].phase = "refused"]
  /\ UNCHANGED <<session, grants>>
  /\ Respond(w)

AcceptConsent(w) ==
  /\ At(w, {"consent", "decision"}, "accept")
  /\ Open(w)
  /\ request' = [request EXCEPT ![worker[w].challenge].phase = "granted"]
  /\ grants' = grants \cup {worker[w].challenge}
  /\ UNCHANGED session
  /\ Respond(w)

\* Hydra refuses the call, and the handler answers with an error.
Refused(w) ==
  /\ \/ At(w, {"login", "consent", "decision"}, "start") /\ ~Open(w)
     \/ At(w, Handler, "reject") /\ ~Open(w)
     \/ At(w, Handler, "accept") /\ ~Open(w)
     \/ At(w, {"login", "callback"}, "accept") /\ ~Acceptable(w)
  /\ Return(w)
  /\ UNCHANGED <<hydra, flow, screens, rollout, faults>>

Proceed(w) ==
  \/ GetLogin(w) \/ CreateFlow(w) \/ TakeFlow(w) \/ ExchangeCode(w)
  \/ GetConsent(w) \/ GetDecision(w) \/ RevokeConsents(w) \/ RevokeLogins(w)
  \/ RejectLogin(w) \/ AcceptLogin(w) \/ RejectConsent(w) \/ AcceptConsent(w)
  \/ Refused(w)

(***************************************************************************)
(* Faults, expiries and rollouts                                           *)
(***************************************************************************)
\* A call fails, GitHub refuses the code, or the process stops: the request
\* is answered with an error or not at all.
CallFails(w) ==
  /\ At(w, Handler, worker[w].step)
  /\ Lost
  /\ Return(w)
  /\ UNCHANGED <<hydra, flow, screens, rollout>>

\* A failed revocation is logged, and the rejection goes ahead without it.
RevokeFails(w) ==
  /\ \/ At(w, {"login", "consent"}, "revoke consents")
     \/ At(w, {"login", "consent"}, "revoke logins")
  /\ Lost
  /\ Goto(w, [worker[w] EXCEPT !.step = "reject"])
  /\ UNCHANGED <<hydra, flow, screens, rollout>>

\* FLOW_TTL_SECS passed, or Redis restarted.
FlowExpires(f) ==
  /\ store[f] # NoChallenge
  /\ Lost
  /\ store' = [store EXCEPT ![f] = NoChallenge]
  /\ UNCHANGED <<hydra, flows, jar, trips, screens, rollout, worker>>

\* REMEMBER_FOR_SECS passed.
SessionExpires(b) ==
  /\ session[b] # NoSession
  /\ Lost
  /\ session' = [session EXCEPT ![b] = NoSession]
  /\ UNCHANGED <<request, grants, flow, screens, rollout, worker>>

\* A rollout starts a process of the next version before the old one drains.
Roll ==
  /\ latest < MaxVersion
  /\ latest' = latest + 1
  /\ UNCHANGED <<hydra, flow, screens, oldest, worker, faults>>

RetireAnyway ==
  /\ oldest < MaxVersion
  /\ oldest' = oldest + 1
  /\ UNCHANGED <<hydra, flow, screens, latest, worker, faults>>
Retire ==
  /\ oldest < latest
  /\ \A w \in Worker : worker[w] = Idle \/ worker[w].version # oldest
  /\ oldest' = oldest + 1
  /\ UNCHANGED <<hydra, flow, screens, latest, worker, faults>>

Next ==
  \/ \E c \in Challenge : FollowLogin(c) \/ \E b \in Browser : Begin(c, b)
  \/ \E w \in Worker :
       \/ \E c \in Challenge :
            \/ ReceiveLogin(w, c)
            \/ ReceiveConsent(w, c)
            \/ \E approve \in BOOLEAN : ReceiveDecision(w, c, approve)
       \/ \E t \in trips, p \in Subject : ReceiveCallback(w, t, p)
       \/ Proceed(w)
       \/ CallFails(w)
       \/ RevokeFails(w)
  \/ \E f \in FlowId : FlowExpires(f)
  \/ \E b \in Browser : SessionExpires(b)
  \/ Roll
  \/ Retire

Spec == Init /\ [][Next]_vars

\* Every call has a timeout (main.rs), so a handler that started goes on.
Fairness == \A w \in Worker : WF_vars(Proceed(w))

FairSpec == Spec /\ Fairness

(***************************************************************************)
(* Properties                                                              *)
(***************************************************************************)
\* A handler past take_flow: the flow it took is gone from Redis.
Holding(w) ==
  worker[w].handler = "callback" /\ worker[w].step # "start"

\* No two callbacks ever act on one login flow, however a callback is replayed
\* or raced (store.rs take_flow: a replayed callback finds nothing rather than
\* a second usable flow).
FlowHeldOnce ==
  \A w \in Worker : Holding(w) =>
    /\ store[worker[w].cookie] = NoChallenge
    /\ \A x \in Worker \ {w} : Holding(x) => worker[x].cookie # worker[w].cookie

\* Whatever tabs a browser has open, a callback answers the challenge its own
\* trip to GitHub was started for: the account of one tab's sign-in never
\* answers another tab's challenge (the csrf check of github_callback).
OwnResponse ==
  \A w \in Worker : Holding(w) =>
    [browser |-> worker[w].browser, state |-> worker[w].state,
     for |-> worker[w].challenge] \in trips

\* No authorization gets past its login without an address for the token,
\* although Hydra may remember sessions that carry none (routes.rs login, and
\* "An address is a claim, not a nicety" in the README).
AddressOnEveryToken ==
  \A c \in Challenge :
    request[c].phase \in {"accepted", "consent", "granted"} => request[c].email

Named(p) == \E v \in oldest..latest : p \in Allowed[v]
Decided(c) ==
  /\ request[c].phase # request'[c].phase
  /\ request'[c].phase \in {"accepted", "granted"}

\* At the moment a login is accepted or a consent granted, a version still
\* serving names the person, except that a consent screen shown before the
\* person was removed can still be approved: no call in progress carries the
\* decision of an allowlist that every process has dropped.
NamedWhenDecided ==
  [][\A c \in Challenge :
       Decided(c) => Named(request'[c].subject) \/ c \in screens]_vars

\* What "known" means to a relying party: the login is accepted.
Status(c) ==
  CASE request[c].phase \in {"unsent", "login"} -> "asked"
    [] request[c].phase \in {"accepted", "consent"} -> "known"
    [] OTHER -> request[c].phase
TiedTo(c) ==
  IF request[c].phase \in {"accepted", "consent", "granted"}
  THEN request[c].subject ELSE Nobody

Listed == UNION {Allowed[v] : v \in Version}
Unlisted == UNION {Person \ Allowed[v] : v \in Version}

Gate == INSTANCE LoginGate WITH
  status <- [c \in Challenge |-> Status(c)],
  who <- [c \in Challenge |-> TiedTo(c)],
  shown <- screens,
  tokens <- grants

\* The provider implements LoginGate: an authorization is tied to a person on
\* a deployed list, a client that registered itself is granted only after its
\* screen was shown, and tokens are withdrawn only from somebody left out.
ImplementsGate == Gate!Spec

\* A browser with one sign-in under way that returns from GitHub gets its
\* challenge answered at Hydra when no call fails, unless Hydra remembers the
\* browser (without an address): then it accepts nobody but the remembered
\* person, and nothing on this path revokes that session.
OneTab(b) ==
  \A t, u \in trips : t.browser = b /\ u.browser = b => t.state = u.state
Returned(c) ==
  \E w \in Worker :
    LET work == worker[w]
    IN /\ At(w, {"callback"}, "start")
       /\ StateMatches(work)
       /\ store[work.cookie] = c
       /\ OneTab(work.browser)
       /\ ~request[c].skip
CallbackIsAnswered ==
  \A c \in Challenge : Returned(c) ~> request[c].phase # "login"
=============================================================================
