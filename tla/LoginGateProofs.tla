-------------------------- MODULE LoginGateProofs --------------------------
(***************************************************************************)
(* Whom Login lets in: the allowlist, the address and the consent screen,  *)
(* and that Login implements LoginGate.                                    *)
(***************************************************************************)
EXTENDS LoginProofs

USE LoginAssumption DEF Version, FlowId, NoFlow

Past == {"consent", "granted", "refused"}
SignedIn == {"accepted", "consent", "granted"}

\* What Hydra holds of each authorization.
Admitted(c) ==
  /\ request[c].phase \in SignedIn => request[c].email /\ request[c].subject \in Listed
  /\ request[c].skip => request[c].subject \in Person
  /\ c \in grants => request[c].phase = "granted"
  /\ c \in screens => c \notin FirstParty /\ request[c].phase \in Past

\* What a handler has established by the time it is at a step.
Established(w) ==
  LET work == worker[w]
      c == work.challenge
  IN /\ work.handler # "idle" => work.version \in oldest..latest
     /\ work.step \in {"revoke consents", "revoke logins"} =>
          work.subject \in Person \ Allowed[work.version]
     /\ work.handler \in {"login", "callback"} /\ work.step = "accept" =>
          work.email /\ work.subject \in Allowed[work.version]
     /\ work.handler \in {"consent", "decision"} => request[c].phase \in Past
     /\ work.handler = "consent" /\ work.step = "accept" =>
          c \in FirstParty /\ (Open(w) => request[c].subject \in Allowed[work.version])
     /\ work.handler = "decision" => c \in screens

Guarded ==
  /\ \A c \in Challenge : Admitted(c)
  /\ \A w \in Worker : Established(w)

Inv == Typed /\ Guarded
LEMMA ListedFacts ==
  /\ Listed \subseteq Person
  /\ \A v \in Version : Allowed[v] \subseteq Listed
<1>1. ASSUME NEW p \in Listed PROVE p \in Person
  <2>1. PICK v \in Version : p \in Allowed[v]
    BY DEF Listed
  <2> QED BY <2>1
<1>2. ASSUME NEW v \in Version, NEW p \in Allowed[v] PROVE p \in Listed
  BY DEF Listed
<1> QED BY <1>1, <1>2

LEMMA IdleEstablished ==
  ASSUME NEW w \in Worker, worker'[w] = Idle
  PROVE  Established(w)'
  BY DEF Established, Idle

\* While the versions serving stay and what Hydra holds only moves on, what
\* the handlers that do not move have established stands.
LEMMA OthersKept ==
  ASSUME Inv, NEW W \in SUBSET Worker, \A x \in W : worker'[x] = worker[x],
         oldest' = oldest, latest' = latest, screens \subseteq screens',
         \A c \in Challenge : request[c].phase \in Past =>
           /\ request'[c].phase \in Past
           /\ request'[c].phase = "consent" => request'[c] = request[c]
  PROVE  \A x \in W : Established(x)'
<1> SUFFICES ASSUME NEW x \in W PROVE Established(x)'
  OBVIOUS
<1>1. Established(x) /\ Carries(worker[x]) /\ worker'[x] = worker[x]
  BY DEF Inv, Guarded, Typed
<1>2. CASE worker[x].handler \in {"consent", "decision"}
  <2>1. worker[x].challenge \in Challenge /\ request[worker[x].challenge].phase \in Past
    BY <1>1, <1>2 DEF Carries, Established
  <2>2. Open(x)' => Open(x) /\ request'[worker[x].challenge] = request[worker[x].challenge]
    BY <1>1, <1>2, <2>1 DEF Open
  <2> QED BY <1>1, <1>2, <2>1, <2>2 DEF Established
<1>3. CASE worker[x].handler \notin {"consent", "decision"}
  BY <1>1, <1>3 DEF Established
<1> QED BY <1>2, <1>3

\* Hydra's requests and the screens stay as they are.
LEMMA GuardedKept ==
  ASSUME Inv, NEW w \in Worker,
         \A x \in Worker \ {w} : worker'[x] = worker[x],
         UNCHANGED <<request, screens, oldest, latest>>, grants' \subseteq grants,
         Established(w)'
  PROVE  Guarded'
<1>1. \A x \in Worker \ {w} : Established(x)'
  BY OthersKept
<1>2. \A c \in Challenge : Admitted(c)'
  BY DEF Inv, Guarded, Admitted
<1> QED BY <1>1, <1>2 DEF Guarded

\* A request that starts a handler has established nothing but its version.
LEMMA ReceiveGuarded ==
  ASSUME Inv, NEW w \in Worker, NEW work \in Work, Receive(w, work),
         work.handler \in {"consent", "decision"} =>
           request[work.challenge].phase \in Past,
         work.handler = "decision" => work.challenge \in screens,
         work.step \in {"start", "reject"}
  PROVE  Guarded'
<1>1. PICK v \in oldest..latest : worker' = [worker EXCEPT ![w] = [work EXCEPT !.version = v]]
  BY DEF Receive
<1>2. worker'[w] = [work EXCEPT !.version = v] /\ \A x \in Worker \ {w} : worker'[x] = worker[x]
  BY <1>1 DEF Inv, Typed, TypeOK
<1>3. /\ worker'[w].handler = work.handler /\ worker'[w].step = work.step
      /\ worker'[w].challenge = work.challenge /\ worker'[w].version = v
  BY <1>2 DEF Work
<1>4. UNCHANGED <<request, screens, oldest, latest, grants>>
  BY DEF Receive, hydra, rollout
<1>5. Established(w)'
  BY <1>3, <1>4 DEF Established
<1> QED BY <1>2, <1>4, <1>5, GuardedKept

LEMMA GuardedStep == Inv /\ [Next]_vars => Guarded'
<1> SUFFICES ASSUME Inv, [Next]_vars PROVE Guarded'
  OBVIOUS
<1>0. Typed /\ Guarded
  BY DEF Inv
<1>1. ASSUME NEW c \in Challenge, FollowLogin(c) PROVE Guarded'
  <2>1. /\ UNCHANGED <<worker, oldest, latest, screens, grants>>
        /\ request[c].phase = "accepted"
        /\ request' = [request EXCEPT ![c].phase = "consent"]
    BY <1>1 DEF FollowLogin, rollout
  <2>2. request[c] \in Request
    BY <1>0 DEF Typed, TypeOK
  <2>3. /\ request'[c].phase = "consent" /\ request'[c].email = request[c].email
        /\ request'[c].subject = request[c].subject /\ request'[c].skip = request[c].skip
        /\ \A d \in Challenge \ {c} : request'[d] = request[d]
    BY <1>0, <2>1, <2>2 DEF Typed, TypeOK, Request
  <2>4. \A d \in Challenge : Admitted(d)'
    BY <1>0, <2>1, <2>3 DEF Guarded, Admitted, Past, SignedIn
  <2>5. \A w \in Worker : Established(w)'
    BY <2>1, <2>3, OthersKept DEF Past
  <2> QED BY <2>4, <2>5 DEF Guarded
<1>2. ASSUME NEW c \in Challenge, NEW b \in Browser, Begin(c, b) PROVE Guarded'
  <2>1. /\ UNCHANGED <<worker, oldest, latest, screens, grants>>
        /\ request[c].phase = "unsent"
        /\ \A d \in Challenge \ {c} : request'[d] = request[d]
        /\ request'[c].phase = "login"
        /\ request'[c].skip => request'[c].subject \in Person
    <3>1. session[b].subject \in Subject
      BY <1>0 DEF Typed, TypeOK, Claims
    <3>2. request[c].phase = "unsent"
      BY <1>2 DEF Begin, Unsent
    <3> QED BY <1>0, <1>2, <3>1, <3>2 DEF Begin, rollout, Typed, TypeOK, Subject
  <2>2. \A d \in Challenge : Admitted(d)'
    BY <1>0, <2>1 DEF Guarded, Admitted, Past, SignedIn
  <2>3. \A w \in Worker : Established(w)'
    BY <2>1, OthersKept DEF Past
  <2> QED BY <2>2, <2>3 DEF Guarded
<1>3. ASSUME NEW w \in Worker, NEW c \in Challenge, ReceiveLogin(w, c) PROVE Guarded'
  <2> DEFINE work == [Idle EXCEPT !.handler = "login", !.challenge = c,
                                  !.browser = request[c].browser]
  <2>1. work \in Work /\ work.handler = "login" /\ work.step = "start"
    BY <1>0, IdleType DEF GoodWork, Work, Handler, Typed, TypeOK, Request
  <2> QED BY <1>3, <2>1, ReceiveGuarded DEF ReceiveLogin
<1>4. ASSUME NEW w \in Worker, NEW c \in Challenge, ReceiveConsent(w, c) PROVE Guarded'
  <2> DEFINE work == [Idle EXCEPT !.handler = "consent", !.challenge = c]
  <2>1. work \in Work /\ work.handler = "consent" /\ work.step = "start" /\ work.challenge = c
    BY IdleType DEF GoodWork, Work, Handler
  <2> QED BY <1>4, <2>1, ReceiveGuarded DEF ReceiveConsent, Past
<1>5. ASSUME NEW w \in Worker, NEW c \in Challenge, NEW approve \in BOOLEAN,
             ReceiveDecision(w, c, approve)
      PROVE  Guarded'
  <2> DEFINE work == [Idle EXCEPT !.handler = "decision", !.challenge = c,
                                  !.step = IF approve THEN "start" ELSE "reject"]
  <2>1. /\ work \in Work /\ work.handler = "decision" /\ work.challenge = c
        /\ work.step \in {"start", "reject"}
    BY IdleType DEF GoodWork, Work, Handler, Step
  <2>2. c \in screens /\ request[c].phase \in Past
    BY <1>0, <1>5 DEF ReceiveDecision, Guarded, Admitted
  <2> QED BY <1>5, <2>1, <2>2, ReceiveGuarded DEF ReceiveDecision
<1>6. ASSUME NEW w \in Worker, NEW t \in trips, NEW p \in Subject,
             ReceiveCallback(w, t, p)
      PROVE  Guarded'
  <2> DEFINE work == [Idle EXCEPT !.handler = "callback", !.browser = t.browser,
                                  !.cookie = jar[t.browser], !.state = t.state,
                                  !.subject = p]
  <2>1. work \in Work /\ work.handler = "callback" /\ work.step = "start"
    BY <1>0, IdleType DEF GoodWork, Work, Handler, Typed, TypeOK, Trip
  <2> QED BY <1>6, <2>1, ReceiveGuarded DEF ReceiveCallback
<1>7. ASSUME NEW w \in Worker, GetLogin(w) PROVE Guarded'
  <2> DEFINE c == worker[w].challenge
             asked == request[c]
             known == [worker[w] EXCEPT !.subject = asked.subject, !.email = asked.email]
  <2>1. /\ worker[w] \in Work /\ c \in Challenge /\ worker[w].handler = "login"
        /\ asked.subject \in Subject /\ asked.email \in BOOLEAN
        /\ worker[w].version \in oldest..latest
        /\ asked.skip => asked.subject \in Person
    BY <1>0, <1>7, WorkerType
       DEF GoodWork, GetLogin, At, Typed, TypeOK, Carries, Request, Guarded, Established,
           Admitted
  <2>2. UNCHANGED <<request, screens, oldest, latest, grants>>
    BY <1>7 DEF GetLogin, hydra, rollout
  <2>0. /\ known \in Work /\ known.handler = "login" /\ known.version = worker[w].version
        /\ known.subject = asked.subject /\ known.email = asked.email
    BY <2>1 DEF Work
  <2> HIDE DEF known
  <2>3. \A x \in Worker \ {w} : worker'[x] = worker[x]
    BY <1>0, <1>7, OneWorker DEF GetLogin
  <2>4. Established(w)'
    <3>1. CASE /\ Skipped(asked) /\ LoginAllowed(worker[w].version, asked.subject)
               /\ worker'[w] = [known EXCEPT !.step = "accept"]
      <4>1. /\ worker'[w].handler = "login" /\ worker'[w].version = worker[w].version
            /\ worker'[w].step = "accept" /\ worker'[w].subject = asked.subject
            /\ worker'[w].email = asked.email
        BY <2>0, <3>1 DEF Work
      <4> QED BY <2>1, <2>2, <3>1, <4>1 DEF Established, Skipped, LoginAllowed
    <3>2. CASE /\ Skipped(asked) /\ ~LoginAllowed(worker[w].version, asked.subject)
               /\ worker'[w] = [known EXCEPT !.step = "revoke consents"]
      <4>1. /\ worker'[w].handler = "login" /\ worker'[w].version = worker[w].version
            /\ worker'[w].step = "revoke consents" /\ worker'[w].subject = asked.subject
        BY <2>0, <3>2 DEF Work
      <4> QED BY <2>1, <2>2, <3>2, <4>1 DEF Established, Skipped, LoginAllowed
    <3>3. CASE worker'[w] = [worker[w] EXCEPT !.step = "flow"]
      <4>1. /\ worker'[w].handler = "login" /\ worker'[w].version = worker[w].version
            /\ worker'[w].step = "flow"
        BY <2>1, <3>3 DEF Work
      <4> QED BY <2>1, <2>2, <4>1 DEF Established
    <3> QED BY <1>0, <1>7, <3>1, <3>2, <3>3, OneWorker DEF GetLogin, known
  <2> QED BY <2>2, <2>3, <2>4, GuardedKept
<1>8. ASSUME NEW w \in Worker, Return(w), UNCHANGED <<request, screens, oldest, latest, grants>>
      PROVE  Guarded'
  BY <1>0, <1>8, IdleEstablished, OneWorker, GuardedKept
<1>9. ASSUME NEW w \in Worker, CreateFlow(w) \/ Refused(w) \/ CallFails(w) PROVE Guarded'
  BY <1>8, <1>9 DEF CreateFlow, Refused, CallFails, hydra, rollout
<1>10. ASSUME NEW w \in Worker, TakeFlow(w) PROVE Guarded'
  <2>1. UNCHANGED <<request, screens, oldest, latest, grants>>
    BY <1>10 DEF TakeFlow, hydra, rollout
  <2>2. CASE Return(w)
    BY <1>8, <2>1, <2>2
  <2>3. ASSUME NEW d \in Challenge, NEW s \in {"reject", "exchange"},
               Goto(w, [worker[w] EXCEPT !.challenge = d, !.step = s])
        PROVE  Guarded'
    <3>1. worker[w] \in Work /\ worker[w].handler = "callback"
      BY <1>0, <1>10, WorkerType DEF GoodWork, TakeFlow, At
    <3>2. /\ worker'[w].handler = "callback" /\ worker'[w].step = s
          /\ worker'[w].version = worker[w].version
      <4>1. worker'[w] = [worker[w] EXCEPT !.challenge = d, !.step = s]
        BY <1>0, <2>3, OneWorker
      <4> QED BY <3>1, <4>1 DEF Work
    <3>3. Established(w)'
      BY <1>0, <2>1, <3>1, <3>2 DEF Guarded, Established
    <3> QED BY <1>0, <2>1, <2>3, <3>3, OneWorker, GuardedKept
  <2>4. worker[w].cookie \in FlowId /\ store[worker[w].cookie] \in Challenge \cup {NoChallenge}
    BY <1>0, <1>10 DEF Typed, TypeOK, Carries, TakeFlow, At
  <2> QED BY <1>10, <2>2, <2>3, <2>4 DEF TakeFlow
<1>11. ASSUME NEW w \in Worker, ExchangeCode(w) PROVE Guarded'
  <2>1. UNCHANGED <<request, screens, oldest, latest, grants>>
    BY <1>11 DEF ExchangeCode, hydra, rollout
  <2>2. /\ worker[w] \in Work /\ worker[w].handler = "callback"
        /\ worker[w].version \in oldest..latest
    BY <1>0, <1>11, WorkerType DEF GoodWork, ExchangeCode, At, Guarded, Established
  <2>3. Established(w)'
    <3>1. CASE /\ LoginAllowed(worker[w].version, worker[w].subject)
               /\ worker'[w] = [worker[w] EXCEPT !.step = "accept", !.email = TRUE]
      <4>1. /\ worker'[w].handler = "callback" /\ worker'[w].step = "accept"
            /\ worker'[w].version = worker[w].version
            /\ worker'[w].subject = worker[w].subject /\ worker'[w].email
        BY <2>2, <3>1 DEF Work
      <4> QED BY <2>1, <2>2, <3>1, <4>1 DEF Established, LoginAllowed
    <3>2. CASE worker'[w] = [worker[w] EXCEPT !.step = "reject"]
      <4>1. /\ worker'[w].handler = "callback" /\ worker'[w].step = "reject"
            /\ worker'[w].version = worker[w].version
        BY <2>2, <3>2 DEF Work
      <4> QED BY <2>1, <2>2, <4>1 DEF Established
    <3> QED BY <1>0, <1>11, <3>1, <3>2, OneWorker DEF ExchangeCode
  <2> QED BY <1>0, <1>11, <2>1, <2>3, OneWorker, GuardedKept DEF ExchangeCode
<1>12. ASSUME NEW w \in Worker, GetConsent(w) PROVE Guarded'
  <2> DEFINE c == worker[w].challenge
             asked == request[c]
             known == [worker[w] EXCEPT !.subject = asked.subject, !.email = asked.email]
  <2>1. /\ worker[w] \in Work /\ c \in Challenge /\ worker[w].handler = "consent"
        /\ worker[w].version \in oldest..latest
        /\ asked.phase = "consent"
    BY <1>0, <1>12, WorkerType
       DEF GoodWork, GetConsent, At, Open, Typed, Carries, Guarded, Established
  <2>2. asked.subject \in Subject /\ asked.email \in BOOLEAN /\ asked.subject \in Person
    BY <1>0, <2>1, ListedFacts DEF Typed, TypeOK, Request, Guarded, Admitted, SignedIn
  <2>3. UNCHANGED <<request, oldest, latest, grants>>
    BY <1>12 DEF GetConsent, hydra, rollout
  <2>4. \A x \in Worker \ {w} : worker'[x] = worker[x]
    BY <1>0, <1>12, OneWorker DEF GetConsent
  <2>5. /\ known \in Work /\ known.handler = "consent" /\ known.version = worker[w].version
        /\ known.subject = asked.subject /\ known.challenge = c
    BY <2>1, <2>2 DEF Work
  <2> HIDE DEF known
  <2>6. CASE /\ ~LoginAllowed(worker[w].version, asked.subject)
             /\ worker'[w] = [known EXCEPT !.step = "revoke consents"]
             /\ UNCHANGED screens
    <3>1. /\ worker'[w].handler = "consent" /\ worker'[w].version = worker[w].version
          /\ worker'[w].step = "revoke consents" /\ worker'[w].subject = asked.subject
          /\ worker'[w].challenge = c
      BY <2>5, <2>6 DEF Work
    <3>2. Established(w)'
      BY <2>1, <2>2, <2>3, <2>6, <3>1 DEF Established, LoginAllowed, Past
    <3> QED BY <2>3, <2>4, <2>6, <3>2, GuardedKept
  <2>7. CASE /\ LoginAllowed(worker[w].version, asked.subject)
             /\ c \in FirstParty
             /\ worker'[w] = [known EXCEPT !.step = "accept"]
             /\ UNCHANGED screens
    <3>1. /\ worker'[w].handler = "consent" /\ worker'[w].version = worker[w].version
          /\ worker'[w].step = "accept" /\ worker'[w].subject = asked.subject
          /\ worker'[w].challenge = c
      BY <2>5, <2>7 DEF Work
    <3>2. Established(w)'
      BY <2>1, <2>2, <2>3, <2>7, <3>1 DEF Established, LoginAllowed, Past
    <3> QED BY <2>3, <2>4, <2>7, <3>2, GuardedKept
  <2>8. CASE c \notin FirstParty /\ Return(w) /\ screens' \in {screens, screens \cup {c}}
    <3>1. \A d \in Challenge : Admitted(d)'
      BY <1>0, <2>1, <2>3, <2>8 DEF Guarded, Admitted, Past
    <3>2. \A x \in Worker \ {w} : Established(x)'
      BY <2>3, <2>4, <2>8, OthersKept
    <3>3. Established(w)'
      BY <1>0, <2>8, IdleEstablished, OneWorker
    <3> QED BY <3>1, <3>2, <3>3 DEF Guarded
  <2> QED BY <1>0, <1>12, <2>6, <2>7, <2>8, OneWorker DEF GetConsent, IsFirstParty, known
<1>13. ASSUME NEW w \in Worker, GetDecision(w) PROVE Guarded'
  <2> DEFINE asked == request[worker[w].challenge]
  <2>1. worker[w] \in Work /\ worker[w].handler = "decision"
    BY <1>0, <1>13, WorkerType DEF GoodWork, GetDecision, At
  <2>2. UNCHANGED <<request, screens, oldest, latest, grants>>
    BY <1>13 DEF GetDecision, hydra, rollout
  <2>3. worker'[w] = [worker[w] EXCEPT !.step = "accept", !.subject = asked.subject,
                                       !.email = asked.email]
    BY <1>0, <1>13, OneWorker DEF GetDecision
  <2>4. /\ worker'[w].handler = "decision" /\ worker'[w].version = worker[w].version
        /\ worker'[w].step = "accept" /\ worker'[w].challenge = worker[w].challenge
    BY <2>1, <2>3 DEF Work
  <2>5. Established(w)'
    BY <1>0, <2>1, <2>2, <2>4 DEF Guarded, Established
  <2> QED BY <1>0, <1>13, <2>2, <2>5, OneWorker, GuardedKept DEF GetDecision
<1>14. ASSUME NEW w \in Worker, NEW s \in {"revoke logins", "reject"},
              worker[w].handler \in {"login", "consent"},
              worker[w].step \in {"revoke consents", "revoke logins"},
              Goto(w, [worker[w] EXCEPT !.step = s]),
              UNCHANGED <<request, screens, oldest, latest>>, grants' \subseteq grants
       PROVE  Guarded'
  <2>1. worker[w] \in Work
    BY <1>0, WorkerType DEF GoodWork
  <2>2. worker'[w] = [worker[w] EXCEPT !.step = s]
    BY <1>0, <1>14, OneWorker
  <2>3. /\ worker'[w].handler = worker[w].handler /\ worker'[w].version = worker[w].version
        /\ worker'[w].step = s /\ worker'[w].subject = worker[w].subject
        /\ worker'[w].challenge = worker[w].challenge
    BY <2>1, <2>2 DEF Work
  <2>4. Established(w)'
    BY <1>0, <1>14, <2>3 DEF Guarded, Established
  <2> QED BY <1>0, <1>14, <2>4, OneWorker, GuardedKept
<1>15. ASSUME NEW w \in Worker, RevokeConsents(w) \/ RevokeLogins(w) \/ RevokeFails(w)
       PROVE  Guarded'
  BY <1>14, <1>15 DEF RevokeConsents, RevokeLogins, RevokeFails, At, hydra, rollout
<1>16. ASSUME NEW w \in Worker, Respond(w), NEW c \in Challenge,
              \A d \in Challenge \ {c} : request'[d] = request[d],
              request[c].phase \in Past => request'[c].phase \in Past \ {"consent"},
              Admitted(c)', \A d \in Challenge \ {c} : d \in grants' <=> d \in grants
       PROVE  Guarded'
  <2>1. Return(w) /\ UNCHANGED <<screens, oldest, latest>>
    BY <1>16 DEF Respond, rollout
  <2>2. \A x \in Worker \ {w} : worker'[x] = worker[x]
    BY <1>0, <2>1, OneWorker
  <2>3. \A x \in Worker \ {w} : Established(x)'
    BY <1>16, <2>1, <2>2, OthersKept
  <2>4. Established(w)'
    BY <1>0, <2>1, IdleEstablished, OneWorker
  <2>5. \A d \in Challenge : Admitted(d)'
    BY <1>0, <1>16, <2>1 DEF Guarded, Admitted
  <2> QED BY <2>3, <2>4, <2>5 DEF Guarded
<1>17. ASSUME NEW w \in Worker, RejectLogin(w) \/ RejectConsent(w) PROVE Guarded'
  <2>1. PICK c \in Challenge :
          c = worker[w].challenge /\ request[c].phase \in {"login", "consent"}
    BY <1>0, <1>17 DEF RejectLogin, RejectConsent, At, Open, Typed, Carries
  <2>2. request[c] \in Request
    BY <1>0, <2>1 DEF Typed, TypeOK
  <2>3. /\ request'[c].phase = "refused" /\ request'[c].skip = request[c].skip
        /\ request'[c].subject = request[c].subject
        /\ \A d \in Challenge \ {c} : request'[d] = request[d]
    BY <1>0, <1>17, <2>1, <2>2 DEF RejectLogin, RejectConsent, Typed, TypeOK, Request
  <2>4. UNCHANGED <<grants, screens>> /\ Respond(w)
    BY <1>17 DEF RejectLogin, RejectConsent, Respond
  <2>5. Admitted(c)'
    BY <1>0, <2>1, <2>3, <2>4 DEF Guarded, Admitted, SignedIn, Past
  <2> QED BY <1>16, <2>1, <2>3, <2>4, <2>5 DEF Past
<1>18. ASSUME NEW w \in Worker, AcceptLogin(w) PROVE Guarded'
  <2>1. PICK c \in Challenge :
          /\ c = worker[w].challenge /\ request[c].phase = "login"
          /\ worker[w].version \in Version /\ worker[w].email
          /\ worker[w].subject \in Allowed[worker[w].version]
    BY <1>0, <1>18, WorkerType
       DEF AcceptLogin, At, Open, Typed, Carries, Guarded, Established, GoodWork, Work
  <2>2. request[c] \in Request
    BY <1>0, <2>1 DEF Typed, TypeOK
  <2>3. /\ request'[c].phase = "accepted"
        /\ request'[c].subject = worker[w].subject /\ request'[c].email = worker[w].email
        /\ \A d \in Challenge \ {c} : request'[d] = request[d]
    BY <1>0, <1>18, <2>1, <2>2 DEF AcceptLogin, Typed, TypeOK, Request
  <2>4. UNCHANGED <<grants, screens>> /\ Respond(w)
    BY <1>18 DEF AcceptLogin, Respond
  <2>5. worker[w].subject \in Listed /\ worker[w].subject \in Person
    BY <2>1, ListedFacts
  <2>6. Admitted(c)'
    BY <1>0, <2>1, <2>3, <2>4, <2>5 DEF Guarded, Admitted, SignedIn, Past
  <2> QED BY <1>16, <2>1, <2>3, <2>4, <2>6 DEF Past
<1>19. ASSUME NEW w \in Worker, AcceptConsent(w) PROVE Guarded'
  <2>1. PICK c \in Challenge : c = worker[w].challenge /\ request[c].phase = "consent"
    BY <1>0, <1>19 DEF AcceptConsent, At, Open, Typed, Carries
  <2>2. request[c] \in Request
    BY <1>0, <2>1 DEF Typed, TypeOK
  <2>3. /\ request'[c].phase = "granted" /\ request'[c].skip = request[c].skip
        /\ request'[c].subject = request[c].subject /\ request'[c].email = request[c].email
        /\ \A d \in Challenge \ {c} : request'[d] = request[d]
    BY <1>0, <1>19, <2>1, <2>2 DEF AcceptConsent, Typed, TypeOK, Request
  <2>4. grants' = grants \cup {c} /\ UNCHANGED screens /\ Respond(w)
    BY <1>19, <2>1 DEF AcceptConsent, Respond
  <2>5. Admitted(c)'
    BY <1>0, <2>1, <2>3, <2>4 DEF Guarded, Admitted, SignedIn, Past
  <2> QED BY <1>16, <2>1, <2>3, <2>4, <2>5 DEF Past
<1>20. ASSUME UNCHANGED <<request, screens, oldest, latest, grants, worker>> PROVE Guarded'
  BY <1>0, <1>20 DEF Guarded, Admitted, Established, Open
<1>21. ASSUME NEW f \in FlowId, FlowExpires(f) PROVE Guarded'
  BY <1>20, <1>21 DEF FlowExpires, hydra, rollout
<1>22. ASSUME NEW b \in Browser, SessionExpires(b) PROVE Guarded'
  BY <1>20, <1>22 DEF SessionExpires, rollout
<1>23. CASE Roll
  <2>1. /\ latest' = latest + 1 /\ oldest' = oldest
        /\ UNCHANGED <<request, screens, grants, worker>>
    BY <1>23 DEF Roll, hydra
  <2>2. \A v \in oldest..latest : v \in oldest'..latest'
    BY <1>0, <2>1 DEF Typed, TypeOK
  <2>3. \A w \in Worker : Established(w)'
    BY <1>0, <2>1, <2>2 DEF Guarded, Established, Open
  <2> QED BY <1>0, <2>1, <2>3 DEF Guarded, Admitted
<1>24. CASE Retire
  <2>1. /\ oldest' = oldest + 1 /\ latest' = latest
        /\ UNCHANGED <<request, screens, grants, worker>>
        /\ \A w \in Worker : worker[w] = Idle \/ worker[w].version # oldest
    BY <1>24 DEF Retire, hydra
  <2>2. \A w \in Worker : worker[w].handler # "idle" => worker[w].version \in oldest'..latest'
    <3>1. Idle.handler = "idle"
      BY DEF Idle
    <3>2. \A v \in oldest..latest : v # oldest => v \in oldest'..latest'
      BY <1>0, <2>1 DEF Typed, TypeOK
    <3> QED BY <1>0, <2>1, <3>1, <3>2 DEF Guarded, Established
  <2>3. \A w \in Worker : Established(w)'
    BY <1>0, <2>1, <2>2 DEF Guarded, Established, Open
  <2> QED BY <1>0, <2>1, <2>3 DEF Guarded, Admitted
<1>25. CASE UNCHANGED vars
  BY <1>20, <1>25 DEF vars, hydra, rollout
<1> QED
  BY <1>1, <1>2, <1>3, <1>4, <1>5, <1>6, <1>7, <1>9, <1>10, <1>11, <1>12, <1>13, <1>15,
     <1>17, <1>18, <1>19, <1>21, <1>22, <1>23, <1>24, <1>25 DEF Next, Proceed

LEMMA InvAlways == Spec => []Inv
<1>1. Init => Guarded
  <2> SUFFICES ASSUME Init PROVE Guarded
    OBVIOUS
  <2>1. \A c \in Challenge : Admitted(c)
    BY DEF Init, Admitted, Unsent, SignedIn
  <2>2. \A w \in Worker : Established(w)
    BY DEF Init, Established, Idle
  <2> QED BY <2>1, <2>2 DEF Guarded
<1> QED
  BY <1>1, GuardedStep, TypedAlways, PTL DEF Spec, Inv
\* Every authorization that gets past its login carries an address, although
\* Hydra may remember sessions that carry none.
THEOREM Address == Spec => []AddressOnEveryToken
<1>1. Inv => AddressOnEveryToken
  BY DEF Inv, Guarded, Admitted, AddressOnEveryToken, SignedIn
<1> QED BY <1>1, InvAlways, PTL

\* A login is accepted or a consent granted only while a version still serving
\* names the person, or to somebody a consent screen was shown to.
THEOREM NamedThen == Spec => NamedWhenDecided
<1> DEFINE Deciding == \A c \in Challenge :
             Decided(c) => Named(request'[c].subject) \/ c \in screens
<1>1. Inv /\ [Next]_vars => [Deciding]_vars
  <2> SUFFICES ASSUME Inv, Next, NEW d \in Challenge, Decided(d)
               PROVE  Named(request'[d].subject) \/ d \in screens
    OBVIOUS
  <2>0. Typed /\ Guarded
    BY DEF Inv
  <2>1. ASSUME NEW w \in Worker, AcceptLogin(w)
        PROVE  Named(request'[d].subject) \/ d \in screens
    <3>1. PICK c \in Challenge :
            /\ c = worker[w].challenge
            /\ worker[w].version \in oldest..latest
            /\ worker[w].subject \in Allowed[worker[w].version]
      BY <2>0, <2>1 DEF AcceptLogin, At, Typed, Carries, Guarded, Established
    <3>2. request[c] \in Request
      BY <2>0 DEF Typed, TypeOK
    <3>3. /\ request'[c].subject = worker[w].subject
          /\ \A e \in Challenge \ {c} : request'[e] = request[e]
      BY <2>0, <2>1, <3>1, <3>2 DEF AcceptLogin, Typed, TypeOK, Request
    <3> QED BY <3>1, <3>3 DEF Named, Decided
  <2>2. ASSUME NEW w \in Worker, AcceptConsent(w)
        PROVE  Named(request'[d].subject) \/ d \in screens
    <3>1. PICK c \in Challenge :
            /\ c = worker[w].challenge
            /\ worker[w].version \in oldest..latest
            /\ \/ c \in screens
               \/ request[c].subject \in Allowed[worker[w].version]
      BY <2>0, <2>2 DEF AcceptConsent, At, Typed, Carries, Guarded, Established
    <3>2. request[c] \in Request
      BY <2>0 DEF Typed, TypeOK
    <3>3. /\ request'[c].subject = request[c].subject
          /\ \A e \in Challenge \ {c} : request'[e] = request[e]
      BY <2>0, <2>2, <3>1, <3>2 DEF AcceptConsent, Typed, TypeOK, Request
    <3> QED BY <3>1, <3>3 DEF Named, Decided
  <2>3. ASSUME NEW c \in Challenge, NEW phase \in {"consent", "refused"},
               request' = [request EXCEPT ![c].phase = phase]
        PROVE  FALSE
    <3>1. request[c] \in Request
      BY <2>0 DEF Typed, TypeOK
    <3>2. request'[c].phase = phase /\ \A e \in Challenge \ {c} : request'[e] = request[e]
      BY <2>0, <2>3, <3>1 DEF Typed, TypeOK, Request
    <3> QED BY <3>2 DEF Decided
  <2>4. ASSUME NEW w \in Worker, RejectLogin(w) \/ RejectConsent(w) PROVE FALSE
    <3>1. worker[w].challenge \in Challenge
      BY <2>0, <2>4 DEF RejectLogin, RejectConsent, At, Typed, Carries
    <3> QED BY <2>3, <2>4, <3>1 DEF RejectLogin, RejectConsent
  <2>5. ASSUME NEW c \in Challenge, NEW b \in Browser, FollowLogin(c) \/ Begin(c, b)
        PROVE  FALSE
    <3>1. CASE FollowLogin(c)
      BY <2>3, <3>1 DEF FollowLogin
    <3>2. CASE Begin(c, b)
      <4>1. request'[c].phase = "login" /\ \A e \in Challenge \ {c} : request'[e] = request[e]
        BY <2>0, <3>2 DEF Begin, Typed, TypeOK
      <4> QED BY <4>1 DEF Decided
    <3> QED BY <2>5, <3>1, <3>2
  <2>6. CASE UNCHANGED request
    BY <2>6 DEF Decided
  <2>7. \/ UNCHANGED request
        \/ \E c \in Challenge : FollowLogin(c) \/ \E b \in Browser : Begin(c, b)
        \/ \E w \in Worker : AcceptLogin(w) \/ AcceptConsent(w) \/ RejectLogin(w) \/ RejectConsent(w)
    BY DEF Next, Proceed, ReceiveLogin, ReceiveConsent, ReceiveDecision, ReceiveCallback,
           Receive, GetLogin, CreateFlow, TakeFlow, ExchangeCode, GetConsent, GetDecision,
           RevokeConsents, RevokeLogins, Refused, CallFails, RevokeFails, FlowExpires,
           SessionExpires, Roll, Retire, hydra
  <2>8. ASSUME NEW c \in Challenge, FollowLogin(c) PROVE FALSE
    BY <2>3, <2>8 DEF FollowLogin
  <2> QED BY <2>1, <2>2, <2>4, <2>5, <2>6, <2>7, <2>8
<1> QED
  BY <1>1, InvAlways, PTL DEF Spec, NamedWhenDecided
(***************************************************************************)
(* Login implements LoginGate.  Every step of the provider is a step of    *)
(* the gate or leaves the gate's variables alone.                          *)
(***************************************************************************)
\* A step that moves one authorization moves that one in the gate.
LEMMA OneMoves ==
  ASSUME NEW c \in Challenge, \A d \in Challenge \ {c} : request'[d] = request[d],
         NEW s, Status(c)' = s, NEW p, TiedTo(c)' = p
  PROVE  /\ [d \in Challenge |-> Status(d)]' = [[d \in Challenge |-> Status(d)] EXCEPT ![c] = s]
         /\ [d \in Challenge |-> TiedTo(d)]' = [[d \in Challenge |-> TiedTo(d)] EXCEPT ![c] = p]
<1>1. \A d \in Challenge \ {c} : Status(d)' = Status(d) /\ TiedTo(d)' = TiedTo(d)
  BY DEF Status, TiedTo
<1> QED BY <1>1

LEMMA GateKept ==
  ASSUME UNCHANGED <<request, screens, grants>>
  PROVE  UNCHANGED Gate!vars
  BY DEF Gate!vars, Status, TiedTo

LEMMA GateStep == Inv /\ [Next]_vars => [Gate!Next]_Gate!vars
<1> SUFFICES ASSUME Inv, [Next]_vars PROVE Gate!Next \/ UNCHANGED Gate!vars
  OBVIOUS
<1>0. Typed /\ Guarded
  BY DEF Inv
<1>1. ASSUME NEW c \in Challenge, FollowLogin(c) PROVE UNCHANGED Gate!vars
  <2>1. request[c] \in Request
    BY <1>0 DEF Typed, TypeOK
  <2>2. /\ request[c].phase = "accepted" /\ request'[c].phase = "consent"
        /\ request'[c].subject = request[c].subject
        /\ \A d \in Challenge \ {c} : request'[d] = request[d]
    BY <1>0, <1>1, <2>1 DEF FollowLogin, Typed, TypeOK, Request
  <2>3. \A d \in Challenge : Status(d)' = Status(d) /\ TiedTo(d)' = TiedTo(d)
    BY <2>2 DEF Status, TiedTo
  <2> QED BY <1>1, <2>3 DEF FollowLogin, Gate!vars
<1>2. ASSUME NEW c \in Challenge, NEW b \in Browser, Begin(c, b) PROVE UNCHANGED Gate!vars
  <2>1. /\ request[c].phase = "unsent" /\ request'[c].phase = "login"
        /\ \A d \in Challenge \ {c} : request'[d] = request[d]
    BY <1>0, <1>2 DEF Begin, Unsent, Typed, TypeOK
  <2>2. \A d \in Challenge : Status(d)' = Status(d) /\ TiedTo(d)' = TiedTo(d)
    BY <2>1 DEF Status, TiedTo
  <2> QED BY <1>2, <2>2 DEF Begin, Gate!vars
<1>3. ASSUME NEW w \in Worker, GetConsent(w) PROVE Gate!Next \/ UNCHANGED Gate!vars
  <2>1. PICK c \in Challenge : c = worker[w].challenge /\ request[c].phase = "consent"
    BY <1>0, <1>3 DEF GetConsent, At, Open, Typed, Carries
  <2>2. UNCHANGED <<request, grants>>
    BY <1>3 DEF GetConsent, hydra
  <2>3. CASE UNCHANGED screens
    BY <2>2, <2>3, GateKept
  <2>4. CASE c \notin FirstParty /\ screens' = screens \cup {c}
    <3>1. Status(c) = "known"
      BY <2>1 DEF Status
    <3>2. Gate!Show(c)
      BY <2>2, <2>4, <3>1 DEF Gate!Show, Status, TiedTo
    <3> QED BY <3>2 DEF Gate!Next
  <2> QED BY <1>3, <2>1, <2>3, <2>4 DEF GetConsent, IsFirstParty
<1>4. ASSUME NEW w \in Worker, RevokeConsents(w) PROVE Gate!Next
  <2> DEFINE p == worker[w].subject
  <2>1. p \in Person \ Allowed[worker[w].version] /\ worker[w].version \in Version
    BY <1>0, <1>4, WorkerType DEF RevokeConsents, At, Guarded, Established, GoodWork, Work
  <2>2. p \in Unlisted
    BY <2>1 DEF Unlisted
  <2>3. \A c \in grants : c \in Challenge /\ TiedTo(c) = request[c].subject
    BY <1>0 DEF Guarded, Admitted, Typed, TypeOK, TiedTo
  <2>4. /\ grants' = {c \in grants : request[c].subject # p}
        /\ UNCHANGED <<request, screens>>
    BY <1>4 DEF RevokeConsents
  <2>5. Gate!Withdraw(p)
    BY <2>3, <2>4 DEF Gate!Withdraw, Status, TiedTo
  <2> QED BY <2>2, <2>5 DEF Gate!Next
<1>5. ASSUME NEW w \in Worker, RejectLogin(w) \/ RejectConsent(w) PROVE Gate!Next
  <2>1. PICK c \in Challenge :
          c = worker[w].challenge /\ request[c].phase \in {"login", "consent"}
    BY <1>0, <1>5 DEF RejectLogin, RejectConsent, At, Open, Typed, Carries
  <2>2. request[c] \in Request
    BY <1>0 DEF Typed, TypeOK
  <2>3. request'[c].phase = "refused" /\ \A d \in Challenge \ {c} : request'[d] = request[d]
    BY <1>0, <1>5, <2>1, <2>2 DEF RejectLogin, RejectConsent, Typed, TypeOK, Request
  <2>4. UNCHANGED <<grants, screens>>
    BY <1>5 DEF RejectLogin, RejectConsent, Respond
  <2>5. Status(c)' = "refused" /\ TiedTo(c)' = Nobody
    BY <2>3 DEF Status, TiedTo
  <2>6. Status(c) \in {"asked", "known"}
    BY <2>1 DEF Status
  <2>7. Gate!Refuse(c)
    BY <2>3, <2>4, <2>5, <2>6, OneMoves DEF Gate!Refuse
  <2> QED BY <2>7 DEF Gate!Next
<1>6. ASSUME NEW w \in Worker, AcceptLogin(w) PROVE Gate!Next
  <2>1. PICK c \in Challenge :
          /\ c = worker[w].challenge /\ request[c].phase = "login"
          /\ worker[w].version \in Version
          /\ worker[w].subject \in Allowed[worker[w].version]
    BY <1>0, <1>6, WorkerType
       DEF AcceptLogin, At, Open, Typed, Carries, Guarded, Established, GoodWork, Work
  <2>2. request[c] \in Request
    BY <1>0 DEF Typed, TypeOK
  <2>3. /\ request'[c].phase = "accepted" /\ request'[c].subject = worker[w].subject
        /\ \A d \in Challenge \ {c} : request'[d] = request[d]
    BY <1>0, <1>6, <2>1, <2>2 DEF AcceptLogin, Typed, TypeOK, Request
  <2>4. UNCHANGED <<grants, screens>>
    BY <1>6 DEF AcceptLogin, Respond
  <2>5. Status(c)' = "known" /\ TiedTo(c)' = worker[w].subject
    BY <2>3 DEF Status, TiedTo
  <2>6. Status(c) = "asked"
    BY <2>1 DEF Status
  <2>7. worker[w].subject \in Listed
    BY <2>1, ListedFacts
  <2>8. Gate!Accept(c)
    BY <2>3, <2>4, <2>5, <2>6, <2>7, OneMoves DEF Gate!Accept
  <2> QED BY <2>8 DEF Gate!Next
<1>7. ASSUME NEW w \in Worker, AcceptConsent(w) PROVE Gate!Next
  <2>1. PICK c \in Challenge :
          /\ c = worker[w].challenge /\ request[c].phase = "consent"
          /\ c \in FirstParty \cup screens
    BY <1>0, <1>7 DEF AcceptConsent, At, Open, Typed, Carries, Guarded, Established
  <2>2. request[c] \in Request
    BY <1>0 DEF Typed, TypeOK
  <2>3. /\ request'[c].phase = "granted" /\ request'[c].subject = request[c].subject
        /\ \A d \in Challenge \ {c} : request'[d] = request[d]
    BY <1>0, <1>7, <2>1, <2>2 DEF AcceptConsent, Typed, TypeOK, Request
  <2>4. grants' = grants \cup {c} /\ UNCHANGED screens
    BY <1>7, <2>1 DEF AcceptConsent, Respond
  <2>5. Status(c)' = "granted" /\ TiedTo(c)' = TiedTo(c)
    BY <2>1, <2>3 DEF Status, TiedTo
  <2>6. Status(c) = "known"
    BY <2>1 DEF Status
  <2>7. Gate!Grant(c)
    BY <2>1, <2>3, <2>4, <2>5, <2>6, OneMoves DEF Gate!Grant
  <2> QED BY <2>7 DEF Gate!Next
<1>8. \/ UNCHANGED <<request, screens, grants>>
      \/ \E c \in Challenge : FollowLogin(c) \/ \E b \in Browser : Begin(c, b)
      \/ \E w \in Worker : \/ GetConsent(w) \/ RevokeConsents(w)
                           \/ RejectLogin(w) \/ RejectConsent(w)
                           \/ AcceptLogin(w) \/ AcceptConsent(w)
  BY DEF Next, Proceed, ReceiveLogin, ReceiveConsent, ReceiveDecision, ReceiveCallback,
         Receive, GetLogin, CreateFlow, TakeFlow, ExchangeCode, GetDecision,
         RevokeLogins, Refused, CallFails, RevokeFails, FlowExpires,
         SessionExpires, Roll, Retire, hydra, vars
<1> QED
  BY <1>1, <1>2, <1>3, <1>4, <1>5, <1>6, <1>7, <1>8, GateKept

\* The provider implements the gate: an authorization is tied to a person on a
\* deployed list, is granted unasked only to a client of the deployment, and
\* loses its tokens only when a deployed list leaves its person out.
THEOREM Refinement == Spec => ImplementsGate
<1>1. Init => Gate!Init
  BY DEF Init, Gate!Init, Status, TiedTo, Unsent
<1> QED
  BY <1>1, GateStep, InvAlways, PTL DEF Spec, ImplementsGate, Gate!Spec
=============================================================================
