-------------------------- MODULE OAuthLoginProofs --------------------------
(***************************************************************************)
(* Proofs about OAuthLogin, for any number of logins, ports and requests:  *)
(* its types, that a login presents its own code only and once, and that   *)
(* of the other logins only those that are over can disturb one.           *)
(***************************************************************************)
EXTENDS OAuthLogin, TLAPS

Pages == Logins \cup {NoLogin}
Message == [result : {"code", "denied", "mismatch"}, from : Pages]
Channel == {<<>>} \cup {<<m>> : m \in Message}

(* A login that is over and whose pages reach l.                           *)
Stale(l, m) == m # l /\ stage[m] = "over" /\ boundPort[m] = boundPort[l]

(* The pages whose requests reach l: none, its own, and the stale ones.    *)
Reaching(l, m) == m \in Pages /\ (m \in Logins \ {l} => Stale(l, m))

Types ==
  /\ callbackPorts \in PortLists
  /\ stage \in [Logins -> Stages] /\ res \in [Logins -> Results]
  /\ boundPort \in [Logins -> Ports \cup {NoPort}]
  /\ resCh \in [Logins -> Channel]
  /\ presented \in [Logins -> Seq(Pages)] /\ cause \in [Logins -> Pages]
  /\ request \in [Requests -> [from : Logins \cup {NoLogin}, brings : Brings,
                               server : Logins \cup {NoLogin}, place : Places]]

(* Who listens has a port, and it alone.                                   *)
PortInv ==
  /\ \A l \in Logins : stage[l] = "new" => boundPort[l] = NoPort
  /\ \A l \in Logins : Listening(l) => boundPort[l] # NoPort
  /\ \A l, m \in Logins :
       Listening(l) /\ Listening(m) /\ boundPort[l] = boundPort[m] => l = m

(* What a request, a result in the channel and a result that was taken     *)
(* come from reaches the login; a mismatch is not of its own page.         *)
CauseInv ==
  /\ \A r \in Requests : UnderWay(r) =>
       /\ request[r].server \in Logins /\ stage[request[r].server] # "new"
       /\ Reaching(request[r].server, request[r].from)
  /\ \A l \in Logins : \A m \in Message : resCh[l] = <<m>> =>
       stage[l] # "new" /\ Reaching(l, m.from) /\ (m.result = "mismatch" => m.from # l)
  /\ \A l \in Logins :
       /\ stage[l] = "new" => cause[l] = NoLogin
       /\ Reaching(l, cause[l])
       /\ res[l] = "mismatch" => cause[l] # l

(* A code in the channel is the login's own, and until it is taken none    *)
(* was presented.                                                          *)
CodeInv ==
  /\ \A l \in Logins : \A m \in Message : resCh[l] = <<m>> =>
       (m.result = "code" => m.from = l)
  /\ \A l \in Logins : stage[l] \in {"new", "waiting"} => presented[l] = <<>>
  /\ OwnCodeOnce

IInv == Types /\ PortInv /\ CauseInv /\ CodeInv

----------------------------------------------------------------------------
(* A channel of one place: what is in it, and what taking it leaves.       *)
LEMMA ChannelOf ==
  ASSUME NEW c \in Channel, c # <<>>
  PROVE  \E m \in Message : c = <<m>> /\ Head(c) = m /\ Tail(c) = <<>>
<1>1. PICK m \in Message : c = <<m>>
  BY DEF Channel
<1>2. Head(c) = m /\ Tail(c) = <<>>
  BY <1>1
<1> QED
  BY <1>1, <1>2

LEMMA Initially == Init => IInv
<1> SUFFICES ASSUME Init PROVE IInv
  OBVIOUS
<1> USE DEF Init
<1>1. Types
  BY DEF Types, Stages, Results, Channel, Unsent, Brings, Places, Pages
<1>2. PortInv
  BY DEF PortInv, Listening
<1>3. CauseInv
  BY LoginsAssumption DEF CauseInv, UnderWay, Unsent, Reaching, Pages
<1>4. CodeInv
  BY DEF CodeInv, OwnCodeOnce
<1> QED
  BY <1>1, <1>2, <1>3, <1>4 DEF IInv

----------------------------------------------------------------------------
(* Nobody becomes new again, what is over stays so, and a port once bound  *)
(* is the login's for good.                                                *)
Forward ==
  \A l \in Logins :
    /\ stage[l] # "new" => stage'[l] # "new" /\ boundPort'[l] = boundPort[l]
    /\ stage[l] = "over" => stage'[l] = "over"

LEMMA ReachingStays ==
  ASSUME Forward, NEW l \in Logins, NEW m, stage[l] # "new", Reaching(l, m)
  PROVE  Reaching(l, m)'
BY DEF Forward, Reaching, Stale

LEMMA PortsKept == UNCHANGED callbackPorts => Ports' = Ports
BY DEF Ports

(* Steps that leave the channels, and take from the requests only what     *)
(* they settle, keep what is known of the causes if the result is no       *)
(* mismatch.                                                               *)
LEMMA CauseKept ==
  ASSUME CauseInv, Types, Forward, UNCHANGED <<resCh, cause>>,
         \A r \in Requests : UnderWay(r)' => UnderWay(r) /\ request'[r] = request[r],
         \A l \in Logins : res'[l] = "mismatch" => res[l] = "mismatch",
         \A l \in Logins : stage'[l] = "new" => stage[l] = "new"
  PROVE  CauseInv'
<1>1. ASSUME NEW r \in Requests, UnderWay(r)'
      PROVE  /\ request'[r].server \in Logins /\ stage'[request'[r].server] # "new"
             /\ Reaching(request[r].server, request[r].from)'
  <2>1. UnderWay(r) /\ request'[r] = request[r]
    BY <1>1
  <2>2. request[r].server \in Logins /\ stage[request[r].server] # "new"
        /\ Reaching(request[r].server, request[r].from)
    BY <2>1 DEF CauseInv
  <2>3. stage'[request[r].server] # "new"
    BY <2>2 DEF Forward
  <2>4. Reaching(request[r].server, request[r].from)'
    BY <2>1, <2>2, ReachingStays DEF Reaching, Stale, Forward
  <2> QED
    BY <2>1, <2>2, <2>3, <2>4
<1>2. ASSUME NEW l \in Logins, NEW m \in Message, resCh'[l] = <<m>>
      PROVE  stage'[l] # "new" /\ Reaching(l, m.from)' /\ (m.result = "mismatch" => m.from # l)
  <2>1. stage[l] # "new" /\ Reaching(l, m.from) /\ (m.result = "mismatch" => m.from # l)
    BY <1>2 DEF CauseInv
  <2> QED
    BY <2>1, ReachingStays DEF Forward
<1>3. ASSUME NEW l \in Logins
      PROVE  /\ stage'[l] = "new" => cause'[l] = NoLogin
             /\ Reaching(l, cause[l])'
             /\ res'[l] = "mismatch" => cause'[l] # l
  <2>1. /\ stage[l] = "new" => cause[l] = NoLogin
        /\ Reaching(l, cause[l])
        /\ res[l] = "mismatch" => cause[l] # l
    BY DEF CauseInv
  <2>2. Reaching(l, cause[l])'
    <3>1. CASE stage[l] = "new"
      BY <2>1, <3>1, LoginsAssumption DEF Reaching, Pages
    <3>2. CASE stage[l] # "new"
      BY <2>1, <3>2, ReachingStays DEF Reaching, Stale, Forward
    <3> QED
      BY <3>1, <3>2
  <2> QED
    BY <2>1, <2>2
<1> QED
  BY <1>1, <1>2, <1>3 DEF CauseInv, Reaching, Stale

----------------------------------------------------------------------------
(* The steps.                                                              *)
LEMMA BindStep ==
  ASSUME IInv, NEW l \in Logins, Bind(l)
  PROVE  IInv'
<1> USE DEF IInv
<1>1. callbackPorts \in PortLists /\ \A p \in Ports : p # NoPort
  BY PortsAssumption DEF Types, Ports
<1>2. Types'
  <2>1. Ports' = Ports
    BY PortsKept DEF Bind
  <2>2. boundPort' \in [Logins -> Ports \cup {NoPort}]
    BY DEF Bind, Types
  <2>3. stage' \in [Logins -> Stages] /\ res' \in [Logins -> Results]
    BY DEF Bind, Types, Stages, Results
  <2> QED
    BY <2>1, <2>2, <2>3 DEF Bind, Types
<1>3. Forward
  BY DEF Bind, Forward, Types
<1>4. PortInv'
  <2>1. CASE stage'[l] = "waiting"
    <3>1. PICK p \in Ports : ~Taken(p) /\ boundPort' = [boundPort EXCEPT ![l] = p]
                             /\ stage' = [stage EXCEPT ![l] = "waiting"]
      BY <2>1 DEF Bind, FirstFree, Types
    <3> QED
      BY <3>1, <1>1 DEF Types, PortInv, Taken, Listening
  <2>2. CASE stage'[l] # "waiting"
    <3>1. stage' = [stage EXCEPT ![l] = "over"] /\ UNCHANGED boundPort
      BY <2>2 DEF Bind, Types
    <3> QED
      BY <3>1 DEF Types, PortInv, Listening
  <2> QED
    BY <2>1, <2>2
<1>5. CauseInv'
  <2>1. \A k \in Logins : res'[k] = "mismatch" => res[k] = "mismatch"
    BY DEF Bind, Types
  <2>2. \A k \in Logins : stage'[k] = "new" => stage[k] = "new"
    BY DEF Bind, Types
  <2> QED
    BY <2>1, <2>2, <1>3, CauseKept DEF Bind, UnderWay
<1>6. CodeInv'
  BY DEF Bind, Types, CodeInv, OwnCodeOnce
<1> QED
  BY <1>2, <1>4, <1>5, <1>6

LEMMA TakeStep ==
  ASSUME IInv, NEW l \in Logins, TakeResult(l)
  PROVE  IInv'
<1> USE DEF IInv
<1>1. PICK m \in Message : resCh[l] = <<m>> /\ Head(resCh[l]) = m /\ Tail(resCh[l]) = <<>>
  BY ChannelOf DEF TakeResult, Types
<1>2. resCh' = [resCh EXCEPT ![l] = <<>>] /\ res' = [res EXCEPT ![l] = m.result]
  BY <1>1 DEF TakeResult
<1>3. m.from \in Pages /\ m.result \in {"code", "denied", "mismatch"}
  BY DEF Message
<1>4. presented[l] = <<>>
  BY DEF TakeResult, CodeInv
<1>5. presented' = IF m.result = "code" THEN [presented EXCEPT ![l] = <<m.from>>] ELSE presented
  <2>1. Append(<<>>, m.from) = <<m.from>>
    OBVIOUS
  <2> QED
    BY <1>1, <1>4, <2>1 DEF TakeResult, Types
<1>6. stage' = [stage EXCEPT ![l] = IF m.result = "code" THEN "exchanging" ELSE "returning"]
      /\ UNCHANGED <<callbackPorts, boundPort, request>>
  BY <1>1 DEF TakeResult
<1>c. cause' = [cause EXCEPT ![l] = m.from]
  BY <1>1 DEF TakeResult
<1>7. Types'
  <2>1. resCh' \in [Logins -> Channel]
    BY <1>2 DEF Types, Channel
  <2>2. presented' \in [Logins -> Seq(Pages)]
    BY <1>3, <1>5 DEF Types
  <2> QED
    BY <1>2, <1>3, <1>6, <1>c, <2>1, <2>2, PortsKept DEF Types, Stages, Results
<1>8. Forward
  BY <1>6 DEF Forward, Types, TakeResult
<1>9. PortInv'
  BY <1>6 DEF PortInv, Listening, Types, TakeResult
<1>10. CauseInv'
  <2>0. \A k \in Logins : stage'[k] = "new" => stage[k] = "new" /\ k # l
    BY <1>6 DEF Types, TakeResult
  <2>1. ASSUME NEW r \in Requests, UnderWay(r)'
        PROVE  /\ request'[r].server \in Logins /\ stage'[request'[r].server] # "new"
               /\ Reaching(request[r].server, request[r].from)'
    <3>1. request' = request /\ UnderWay(r)
      BY <1>6, <2>1 DEF UnderWay
    <3>2. /\ request[r].server \in Logins /\ stage[request[r].server] # "new"
          /\ Reaching(request[r].server, request[r].from)
      BY <3>1 DEF CauseInv
    <3> QED
      BY <3>1, <3>2, <1>8, ReachingStays DEF Forward, Reaching, Stale
  <2>2. ASSUME NEW k \in Logins, NEW n \in Message, resCh'[k] = <<n>>
        PROVE  stage'[k] # "new" /\ Reaching(k, n.from)' /\ (n.result = "mismatch" => n.from # k)
    <3>1. resCh[k] = <<n>>
      BY <1>2, <2>2 DEF Types
    <3>2. stage[k] # "new" /\ Reaching(k, n.from) /\ (n.result = "mismatch" => n.from # k)
      BY <3>1 DEF CauseInv
    <3> QED
      BY <3>2, <1>8, ReachingStays DEF Forward
  <2>3. ASSUME NEW k \in Logins
        PROVE  /\ stage'[k] = "new" => cause'[k] = NoLogin
               /\ Reaching(k, cause[k])'
               /\ res'[k] = "mismatch" => cause'[k] # k
    <3>1. CASE k = l
      <4>1. cause'[k] = m.from /\ res'[k] = m.result
        BY <1>2, <1>c, <3>1 DEF Types
      <4>2. stage[k] # "new" /\ Reaching(k, m.from) /\ (m.result = "mismatch" => m.from # k)
        BY <1>1, <3>1 DEF CauseInv
      <4>3. Reaching(k, m.from)'
        BY <4>2, <1>8, ReachingStays
      <4>4. Reaching(k, cause[k])'
        BY <4>1, <4>3 DEF Reaching, Stale
      <4> QED
        BY <4>1, <4>2, <4>4, <2>0, <3>1
    <3>2. CASE k # l
      <4>1. cause'[k] = cause[k] /\ res'[k] = res[k]
        BY <1>2, <1>c, <3>2 DEF Types
      <4>2. /\ stage[k] = "new" => cause[k] = NoLogin
            /\ Reaching(k, cause[k])
            /\ res[k] = "mismatch" => cause[k] # k
        BY DEF CauseInv
      <4>3. Reaching(k, cause[k])'
        <5>1. CASE stage[k] = "new"
          BY <4>1, <4>2, <5>1, LoginsAssumption DEF Reaching, Pages
        <5>2. CASE stage[k] # "new"
          BY <4>1, <4>2, <5>2, <1>8, ReachingStays DEF Reaching, Stale, Forward
        <5> QED
          BY <5>1, <5>2
      <4> QED
        BY <4>1, <4>2, <4>3, <2>0
    <3> QED
      BY <3>1, <3>2
  <2> QED
    BY <2>1, <2>2, <2>3 DEF CauseInv, Reaching, Stale
<1>11. CodeInv'
  <2>1. m.result = "code" => m.from = l
    BY <1>1 DEF CodeInv
  <2>2. OwnCodeOnce'
    BY <1>5, <2>1 DEF CodeInv, OwnCodeOnce, Types
  <2>3. \A k \in Logins : \A n \in Message : resCh'[k] = <<n>> => (n.result = "code" => n.from = k)
    BY <1>2 DEF CodeInv, Types
  <2>4. \A k \in Logins : stage'[k] \in {"new", "waiting"} => presented'[k] = <<>>
    BY <1>5, <1>6 DEF CodeInv, Types
  <2> QED
    BY <2>2, <2>3, <2>4 DEF CodeInv
<1> QED
  BY <1>7, <1>9, <1>10, <1>11

(* Cancel, TimeOut and Exchanged.                                          *)
LEMMA ReturnStep ==
  ASSUME IInv, NEW l \in Logins, NEW how \in {"granted", "failed"}, Return(l, how),
         stage[l] \in {"waiting", "exchanging"}
  PROVE  IInv'
<1> USE DEF IInv, Return
<1>1. Types'
  BY PortsKept DEF Types, Stages, Results
<1>2. Forward
  BY DEF Forward, Types
<1>3. PortInv'
  BY DEF PortInv, Listening, Types
<1>4. CauseInv'
  <2>1. \A k \in Logins : (res'[k] = "mismatch" => res[k] = "mismatch")
                         /\ (stage'[k] = "new" => stage[k] = "new")
    BY DEF Types
  <2> QED
    BY <1>2, <2>1, CauseKept DEF UnderWay
<1>5. CodeInv'
  BY DEF CodeInv, OwnCodeOnce, Types
<1> QED
  BY <1>1, <1>3, <1>4, <1>5

(* Close and Kill.                                                         *)
LEMMA CutStep ==
  ASSUME IInv, NEW l \in Logins, Close(l) \/ Kill(l)
  PROVE  IInv'
<1> USE DEF IInv, Close, Kill
<1>1. request' = Cut(l) /\ stage' = [stage EXCEPT ![l] = "over"] /\ Listening(l)
      /\ UNCHANGED <<callbackPorts, boundPort, resCh, presented, cause>>
  BY DEF Listening
<1>2. Types'
  BY <1>1, PortsKept DEF Types, Stages, Results, Cut, Settled, Unsent, Brings, Places
<1>3. Forward
  BY <1>1 DEF Forward, Types
<1>4. PortInv'
  BY <1>1 DEF PortInv, Listening, Types
<1>5. CauseInv'
  <2>1. \A k \in Logins : (res'[k] = "mismatch" => res[k] = "mismatch")
                         /\ (stage'[k] = "new" => stage[k] = "new")
    BY <1>1 DEF Types
  <2>2. \A r \in Requests : UnderWay(r)' => UnderWay(r) /\ request'[r] = request[r]
    BY <1>1 DEF Cut, UnderWay, Settled
  <2> QED
    BY <1>1, <1>3, <2>1, <2>2, CauseKept
<1>6. CodeInv'
  BY <1>1 DEF CodeInv, OwnCodeOnce, Types, Listening
<1> QED
  BY <1>2, <1>4, <1>5, <1>6

(* A page whose redirect another login's server gets is stale.             *)
LEMMA HandleStep ==
  ASSUME IInv, NEW r \in Requests, NEW l \in Logins, NEW page \in Pages, NEW brings \in Brings,
         Handle(r, l, page, brings)
  PROVE  IInv'
<1> USE DEF IInv
<1>1. Reaching(l, page)
  <2> SUFFICES ASSUME page \in Logins \ {l} PROVE Stale(l, page)
    BY DEF Reaching
  <2>1. Listening(l) /\ boundPort[page] # NoPort /\ boundPort[l] = boundPort[page]
    BY LoginsAssumption DEF Handle, Reaches, Page, RedirectPort
  <2>2. stage[page] # "new"
    BY <2>1 DEF PortInv
  <2>3. Listening(page) \/ stage[page] = "over"
    BY <2>2 DEF Types, Stages, Listening
  <2> QED
    BY <2>1, <2>3 DEF PortInv, Stale
<1>2. PICK place \in {"sending", "replying"} :
        request' = [request EXCEPT ![r] =
                      [from |-> page, brings |-> brings, server |-> l, place |-> place]]
  BY DEF Handle
<1>3. Types'
  BY <1>2, PortsKept DEF Handle, loginVars, Types, Places, Pages
<1>4. Forward
  BY DEF Handle, loginVars, Forward
<1>5. PortInv'
  BY DEF Handle, loginVars, PortInv, Listening
<1>6. CauseInv'
  <2>1. ASSUME NEW q \in Requests, UnderWay(q)'
        PROVE  /\ request'[q].server \in Logins /\ stage[request'[q].server] # "new"
               /\ Reaching(request'[q].server, request'[q].from)
    <3>1. CASE q = r
      <4>1. request'[q] = [from |-> page, brings |-> brings, server |-> l, place |-> place]
        BY <1>2, <3>1 DEF Types
      <4> QED
        BY <4>1, <1>1 DEF Handle, Listening
    <3>2. CASE q # r
      <4>1. request'[q] = request[q] /\ UnderWay(q)
        BY <1>2, <2>1, <3>2 DEF Types, UnderWay
      <4> QED
        BY <4>1 DEF CauseInv
    <3> QED
      BY <3>1, <3>2
  <2> QED
    BY <2>1 DEF CauseInv, Handle, loginVars, Reaching, Stale
<1>7. CodeInv'
  BY DEF Handle, loginVars, CodeInv, OwnCodeOnce
<1> QED
  BY <1>3, <1>5, <1>6, <1>7

LEMMA PutStep ==
  ASSUME IInv, NEW r \in Requests, Put(r)
  PROVE  IInv'
<1> USE DEF IInv
<1> DEFINE l == request[r].server
           m == [result |-> Result(r), from |-> request[r].from]
<1>1. l \in Logins /\ request[r].from \in Pages /\ stage[l] # "new" /\ Reaching(l, request[r].from)
  BY DEF Put, UnderWay, CauseInv, Reaching
<1>2. Result(r) \in {"code", "denied", "mismatch"}
      /\ (Result(r) = "code" => request[r].from = l)
      /\ (Result(r) = "mismatch" => request[r].from # l)
  BY DEF Result
<1>3. m \in Message
  BY <1>1, <1>2 DEF Message
<1>4. resCh' = [resCh EXCEPT ![l] = <<m>>]
      /\ request' = [request EXCEPT ![r].place = "replying"]
      /\ UNCHANGED <<callbackPorts, stage, boundPort, res, presented, cause>>
  BY DEF Put
<1> HIDE DEF l, m
<1>5. Types'
  <2>1. resCh' \in [Logins -> Channel]
    BY <1>1, <1>3, <1>4 DEF Types, Channel
  <2> QED
    BY <1>4, <2>1, PortsKept DEF Types, Places
<1>6. PortInv'
  BY <1>4 DEF PortInv, Listening
<1>7. ASSUME NEW k \in Logins, NEW n \in Message, resCh'[k] = <<n>>
      PROVE  (k = l /\ n = m) \/ resCh[k] = <<n>>
  BY <1>1, <1>4, <1>7 DEF Types
<1>8. CauseInv'
  <2>1. ASSUME NEW q \in Requests, UnderWay(q)'
        PROVE  UnderWay(q) /\ request'[q].from = request[q].from
               /\ request'[q].server = request[q].server
    BY <1>4, <2>1 DEF Types, UnderWay, Put
  <2>2. ASSUME NEW k \in Logins, NEW n \in Message, resCh'[k] = <<n>>
        PROVE  stage[k] # "new" /\ Reaching(k, n.from) /\ (n.result = "mismatch" => n.from # k)
    <3>1. CASE k = l /\ n = m
      BY <3>1, <1>1, <1>2 DEF m
    <3>2. CASE resCh[k] = <<n>>
      BY <3>2 DEF CauseInv
    <3> QED
      BY <3>1, <3>2, <2>2, <1>7
  <2> QED
    BY <1>4, <2>1, <2>2 DEF CauseInv, Reaching, Stale
<1>9. CodeInv'
  <2>1. ASSUME NEW k \in Logins, NEW n \in Message, resCh'[k] = <<n>>
        PROVE  n.result = "code" => n.from = k
    <3>1. CASE k = l /\ n = m
      BY <3>1, <1>2 DEF m
    <3>2. CASE resCh[k] = <<n>>
      BY <3>2 DEF CodeInv
    <3> QED
      BY <3>1, <3>2, <2>1, <1>7
  <2> QED
    BY <1>4, <2>1 DEF CodeInv, OwnCodeOnce
<1> QED
  BY <1>5, <1>6, <1>8, <1>9

LEMMA ReplyStep ==
  ASSUME IInv, NEW r \in Requests, Reply(r)
  PROVE  IInv'
<1> USE DEF IInv, Reply, loginVars
<1>1. Types'
  BY PortsKept DEF Types, Settled, Unsent, Brings, Places
<1>2. PortInv'
  BY DEF PortInv, Listening
<1>3. CauseInv'
  <2>1. \A q \in Requests : UnderWay(q)' => UnderWay(q) /\ request'[q] = request[q]
    BY DEF UnderWay, Settled, Types
  <2>2. Forward
    BY DEF Forward
  <2> QED
    BY <2>1, <2>2, CauseKept
<1>4. CodeInv'
  BY DEF CodeInv, OwnCodeOnce
<1> QED
  BY <1>1, <1>2, <1>3, <1>4

----------------------------------------------------------------------------
LEMMA Preserved == IInv /\ [Next]_vars => IInv'
<1> SUFFICES ASSUME IInv, [Next]_vars PROVE IInv'
  OBVIOUS
<1>1. ASSUME NEW l \in Logins, Bind(l) PROVE IInv'
  BY <1>1, BindStep
<1>2. ASSUME NEW l \in Logins, TakeResult(l) PROVE IInv'
  BY <1>2, TakeStep
<1>3. ASSUME NEW l \in Logins, Cancel(l) \/ TimeOut(l) \/ Exchanged(l) PROVE IInv'
  BY <1>3, ReturnStep DEF Cancel, TimeOut, Exchanged
<1>4. ASSUME NEW l \in Logins, Close(l) \/ Kill(l) PROVE IInv'
  BY <1>4, CutStep
<1>5. ASSUME NEW r \in Requests, NEW l \in Logins, NEW page \in Pages, NEW brings \in Brings,
             Handle(r, l, page, brings)
      PROVE  IInv'
  BY <1>5, HandleStep
<1>6. ASSUME NEW r \in Requests, Put(r) PROVE IInv'
  BY <1>6, PutStep
<1>7. ASSUME NEW r \in Requests, Reply(r) PROVE IInv'
  BY <1>7, ReplyStep
<1>8. ASSUME UNCHANGED vars PROVE IInv'
  <2> USE <1>8 DEF vars, loginVars
  <2>1. Types'
    BY PortsKept DEF IInv, Types
  <2>2. PortInv'
    BY DEF IInv, PortInv, Listening
  <2>3. CauseInv'
    BY DEF IInv, CauseInv, UnderWay, Reaching, Stale
  <2>4. CodeInv'
    BY DEF IInv, CodeInv, OwnCodeOnce
  <2> QED
    BY <2>1, <2>2, <2>3, <2>4 DEF IInv
<1> QED
  BY <1>1, <1>2, <1>3, <1>4, <1>5, <1>6, <1>7, <1>8 DEF Next, Proceed, Serve, Pages

LEMMA Invariance == Spec => []IInv
<1>1. Init => IInv
  BY Initially
<1>2. IInv /\ [Next]_vars => IInv'
  BY Preserved
<1> QED
  BY <1>1, <1>2, PTL DEF Spec

(* Every variable of the logins keeps its type, and a port has one         *)
(* listener (oauth.go:71-100).                                             *)
THEOREM LoginTypes == Spec => []TypeOK
<1>1. IInv => TypeOK
  <2> SUFFICES ASSUME IInv PROVE TypeOK
    OBVIOUS
  <2>1. \A l \in Logins : Len(resCh[l]) <= 1
    <3> SUFFICES ASSUME NEW l \in Logins PROVE Len(resCh[l]) <= 1
      OBVIOUS
    <3>1. resCh[l] = <<>> \/ \E m \in Message : resCh[l] = <<m>>
      BY DEF IInv, Types, Channel
    <3>2. CASE resCh[l] = <<>>
      BY <3>2
    <3>3. ASSUME NEW m \in Message, resCh[l] = <<m>> PROVE Len(resCh[l]) <= 1
      <4>1. Len(<<m>>) = 1
        OBVIOUS
      <4> QED
        BY <3>3, <4>1
    <3> QED
      BY <3>1, <3>2, <3>3
  <2> QED
    BY <2>1 DEF IInv, Types, PortInv, TypeOK, Pages
<1> QED
  BY <1>1, Invariance, PTL

(* Any number of logins, ports, pages and reloads: a code is presented by  *)
(* the login that asked for it, and once (Login, oauth.go:104-144).        *)
THEOREM PresentsOwnCodeOnce == Spec => []OwnCodeOnce
<1>1. IInv => OwnCodeOnce
  BY DEF IInv, CodeInv
<1> QED
  BY <1>1, Invariance, PTL

(* Of the other logins only one that is over and had the same port can end *)
(* a login's wait, and the login's own page never fails it by the state    *)
(* (Login, oauth.go:84-98 and 112-124).                                    *)
THEOREM OthersDoNotDisturb == Spec => []NotDisturbed
<1>1. IInv => NotDisturbed
  BY DEF IInv, CauseInv, NotDisturbed, Reaching, Stale
<1> QED
  BY <1>1, Invariance, PTL
=============================================================================
