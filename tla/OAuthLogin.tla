----------------------------- MODULE OAuthLogin -----------------------------
(***************************************************************************)
(* "auth login" up to the token: Config.Login (internal/auth/oauth.go).    *)
(* A login binds a callback port, serves the browser's redirects there,    *)
(* takes the first result, and presents its code to the token endpoint.    *)
(*                                                                         *)
(* The browser is external: a page of the consent screen stays open as     *)
(* long as the user likes, and sends its redirect to the port it was made  *)
(* for, whoever listens there by then; and the port gets requests of no    *)
(* page at all (the bare address, another program).  A login's state,      *)
(* verifier and codes are named by the login (random values do not         *)
(* collide).                                                               *)
(***************************************************************************)
EXTENDS Naturals, Sequences, FiniteSets

CONSTANTS Logins,    \* runs of the command, one after another or in several terminals
          PortLists, \* Config.callbackPorts: several for the pob client, or one
          Requests,  \* bound: requests the port gets, a set 1..n
          NoPort, NoLogin

ASSUME LoginsAssumption == NoLogin \notin Logins
ASSUME PortsAssumption ==
  \A list \in PortLists : Len(list) > 0 /\ \A i \in DOMAIN list : list[i] # NoPort

VARIABLES callbackPorts, \* one of PortLists
          stage,     \* where each login is
          boundPort, \* the port it listened on
          resCh,     \* its channel of results, with one place
          res,       \* the result it took, or how it ended
          request,   \* the browser's requests
          presented, \* history: the codes each login sent to the token endpoint
          cause      \* history: the page whose result each login took

loginVars == <<stage, boundPort, resCh, res>>
vars == <<callbackPorts, loginVars, request, presented, cause>>

(* Results and outcomes; failed: no port, cancelled, timed out, killed, or *)
(* the exchange failed.                                                    *)
Results == {"none", "code", "denied", "mismatch", "granted", "failed"}
Stages == {"new", "waiting", "exchanging", "returning", "over"}

(* A request: the login whose page it comes from, if any, what it brings   *)
(* (an error parameter: denied; another path than the callback's, as the   *)
(* site's icon; or neither: a code), the login whose server has it, and    *)
(* how far it is.                                                          *)
Brings == {"code", "denied", "icon"}
Places == {"unsent", "sending", "replying", "settled"}
Unsent == [from |-> NoLogin, brings |-> "code", server |-> NoLogin, place |-> "unsent"]
Settled == [Unsent EXCEPT !.place = "settled"]  \* answered, or the connection failed

Init ==
  /\ callbackPorts \in PortLists
  /\ stage = [l \in Logins |-> "new"]
  /\ boundPort = [l \in Logins |-> NoPort]
  /\ resCh = [l \in Logins |-> <<>>]
  /\ res = [l \in Logins |-> "none"]
  /\ request = [r \in Requests |-> Unsent]
  /\ presented = [l \in Logins |-> <<>>]
  /\ cause = [l \in Logins |-> NoLogin]

Ports == {callbackPorts[i] : i \in DOMAIN callbackPorts}
Listening(l) == stage[l] \in {"waiting", "exchanging", "returning"}
Taken(p) == \E l \in Logins : Listening(l) /\ boundPort[l] = p

----------------------------------------------------------------------------
(* The login.                                                              *)

(* net.Listen on one port after another, until one is free.                *)
FirstAnyway(p) == p = callbackPorts[1]  \* mutant: the error of Listen is ignored
FirstFree(p) ==
  \E i \in DOMAIN callbackPorts :
    p = callbackPorts[i] /\ ~Taken(p) /\ \A j \in 1..(i - 1) : Taken(callbackPorts[j])

Bind(l) ==
  /\ stage[l] = "new"
  /\ \/ \E p \in Ports :
          /\ FirstFree(p)
          /\ boundPort' = [boundPort EXCEPT ![l] = p]
          /\ stage' = [stage EXCEPT ![l] = "waiting"]
          /\ UNCHANGED res
     \/ /\ \A p \in Ports : Taken(p)
        /\ stage' = [stage EXCEPT ![l] = "over"]
        /\ res' = [res EXCEPT ![l] = "failed"]
        /\ UNCHANGED boundPort
  /\ UNCHANGED <<callbackPorts, resCh, request, presented, cause>>

(* The select: a result, ...                                               *)
TakeResult(l) ==
  /\ stage[l] = "waiting" /\ resCh[l] # <<>>
  /\ res' = [res EXCEPT ![l] = Head(resCh[l]).result]
  /\ cause' = [cause EXCEPT ![l] = Head(resCh[l]).from]
  /\ resCh' = [resCh EXCEPT ![l] = Tail(resCh[l])]
  /\ IF Head(resCh[l]).result = "code"
     THEN /\ stage' = [stage EXCEPT ![l] = "exchanging"]
          /\ presented' = [presented EXCEPT ![l] = Append(@, Head(resCh[l]).from)]
     ELSE stage' = [stage EXCEPT ![l] = "returning"] /\ UNCHANGED presented
  /\ UNCHANGED <<callbackPorts, boundPort, request>>

Return(l, how) ==
  /\ stage' = [stage EXCEPT ![l] = "returning"]
  /\ res' = [res EXCEPT ![l] = how]
  /\ UNCHANGED <<callbackPorts, boundPort, resCh, request, presented, cause>>

(* ... Ctrl-C, which also ends an exchange under way, or five minutes.     *)
Cancel(l) == stage[l] \in {"waiting", "exchanging"} /\ Return(l, "failed")
NeverTimesOut(l) == FALSE /\ Return(l, "failed")  \* mutant
TimeOut(l) == stage[l] = "waiting" /\ Return(l, "failed")

(* postToken: the endpoint grants a token, refuses the code, or fails.     *)
Exchanged(l) ==
  stage[l] = "exchanging" /\ \E how \in {"granted", "failed"} : Return(l, how)

(* srv.Close cuts the connections, whatever their handlers are doing, and  *)
(* the port is free again; so it is when the process is killed.            *)
UnderWay(r) == request[r].place \in {"sending", "replying"}
CutNothing(l) == request  \* mutant
Cut(l) ==
  [r \in Requests |-> IF UnderWay(r) /\ request[r].server = l
                      THEN Settled ELSE request[r]]

Close(l) ==
  /\ stage[l] = "returning"
  /\ stage' = [stage EXCEPT ![l] = "over"]
  /\ request' = Cut(l)
  /\ UNCHANGED <<callbackPorts, boundPort, resCh, res, presented, cause>>

Kill(l) ==
  /\ Listening(l)
  /\ stage' = [stage EXCEPT ![l] = "over"]
  /\ res' = [res EXCEPT ![l] = "failed"]
  /\ request' = Cut(l)
  /\ UNCHANGED <<callbackPorts, boundPort, resCh, presented, cause>>

----------------------------------------------------------------------------
(* The callback server.  Once a login has printed its URL the user can     *)
(* consent or deny on its page, and reload, at any time; the browser sends *)
(* the redirect to the port the page was made for, where another login may *)
(* listen by then.  (Where nobody does, the tab shows an error at once.)   *)
(* A request of no page can come to any port, and its state is nobody's;   *)
(* whose page asks for the icon makes no difference.                       *)
FirstPort(l) == callbackPorts[1]  \* mutant: not the port that was bound
RedirectPort(l) == boundPort[l]

Page(l) == boundPort[l] # NoPort
Reaches(page, l) == page # NoLogin => Page(page) /\ boundPort[l] = RedirectPort(page)
NextRequest(r) ==
  request[r].place = "unsent" /\ \A q \in Requests : q < r => request[q].place # "unsent"

(* The handler looks at the path, the icon's being none of its own, then   *)
(* at the error parameter, then at the state.                              *)
Handle(r, l, page, brings) ==
  /\ NextRequest(r)
  /\ Listening(l) /\ Reaches(page, l) /\ (brings = "icon" => page = NoLogin)
  /\ request' = [request EXCEPT ![r] =
       [from |-> page, brings |-> brings, server |-> l,
        place |-> IF brings = "icon" THEN "replying" ELSE "sending"]]
  /\ UNCHANGED <<callbackPorts, loginVars, presented, cause>>

ResultUnseen(r) ==  \* mutant: no state check
  IF request[r].brings = "denied" THEN "denied" ELSE "code"
Result(r) ==
  CASE request[r].brings = "denied" -> "denied"
    [] request[r].brings # "denied" /\ request[r].from # request[r].server -> "mismatch"
    [] request[r].brings # "denied" /\ request[r].from = request[r].server -> "code"

(* The result waits for the one place in the channel; the page, written    *)
(* before, leaves when the handler returns.                                *)
Put(r) ==
  LET l == request[r].server IN
  /\ request[r].place = "sending" /\ resCh[l] = <<>>
  /\ resCh' = [resCh EXCEPT ![l] = <<[result |-> Result(r), from |-> request[r].from]>>]
  /\ request' = [request EXCEPT ![r].place = "replying"]
  /\ UNCHANGED <<callbackPorts, stage, boundPort, res, presented, cause>>

Reply(r) ==
  /\ request[r].place = "replying"
  /\ request' = [request EXCEPT ![r] = Settled]
  /\ UNCHANGED <<callbackPorts, loginVars, presented, cause>>

----------------------------------------------------------------------------
Serve(r) == Put(r) \/ Reply(r)
Proceed(l) == TakeResult(l) \/ TimeOut(l) \/ Exchanged(l) \/ Close(l)

Next ==
  \/ \E l \in Logins : Bind(l) \/ Proceed(l) \/ Cancel(l) \/ Kill(l)
  \/ \E r \in Requests, l \in Logins, page \in Logins \cup {NoLogin}, brings \in Brings :
       Handle(r, l, page, brings)
  \/ \E r \in Requests : Serve(r)

(* The timer of five minutes fires, the HTTP client of the exchange has a  *)
(* timeout, the server's goroutines run.  Users promise nothing, also not  *)
(* to start a login.                                                       *)
Fairness ==
  (\A l \in Logins : WF_vars(Proceed(l))) /\ (\A r \in Requests : WF_vars(Serve(r)))

Spec == Init /\ [][Next]_vars /\ Fairness

----------------------------------------------------------------------------
(* The types of the login's locals (oauth.go:71-100), and one login to a   *)
(* port.                                                                   *)
TypeOK ==
  /\ stage \in [Logins -> Stages] /\ res \in [Logins -> Results]
  /\ boundPort \in [Logins -> Ports \cup {NoPort}]
  /\ cause \in [Logins -> Logins \cup {NoLogin}]
  /\ \A l \in Logins : Len(resCh[l]) <= 1
  /\ request \in [Requests -> [from : Logins \cup {NoLogin}, brings : Brings,
                               server : Logins \cup {NoLogin}, place : Places]]
  /\ \A l, m \in Logins :
       Listening(l) /\ Listening(m) /\ boundPort[l] = boundPort[m] => l = m

(* A code is presented with the verifier it was asked for and no other, at *)
(* most once, also when pages of a login that is over are still sent to    *)
(* the port, or are reloaded (Login, oauth.go:104-144).                    *)
OwnCodeOnce ==
  \A l \in Logins : presented[l] \in {<<>>, <<l>>}

(* Logins in several terminals do not disturb each other: what a login     *)
(* takes from the page of another is of one that is over and had the same  *)
(* port, be it a denial or a foreign state, and its own page never fails   *)
(* it by the state (Login, oauth.go:84-98 and 112-124).                    *)
NotDisturbed ==
  \A l \in Logins :
    /\ cause[l] \in Logins \ {l} => stage[cause[l]] = "over" /\ boundPort[cause[l]] = boundPort[l]
    /\ res[l] = "mismatch" => cause[l] # l

(* A login that has opened the browser ends, whatever the user does        *)
(* (Login, oauth.go:135-144).                                              *)
LoginReturns == \A l \in Logins : stage[l] = "waiting" ~> stage[l] = "over"

(* No tab keeps loading, although handlers block on the channel when there *)
(* is a result already (Login, oauth.go:104-128).                          *)
TabsSettle ==
  \A r \in Requests : request[r].place = "sending" ~> request[r].place = "settled"
=============================================================================
