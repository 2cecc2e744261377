----------------------------- MODULE UdtConnect -----------------------------
(***************************************************************************)
(* connect() at the clients (udt/src/core.cpp), composed with the          *)
(* listening end of UdtSockets.  What was sent may arrive at any time,     *)
(* repeatedly, or never: net only grows, and a request that connect()      *)
(* repeats (every 250 ms) is one more arrival.                             *)
(***************************************************************************)
EXTENDS UdtSockets

CONSTANTS
  MaxMinute,      \* bound: minutes after which the cookie changed
  Overtaking      \* whether a data packet may overtake the response of the handshake, or
                  \* the connector expire while its thread is still in the loop

VARIABLES
  client,     \* m_bConnecting, m_bConnected, m_ConnRes and the outcome of connect()
  net,        \* what was sent so far
  minute      \* minutes since m_StartTime of the listener

allVars == <<vars, client, net, minute>>

NoCookie == -1

Request(c, cookie) == [type |-> "request", from |-> c, cookie |-> cookie]
Challenge(c) == [type |-> "challenge", to |-> c, cookie |-> minute]
Response(c, i) == [type |-> "response", to |-> c, id |-> i]
Reject(c) == [type |-> "reject", to |-> c]

(***************************************************************************)
(* The client.                                                             *)
(***************************************************************************)
ConnectCall(c) ==
  /\ client[c].at = "start"
  /\ client' = [client EXCEPT ![c].at = "loop", ![c].connecting = TRUE]
  /\ net' = net \cup {Request(c, NoCookie)}
  /\ UNCHANGED <<vars, minute>>

\* Behind the loop: an error for what was recorded last, or else success.
Outcome(res) == CASE res = "reject" -> "refused"
                  [] res = "none" -> "insecure"
                  [] OTHER -> "ok"

\* connect(response) takes a challenge.
TakeChallenge(c) ==
  /\ client[c].at = "loop" /\ client[c].connecting
  /\ \E m \in net :
       /\ m.type = "challenge" /\ m.to = c
       /\ client' = [client EXCEPT ![c].res = "challenge"]
       /\ net' = net \cup {Request(c, m.cookie)}
  /\ UNCHANGED <<vars, minute>>

\* connect(response) takes anything else a listener answers: a rejection connects as well.
TakeResponse(c) ==
  /\ client[c].at = "loop" /\ client[c].connecting
  /\ \E m \in net :
       /\ m.type \in {"response", "reject"} /\ m.to = c
       /\ client' = [client EXCEPT ![c] = [at |-> Outcome(m.type), res |-> m.type,
                                           connecting |-> FALSE, connected |-> TRUE]]
  /\ UNCHANGED <<vars, net, minute>>

\* connect(response) returns -1 for a packet that is no handshake, or when the client is
\* not connecting any more: the loop ends without an error of its own.
TakeOther(c) ==
  /\ client[c].at = "loop"
  /\ Overtaking
  /\ \/ \E i \in held : sock[i].peer = c
     \/ ~ client[c].connecting /\ \E m \in net : m.type = "challenge" /\ m.to = c
  /\ client' = [client EXCEPT ![c].at = Outcome(client[c].res)]
  /\ UNCHANGED <<vars, net, minute>>

\* updateConnStatus() at the client: the time to live of the connector is over.
ConnectorExpires(c) ==
  /\ client[c].at = "loop" /\ client[c].connecting
  /\ Overtaking
  /\ client' = [client EXCEPT ![c].connecting = FALSE]
  /\ UNCHANGED <<vars, net, minute>>

ConnectTimeout(c) ==
  /\ client[c].at = "loop"
  /\ client' = [client EXCEPT ![c].at = "timeout"]
  /\ UNCHANGED <<vars, net, minute>>

(***************************************************************************)
(* The listener's messages.                                                *)
(***************************************************************************)
\* listen() answers a first request with a cookie, which changes every minute.
AnswerFirst ==
  /\ worker.at = "idle" /\ mux.state = "up" /\ newEntry = << >> /\ listener
  /\ \E m \in net :
       /\ m.type = "request" /\ m.cookie = NoCookie
       /\ net' = net \cup {Challenge(m.from)}
  /\ UNCHANGED <<vars, client, minute>>

\* A request with the cookie of an earlier minute gets no answer: the text hashed for the
\* minute before has the numbers of both minutes in it, and matches no cookie ever sent.
RightCookie(c) == Request(c, minute) \in net

\* What a step of the worker sends: the answer to a request, or the first response.
Sent ==
  IF worker.at = "request" /\ worker'.at = "idle"
  THEN IF Located(L) /\ OfPeer(worker.peer) # {} /\ ~ sock[Existing(worker.peer)].broken
       THEN {Response(worker.peer, Existing(worker.peer))}
       ELSE {Reject(worker.peer)}
  ELSE IF worker.at = "create" /\ worker'.at = "enter"
  THEN {Response(worker.peer, worker'.id)}
  ELSE {}

ServerStep ==
  /\ Next
  /\ worker.at = "idle" /\ worker'.at = "request" => RightCookie(worker'.peer)
  /\ net' = net \cup Sent
  /\ UNCHANGED <<client, minute>>

Tick ==
  /\ minute < MaxMinute
  /\ minute' = minute + 1
  /\ UNCHANGED <<vars, client, net>>

-----------------------------------------------------------------------------
ConnectInit ==
  /\ Init
  /\ client = [c \in Clients |-> [at |-> "start", res |-> "none", connecting |-> FALSE,
                                  connected |-> FALSE]]
  /\ net = {}
  /\ minute = 0

ConnectNext ==
  \/ \E c \in Clients :
       \/ ConnectCall(c) \/ TakeChallenge(c) \/ TakeResponse(c) \/ TakeOther(c)
       \/ ConnectorExpires(c) \/ ConnectTimeout(c)
  \/ AnswerFirst \/ ServerStep \/ Tick

ConnectSpec == ConnectInit /\ [][ConnectNext]_allVars

-----------------------------------------------------------------------------
\* connect() returns without an error only for a socket that is connected.  The code
\* breaks this when a data packet overtakes the response: connect(response) returns -1 for
\* it, the loop of connect() ends, and nothing behind the loop looks at m_bConnected.
ReturnMeansConnected == \A c \in Clients : client[c].at = "ok" => client[c].connected
=============================================================================
