----------------------------- MODULE DemoClient ------------------------------
(***************************************************************************)
(* The page of /demo (the script in DEMO_HTML of main.py) and what the     *)
(* gateway does with its WebSockets: the page counts the alerts it is      *)
(* sent, pings every 20 s, and connects again 5 s after its socket closed; *)
(* the handler of the gateway gives up after 30 s without a message.       *)
(* Time passes in ticks of 10 s; in between, what is due is done.          *)
(***************************************************************************)
EXTENDS Integers, FiniteSets, SequencesExt

CONSTANTS Heartbeat,  \* ticks between two pings of a socket
          Patience,   \* ticks the gateway waits for a message
          FeedLimit,  \* entries the feed keeps
          MaxBroadcasts, \* bound: how many alerts are broadcast
          MaxLosses      \* bound: how many times the network or the gateway fails

\* 20 s of the page, 30 s of the handler.
ASSUME TimerAssumption == Heartbeat \in Nat /\ Patience \in Nat /\ Heartbeat < Patience

VARIABLES
    sockets,    \* the WebSockets at least one side still holds, by a number
    reconnect,  \* pending setTimeout(connect, 5000) timers
    total,      \* the counter of alerts
    fatal,      \* the counter of FATAL and ERROR alerts
    feed,       \* how many entries the feed shows
    up,         \* whether the gateway is running
    broadcasts, \* how many alerts were broadcast
    nlosses     \* how many losses there were

page == <<reconnect, total, fatal, feed>>
env  == <<up, broadcasts, nlosses>>
demoVars == <<sockets, page, env>>

\* page is readyState of the page's end, server the handler of the gateway;
\* inbox is on its way to the page, ping on its way to the gateway.
NewSocket == [page |-> "connecting", server |-> "none", link |-> TRUE,
              inbox |-> <<>>, ping |-> FALSE, beat |-> 0, idle |-> 0]

\* A socket both sides are done with is forgotten.
Held(s) == Restrict(s, {i \in DOMAIN s : s[i].page # "closed" \/ s[i].server = "open"})

Put(i, k) == sockets' = Held([sockets EXCEPT ![i] = k])

\* appendRow: the oldest entries go when there are too many.
AppendRow == feed' = IF feed < FeedLimit THEN feed + 1 ELSE FeedLimit

-----------------------------------------------------------------------------
(* The page.                                                               *)

\* onclose, also after a connection that never opened.
CloseOn(i) == /\ Put(i, [sockets[i] EXCEPT !.page = "closed", !.inbox = <<>>, !.ping = FALSE])
              /\ AppendRow
              /\ UNCHANGED <<total, fatal, env>>

\* Mutant of Retry: connect is called again only if the socket had opened.
RetryIfOpened(k) == reconnect' = reconnect + (IF k.page = "open" THEN 1 ELSE 0)

\* Mutant of Retry: onerror, which precedes onclose when a connection fails,
\* schedules a connect of its own.
RetryOnError(k) == reconnect' = reconnect + (IF k.page = "connecting" THEN 2 ELSE 1)

\* setTimeout(connect, 5000).
Retry(k) == reconnect' = reconnect + 1

\* The connection is refused or lost, or the gateway closed it and everything
\* it sent before has arrived.
Close(i) == /\ \/ sockets[i].page = "connecting" /\ ~(up /\ sockets[i].link)
               \/ sockets[i].page = "open" /\ (sockets[i].link => /\ sockets[i].server = "closed"
                                                                  /\ sockets[i].inbox = <<>>)
            /\ CloseOn(i) /\ Retry(sockets[i])

\* A number no socket has.
NewNumber == CHOOSE n \in 1..Cardinality(DOMAIN sockets) + 1 : n \notin DOMAIN sockets

Connect == /\ reconnect > 0 /\ reconnect' = reconnect - 1
           /\ sockets' = [i \in DOMAIN sockets \cup {NewNumber} |->
                             IF i = NewNumber THEN NewSocket ELSE sockets[i]]
           /\ UNCHANGED <<total, fatal, feed, env>>

\* The handler registers the socket and welcomes it; onopen starts the pings.
Open(i) == /\ sockets[i].page = "connecting" /\ up /\ sockets[i].link
           /\ Put(i, [sockets[i] EXCEPT !.page = "open", !.server = "open",
                                        !.inbox = <<"connected">>])
           /\ AppendRow
           /\ UNCHANGED <<reconnect, total, fatal, env>>

\* onmessage: the welcome is shown and not counted.
Message(i) ==
    LET m == Head(sockets[i].inbox)
    IN /\ sockets[i].page = "open" /\ sockets[i].link /\ sockets[i].inbox # <<>>
       /\ Put(i, [sockets[i] EXCEPT !.inbox = Tail(@)])
       /\ total' = total + (IF m = "connected" THEN 0 ELSE 1)
       /\ fatal' = fatal + (IF m = "fatal" THEN 1 ELSE 0)
       /\ AppendRow
       /\ UNCHANGED <<reconnect, env>>

\* setInterval(..., 20000).
PingAfter == Heartbeat

\* The interval is never cleared; on a socket that is not open it does nothing.
Ping(i) == /\ sockets[i].page = "open" /\ sockets[i].beat >= PingAfter
           /\ Put(i, [sockets[i] EXCEPT !.beat = 0, !.ping = sockets[i].link])
           /\ UNCHANGED <<page, env>>

ClearFeed == feed > 0 /\ feed' = 0 /\ UNCHANGED <<sockets, reconnect, total, fatal, env>>

-----------------------------------------------------------------------------
(* The gateway and the network.                                            *)

\* receive_text() returns, and is called again with a new timeout.
Receive(i) == /\ sockets[i].server = "open" /\ sockets[i].ping
              /\ Put(i, [sockets[i] EXCEPT !.ping = FALSE, !.idle = 0])
              /\ UNCHANGED <<page, env>>

\* asyncio.TimeoutError ends the handler, which unregisters the socket; so does
\* a close by the page that reaches it.
HandlerEnds(i) == /\ sockets[i].server = "open"
                  /\ \/ sockets[i].idle = Patience
                     \/ sockets[i].page = "closed" /\ sockets[i].link
                  /\ Put(i, [sockets[i] EXCEPT !.server = "closed"])
                  /\ UNCHANGED <<page, env>>

\* An alert is sent to every registered socket; what is sent on a lost link
\* goes nowhere.
Broadcast ==
    /\ up /\ broadcasts < MaxBroadcasts /\ broadcasts' = broadcasts + 1
    /\ \E m \in {"fatal", "other"} :
          sockets' = [i \in DOMAIN sockets |->
             IF sockets[i].server = "open" /\ sockets[i].link /\ sockets[i].page = "open"
             THEN [sockets[i] EXCEPT !.inbox = Append(@, m)] ELSE sockets[i]]
    /\ UNCHANGED <<page, up, nlosses>>

Loss == nlosses < MaxLosses /\ nlosses' = nlosses + 1

\* The network drops a connection and tells neither side.
LoseLink(i) == /\ Loss /\ sockets[i].link /\ sockets[i].page # "closed"
               /\ Put(i, [sockets[i] EXCEPT !.link = FALSE, !.inbox = <<>>, !.ping = FALSE])
               /\ UNCHANGED <<page, up, broadcasts>>

GatewayStops ==
    /\ up /\ up' = FALSE /\ Loss
    /\ sockets' = Held([i \in DOMAIN sockets |->
          IF sockets[i].server = "open" THEN [sockets[i] EXCEPT !.server = "closed"]
          ELSE sockets[i]])
    /\ UNCHANGED <<page, broadcasts>>

GatewayStarts == ~up /\ up' = TRUE /\ UNCHANGED <<sockets, page, broadcasts, nlosses>>

\* Timers fire and messages arrive before the next tick.
Due(k) == \/ k.page = "open" /\ (k.beat >= PingAfter \/ k.inbox # <<>>)
          \/ k.ping
          \/ k.server = "open" /\ k.idle = Patience

Tick == /\ \A i \in DOMAIN sockets : ~Due(sockets[i])
        /\ sockets' = [i \in DOMAIN sockets |->
              [sockets[i] EXCEPT !.beat = @ + (IF sockets[i].page = "open" THEN 1 ELSE 0),
                                 !.idle = @ + (IF sockets[i].server = "open" THEN 1 ELSE 0)]]
        /\ UNCHANGED <<page, env>>

-----------------------------------------------------------------------------
DemoInit == /\ sockets = [i \in {1} |-> NewSocket] /\ reconnect = 0
            /\ total = 0 /\ fatal = 0 /\ feed = 0
            /\ up = TRUE /\ broadcasts = 0 /\ nlosses = 0

OfSocket(i) == Open(i) \/ Close(i) \/ Message(i) \/ Ping(i) \/ Receive(i) \/ HandlerEnds(i)

DemoNext == \/ Connect \/ ClearFeed \/ Broadcast \/ GatewayStops \/ GatewayStarts \/ Tick
            \/ \E i \in DOMAIN sockets : OfSocket(i) \/ LoseLink(i)

DemoSpec == DemoInit /\ [][DemoNext]_demoVars

\* The timers of the page fire, the browser and the gateway's loop deal with
\* what arrives, a close or a loss is noticed in the end, and the gateway is
\* started again.
FairDemoSpec == /\ DemoSpec /\ WF_demoVars(Connect) /\ WF_demoVars(GatewayStarts)
                /\ WF_demoVars(\E i \in DOMAIN sockets : Open(i))
                /\ WF_demoVars(\E i \in DOMAIN sockets : Close(i))
                /\ WF_demoVars(\E i \in DOMAIN sockets : Message(i))

-----------------------------------------------------------------------------
(* Properties.                                                             *)

\* Never two sockets that the page uses, nor a socket and a timer that would
\* open another, nor neither: onclose is called once for every socket,
\* whether or not it opened (main.py:719 to 724).
OneSocket ==
    Cardinality({i \in DOMAIN sockets : sockets[i].page # "closed"}) + reconnect = 1

\* The gateway drops a client for its silence only when the network lost the
\* connection: the 20 s of the page are within the 30 s of the handler
\* (main.py:343 and 683).
SilentOnlyIfLost == \A i \in DOMAIN sockets :
    sockets[i].server = "open" /\ sockets[i].idle = Patience =>
        ~sockets[i].link \/ sockets[i].page = "closed"

\* The page always has one connection it uses or one timer that opens the next, and loses
\* a connection that the network kept only by closing it itself.  That an alert which a
\* restarted gateway hands out again is counted again is not excluded.
OneSoundSocket == OneSocket /\ SilentOnlyIfLost

\* Whatever was lost, and while the gateway was down for however many retries,
\* the page is in the end connected to the gateway and stays so.
LiveAgain == <>[](\E i \in DOMAIN sockets : /\ sockets[i].page = "open" /\ sockets[i].link
                                            /\ sockets[i].server = "open")

=============================================================================
