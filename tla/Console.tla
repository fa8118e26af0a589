------------------------------- MODULE Console -------------------------------
(***************************************************************************)
(* The console of a server: the terminal in the browser, the relay of       *)
(* panel/src/api/routes/console.ts, and the agent's WebSocket with its log  *)
(* follower and its two pumps.                                              *)
(*                                                                          *)
(* Each socket of the browser has its own relay, which looks up the node    *)
(* and then opens a socket of its own to the agent.  The handlers of the    *)
(* browser's messages and of its close exist only from then on.             *)
(***************************************************************************)
EXTENDS Naturals, FiniteSets

CONSTANTS
  Socket, NoSocket,  \* sockets the terminal may open
  Capacity,          \* of a client's send channel (256 in the code)
  MaxEvents          \* bound: failures, keys, log lines, clicks

VARIABLES
  mounted,   \* is the terminal on the page?
  wsRef,     \* the socket it sends to, and closes when it goes
  timers,    \* its pending reconnects: after a close, after a click
  armed,     \* the one reconnectTimeoutRef knows
  browser,   \* the browser's end of each socket
  relay,     \* the panel's: "looking" for the node, "linked", "gone"
  agent,     \* the relay's socket to the agent
  queue,     \* messages in the agent's send channel
  follows,   \* does a goroutine follow the log for this socket?
  typed,     \* is a command on its way to the relay?
  heard,     \* history: has output come through this socket?
  lost,      \* history: has the relay dropped a command of it?
  early,     \* history: did it close before the agent's socket was open?
  clicked,   \* history: has Reconnect been pressed?
  events

terminal == <<mounted, wsRef, timers, armed, clicked>>
ends == <<browser, relay, agent, early>>
traffic == <<queue, follows, typed, heard, lost>>
vars == <<terminal, ends, traffic, events>>

TypeOK ==
  /\ mounted \in BOOLEAN /\ clicked \in BOOLEAN
  /\ wsRef \in Socket \cup {NoSocket}
  /\ timers \subseteq {"closed", "click"}
  /\ armed \in {"none", "closed", "click"}
  /\ browser \in [Socket -> {"none", "connecting", "open", "closing", "closed"}]
  /\ relay \in [Socket -> {"none", "looking", "linked", "gone"}]
  /\ agent \in [Socket -> {"none", "connecting", "open", "closed"}]
  /\ queue \in [Socket -> 0..Capacity]
  /\ follows \subseteq Socket /\ typed \subseteq Socket /\ heard \subseteq Socket
  /\ lost \subseteq Socket /\ early \subseteq Socket
  /\ events \in 0..MaxEvents

Init ==
  /\ mounted = TRUE /\ clicked = FALSE
  /\ timers = {} /\ armed = "none"
  /\ wsRef \in Socket
  /\ browser = [w \in Socket |-> IF w = wsRef THEN "connecting" ELSE "none"]
  /\ relay = [w \in Socket |-> "none"]
  /\ agent = [w \in Socket |-> "none"]
  /\ queue = [w \in Socket |-> 0]
  /\ follows = {} /\ typed = {} /\ heard = {} /\ lost = {} /\ early = {}
  /\ events = 0

Event == events < MaxEvents /\ events' = events + 1
Becomes(end, w, s) == end' = [end EXCEPT ![w] = s]

-----------------------------------------------------------------------------
(* The terminal.                                                           *)

\* connectWs, by a timer; it forgets whichever socket there is.
Connect(reason, w) ==
  /\ reason \in timers /\ mounted
  /\ browser[w] = "none"
  /\ timers' = timers \ {reason}
  /\ wsRef' = w
  /\ Becomes(browser, w, "connecting")
  /\ UNCHANGED <<mounted, armed, clicked, relay, agent, early, traffic, events>>

\* onclose: the terminal forgets its socket, whichever that is by now, and
\* will try again in three seconds.
Rearm(w) ==
  IF mounted THEN /\ wsRef' = NoSocket
                  /\ timers' = timers \cup {"closed"} /\ armed' = "closed"
             ELSE UNCHANGED <<wsRef, timers, armed>>

\* Reconnect is offered while the status is "disconnected"; its own timer does
\* not replace the one onclose has set.
Reconnect ==
  /\ Event
  /\ mounted /\ wsRef = NoSocket /\ "closed" \in timers
  /\ timers' = timers \cup {"click"} /\ armed' = "click"
  /\ clicked' = TRUE
  /\ UNCHANGED <<mounted, wsRef, ends, traffic>>

\* The effect's cleanup: one timer and one socket.
Unmount ==
  /\ mounted
  /\ mounted' = FALSE
  /\ timers' = timers \ {armed}
  /\ browser' = [w \in Socket |->
       IF w = wsRef /\ browser[w] \in {"connecting", "open"} THEN "closing" ELSE browser[w]]
  /\ UNCHANGED <<wsRef, armed, clicked, relay, agent, early, traffic, events>>

Type(w) ==
  /\ Event
  /\ mounted /\ w = wsRef /\ browser[w] = "open" /\ w \notin typed
  /\ typed' = typed \cup {w}
  /\ UNCHANGED <<terminal, ends, queue, follows, heard, lost>>

-----------------------------------------------------------------------------
(* The panel's relay.                                                      *)

Accept(w) ==
  /\ browser[w] = "connecting" /\ relay[w] = "none"
  /\ Becomes(browser, w, "open")
  /\ Becomes(relay, w, "looking")
  /\ UNCHANGED <<terminal, agent, early, traffic, events>>

\* getNodeForServer has answered.  The handlers are set whether or not the
\* browser is still there; a close it has sent before is not heard of again.
Link(w) ==
  /\ relay[w] = "looking"
  /\ Becomes(relay, w, "linked")
  /\ Becomes(agent, w, "connecting")
  /\ UNCHANGED <<terminal, browser, early, traffic, events>>

\* The server's row, or its node's, is gone.
NoNode(w) ==
  /\ relay[w] = "looking" /\ Event
  /\ Becomes(relay, w, "gone")
  /\ Becomes(browser, w, IF browser[w] = "open" THEN "closing" ELSE browser[w])
  /\ UNCHANGED <<terminal, agent, early, traffic>>

\* Mutant of Dropped: the relay waits for an "auth" message that the agent
\* sends only when it is asked to authenticate.
DroppedUntilAuth(w) == TRUE

Dropped(w) == relay[w] # "linked" \/ agent[w] # "open"

\* A command that comes before the handlers, or before the agent's socket is
\* open, or after it closed, is dropped without a word.
Command(w) ==
  /\ w \in typed
  /\ typed' = typed \ {w}
  /\ lost' = IF Dropped(w) THEN lost \cup {w} ELSE lost
  /\ UNCHANGED <<terminal, ends, queue, follows, heard, events>>

\* Mutant of HangUp: the relay does not listen for the browser's close.
HangUpNever(w) == UNCHANGED agent

\* The close handler: an agent's socket that is not open yet is left alone.
HangUp(w) ==
  agent' = [agent EXCEPT ![w] =
    IF relay[w] = "linked" /\ @ = "open" THEN "closed" ELSE @]

\* The close arrives, asked for by the page or by the panel, and the browser
\* runs onclose.
Closed(w) ==
  /\ browser[w] = "closing"
  /\ Becomes(browser, w, "closed")
  /\ HangUp(w)
  /\ Rearm(w)
  /\ early' = IF agent[w] \in {"open", "closed"} THEN early ELSE early \cup {w}
  /\ UNCHANGED <<mounted, clicked, relay, traffic, events>>

\* Mutant of OnError: an error arms the timer as well.
OnErrorRearms == timers' = timers \cup (IF mounted THEN {"closed"} ELSE {})

\* "onclose will fire after onerror".
OnError == UNCHANGED timers

\* The network between browser and panel breaks, or the browser gives up
\* connecting.
Breaks(w) ==
  /\ Event
  /\ browser[w] \in {"connecting", "open"}
  /\ Becomes(browser, w, "closing")
  /\ OnError
  /\ UNCHANGED <<mounted, wsRef, armed, clicked, relay, agent, early, traffic>>

-----------------------------------------------------------------------------
(* The agent.                                                              *)

\* handleWebSocket: the token is fresh.  The follower has no part in the end
\* of the socket: its context is the background's.
AgentAccepts(w) ==
  /\ agent[w] = "connecting"
  /\ Becomes(agent, w, "open")
  /\ follows' = follows \cup {w}
  /\ UNCHANGED <<terminal, browser, relay, early, queue, typed, heard, lost, events>>

\* It restarts, or cannot be reached; the relay only says so to the browser.
AgentGone(w) ==
  /\ Event
  /\ agent[w] \in {"connecting", "open"}
  /\ Becomes(agent, w, "closed")
  /\ follows' = follows \ {w}
  /\ UNCHANGED <<terminal, browser, relay, early, queue, typed, heard, lost>>

\* streamLogs and sendJSON: what does not fit is dropped; a client that is
\* closed gets nothing, though its follower goes on reading.
Line(w) ==
  /\ Event
  /\ w \in follows
  /\ queue' = [queue EXCEPT ![w] =
       IF agent[w] = "open" /\ @ < Capacity THEN @ + 1 ELSE @]
  /\ UNCHANGED <<terminal, ends, follows, typed, heard, lost>>

\* The container's log ends.
LogEnds(w) ==
  /\ Event
  /\ w \in follows
  /\ follows' = follows \ {w}
  /\ UNCHANGED <<terminal, ends, queue, typed, heard, lost>>

\* writePump and the relay's onMessage; the browser may have gone.
Deliver(w) ==
  /\ queue[w] > 0
  /\ queue' = [queue EXCEPT ![w] = IF agent[w] = "open" THEN @ - 1 ELSE 0]
  /\ heard' = IF agent[w] = "open" /\ browser[w] = "open" THEN heard \cup {w} ELSE heard
  /\ UNCHANGED <<terminal, ends, follows, typed, lost, events>>

\* The panel restarts; the agent's readPump notices.
PanelDies ==
  /\ Event
  /\ browser' = [w \in Socket |->
       IF browser[w] \in {"connecting", "open"} THEN "closing" ELSE browser[w]]
  /\ relay' = [w \in Socket |-> IF relay[w] = "none" THEN "none" ELSE "gone"]
  /\ agent' = [w \in Socket |-> IF agent[w] = "none" THEN "none" ELSE "closed"]
  /\ UNCHANGED <<terminal, early, traffic>>

-----------------------------------------------------------------------------
Step(w) ==
  \/ Accept(w) \/ Link(w) \/ AgentAccepts(w) \/ Closed(w) \/ Command(w) \/ Deliver(w)
  \/ \E reason \in timers : Connect(reason, w)

Next ==
  \/ \E w \in Socket :
       \/ Step(w) \/ Type(w) \/ NoNode(w) \/ Breaks(w)
       \/ AgentGone(w) \/ Line(w) \/ LogEnds(w)
  \/ Reconnect \/ Unmount \/ PanelDies

\* Connections that are not broken come about, and timers fire.
Progress == \E w \in Socket : Step(w)

Spec == Init /\ [][Next]_vars /\ WF_vars(Progress)

-----------------------------------------------------------------------------
(* Properties.                                                             *)

Live(w) == browser[w] \in {"connecting", "open"}

\* The terminal that is on the page holds one socket or waits for one, never
\* both, as long as nobody presses Reconnect: whatever breaks, onclose is the
\* only one to arm the timer.  With a click the timer of onclose opens a second
\* socket, every line is shown twice, and the first is never closed.
OneSocket ==
  ~clicked /\ mounted =>
    /\ Cardinality({w \in Socket : browser[w] \in {"connecting", "open", "closing"}})
         + Cardinality(timers) = 1
    /\ \A w \in Socket : Live(w) => w = wsRef

\* Once output has come through a socket no command typed into it is dropped
\* while the agent's socket is open: the handlers are older than any output.
ObeyedOnceHeard ==
  [][\A w \in heard : agent[w] = "open" /\ w \in lost' => w \in lost]_vars

\* Once the page is left, its sockets are closed towards the agent too, unless
\* one went before the agent had answered: that one stays open.  So may the
\* socket that a click on Reconnect has left to itself.
RelayCloses ==
  ~mounted ~> (clicked \/ \A w \in Socket : agent[w] \in {"none", "closed"} \/ w \in early)
=============================================================================
