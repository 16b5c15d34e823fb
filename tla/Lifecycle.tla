----------------------------- MODULE Lifecycle -----------------------------
(* The threads of the engine and how main starts, stops and joins them: the   *)
(* WebSocket and the REST thread of MarketDataService, the thread of          *)
(* LocalHttpServer, and main's wait for a signal or for run_seconds.          *)
(*                                                                            *)
(* What a tick or a request does is in TickEngine, OrderApi and RuntimeState, *)
(* what stopping the logger does in AsyncLogger. Here a step is what a thread *)
(* does between two looks at a running_ flag or two waits for its peer.       *)
EXTENDS Naturals

VARIABLES
    limited,    \* run_seconds > 0, in the configuration read at start
    main,       \* what main does next
    stop,       \* g_stop
    expired,    \* the deadline of run_until_stop has passed
    running,    \* the running_ flags of the service, its WS client, the server
    pc,         \* what each thread does next; "none" before it is started
    late        \* ticks a market thread handled since its flag was cleared (history)

lifeVars == <<limited, main, stop, expired, running, pc, late>>

Feeds == {"ws", "rest"}
Threads == Feeds \union {"control"}
Flags == {"market", "ws", "control"}

\* The flag a thread looks at.
FlagOf == [ws |-> "ws", rest |-> "market", control |-> "control"]

Runs(t) == running[FlagOf[t]]

Go(t, step) == pc' = [pc EXCEPT ![t] = step]

\* A step of a thread that changes nothing but where the thread is.
Move(t, from, step) ==
    /\ pc[t] = from
    /\ Go(t, step)
    /\ UNCHANGED <<limited, main, stop, expired, running, late>>

MainGoes(from, to) ==
    /\ main = from /\ main' = to
    /\ UNCHANGED <<limited, stop, expired>>

----------------------------------------------------------------------------
LifeInit ==
    /\ limited \in BOOLEAN
    /\ main = "startControl"
    /\ stop = FALSE /\ expired = FALSE
    /\ running = [flag \in Flags |-> FALSE]
    /\ pc = [t \in Threads |-> "none"]
    /\ late = [f \in Feeds |-> 0]

\* SIGINT or SIGTERM; the handler is installed before anything is started.
Signal ==
    /\ ~stop /\ main # "done"
    /\ stop' = TRUE
    /\ UNCHANGED <<limited, main, expired, running, pc, late>>

Deadline ==
    /\ limited /\ ~expired /\ main = "serving"
    /\ expired' = TRUE
    /\ UNCHANGED <<limited, main, stop, running, pc, late>>

StartControl ==
    /\ MainGoes("startControl", "startMarket")
    /\ running' = [running EXCEPT !["control"] = TRUE]
    /\ Go("control", "bind")
    /\ UNCHANGED late

StartMarket ==
    /\ MainGoes("startMarket", "serving")
    /\ running' = [running EXCEPT !["market"] = TRUE, !["ws"] = TRUE]
    /\ pc' = [pc EXCEPT !["ws"] = "check", !["rest"] = "check"]
    /\ UNCHANGED late

\* Mutant: run_seconds is not looked at.
WaitForSignal ==
    /\ stop
    /\ MainGoes("serving", "stopMarket")
    /\ UNCHANGED <<running, pc, late>>

RunUntilStop ==
    /\ stop \/ expired
    /\ MainGoes("serving", "stopMarket")
    /\ UNCHANGED <<running, pc, late>>

\* Clearing a flag, then joining its thread: the service's own flag first, then
\* that of its WS client, whose thread is joined before the REST thread.
Clear(flag, from, to) ==
    /\ MainGoes(from, to)
    /\ running' = [running EXCEPT ![flag] = FALSE]
    /\ UNCHANGED <<pc, late>>

\* Mutant: the thread is detached instead of joined.
Detach(t, from, to) ==
    /\ MainGoes(from, to)
    /\ UNCHANGED <<running, pc, late>>

Join(t, from, to) ==
    /\ pc[t] = "gone"
    /\ MainGoes(from, to)
    /\ UNCHANGED <<running, pc, late>>

StopMarket ==
    \/ Clear("market", "stopMarket", "stopWs")
    \/ Clear("ws", "stopWs", "joinWs")
    \/ Join("ws", "joinWs", "joinRest")
    \/ Join("rest", "joinRest", "stopControl")

StopControl ==
    \/ Clear("control", "stopControl", "joinControl")
    \/ Join("control", "joinControl", "stopLogger")

\* logger.stop() returns, and main with it.
StopLogger ==
    /\ MainGoes("stopLogger", "done")
    /\ UNCHANGED <<running, pc, late>>

Main == StartControl \/ StartMarket \/ RunUntilStop \/ StopMarket \/ StopControl \/ StopLogger

----------------------------------------------------------------------------
\* The tick handler of either market thread.
HandleTick(f, next) ==
    /\ pc[f] = "tick"
    /\ Go(f, next)
    /\ late' = IF Runs(f) THEN late ELSE [late EXCEPT ![f] = @ + 1]
    /\ UNCHANGED <<limited, main, stop, expired, running>>

\* Mutant: the read loop does not look at the flag.
WsReadForEver == Move("ws", "checkRead", "read")

\* BinanceWsClient::run: connect, read until stopped or failed, back off.
WsCheck == Move("ws", "check", IF Runs("ws") THEN "connect" ELSE "gone")

WsCheckRead == Move("ws", "checkRead", IF Runs("ws") THEN "read" ELSE "close")

WsBackOff == Move("ws", "backoff", "check")

\* The peer or the network ends the wait: connected, a message that parses or
\* not, closed, or an exception.
WsPeer ==
    \/ \E step \in {"checkRead", "backoff"} : Move("ws", "connect", step)
    \/ \E step \in {"tick", "checkRead", "backoff"} : Move("ws", "read", step)
    \/ Move("ws", "close", "check")

\* Mutant: prices are fetched only while the WebSocket is down.
RestAsStandby ==
    \/ Move("rest", "check", IF ~Runs("rest") THEN "gone"
                             ELSE IF pc["ws"] \in {"read", "tick", "checkRead"} THEN "sleep"
                             ELSE "fetch")
    \/ \E step \in {"tick", "sleep"} : Move("rest", "fetch", step)
    \/ Move("rest", "sleep", "check")

\* MarketDataService::rest_loop; a fetch ends within its 3 s timeout.
RestLoop ==
    \/ Move("rest", "check", IF Runs("rest") THEN "fetch" ELSE "gone")
    \/ \E step \in {"tick", "sleep"} : Move("rest", "fetch", step)
    \/ Move("rest", "sleep", "check")

\* LocalHttpServer::run: a port that cannot be bound ends the thread, and main
\* is not told; an accept never waits, the read of a request does.
ServerLoop ==
    \/ \E step \in {"check", "gone"} : Move("control", "bind", step)
    \/ Move("control", "check", IF Runs("control") THEN "accept" ELSE "gone")
    \/ \E step \in {"sleep", "check", "read"} : Move("control", "accept", step)
    \/ Move("control", "sleep", "check")
    \/ Move("control", "serve", "check")

\* The client has sent its whole request, or has closed the connection.
ClientSends == \E step \in {"serve", "check"} : Move("control", "read", step)

WsThread == WsCheck \/ WsCheckRead \/ WsBackOff \/ HandleTick("ws", "checkRead")
RestThread == RestLoop \/ HandleTick("rest", "sleep")

LifeNext ==
    \/ Signal \/ Deadline \/ Main
    \/ WsThread \/ WsPeer
    \/ RestThread
    \/ ServerLoop \/ ClientSends

\* Every thread runs when it can and time passes. Nothing bounds how long the
\* exchange or an HTTP client stays silent, so WsPeer and ClientSends get none.
LifeFairness ==
    /\ WF_lifeVars(Deadline) /\ WF_lifeVars(Main)
    /\ WF_lifeVars(WsThread) /\ WF_lifeVars(RestThread) /\ WF_lifeVars(ServerLoop)

LifeSpec == LifeInit /\ [][LifeNext]_lifeVars /\ LifeFairness

----------------------------------------------------------------------------
WsWaits == {"connect", "read", "close"}

(* Nothing logs any more when the logger is stopped, and no price moves any   *)
(* more when the control server is: when main gets there, the threads are     *)
(* joined. AsyncLogger's guarantee at exit rests on this.                     *)
JoinedInOrder ==
    /\ main \in {"stopControl", "joinControl", "stopLogger", "done"} =>
           \A f \in Feeds : pc[f] = "gone"
    /\ main \in {"stopLogger", "done"} => \A t \in Threads : pc[t] = "gone"

(* After its flag is cleared a market thread handles the tick it was waiting  *)
(* for or had read, and no second one.                                        *)
OneLateTick == \A f \in Feeds : late[f] <= 1

(* "WS reconnects by itself after a disconnection" and "the REST fallback     *)
(* fetches the price at regular intervals" (docs/acceptance_checklist.md):    *)
(* until the engine is stopped, a WebSocket that failed is tried again after  *)
(* any number of failures, and REST goes on however long it is silent.        *)
FeedsGoOn ==
    /\ pc["ws"] = "backoff" ~> (pc["ws"] = "connect" \/ ~running["ws"])
    /\ []<>(pc["rest"] = "fetch" \/ stop \/ expired)

\* The exchange and the HTTP clients do not stay silent for ever.
PeersAnswer == []<>(pc["ws"] \notin WsWaits) /\ []<>(pc["control"] # "read")

(* A signal, or the end of run_seconds, ends the engine, whatever its threads *)
(* are doing, provided its peers end every wait for them.                     *)
ShutdownReturns == PeersAnswer => (stop \/ expired ~> main = "done")
=============================================================================
