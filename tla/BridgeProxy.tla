----------------------------- MODULE BridgeProxy -----------------------------
(***************************************************************************)
(* windows_bridge.py proxy_client: a connection of an SSH client is handed *)
(* to a relay of its own.  One pump copies what the client sends to the    *)
(* relay, one what the relay answers to the client; the first to end has   *)
(* the other cancelled.  Requests are counted: the client has written      *)
(* sent, of which the relay has been given taken and has answered          *)
(* answered, of which the client has been given delivered.                 *)
(***************************************************************************)
EXTENDS Naturals

CONSTANTS
    Sessions,    \* proxied connections
    MaxRequests  \* bound: requests a client writes

ASSUME ProxyAssumption == MaxRequests \in Nat

VARIABLES
    stage,     \* where proxy_client is
    peer,      \* the client: open, "eof" when it has shut its sending side
    relay,     \* the relay process; "left" when it outlives proxy_client
    inPump,    \* _client_to_relay
    outPump,   \* _relay_to_client
    sent, taken, answered, delivered

countVars == <<sent, taken, answered, delivered>>
proxyVars == <<stage, peer, relay, inPump, outPump, countVars>>

PumpStates == {"none", "running", "ended", "failed", "cancelled"}

ProxyTypeOK ==
    /\ stage \in [Sessions -> {"none", "pumping", "ending", "closed"}]
    /\ peer \in [Sessions -> {"open", "eof", "gone"}]
    /\ relay \in [Sessions -> {"none", "running", "exited", "left"}]
    /\ inPump \in [Sessions -> PumpStates]
    /\ outPump \in [Sessions -> PumpStates]
    /\ sent \in [Sessions -> 0..MaxRequests]
    /\ taken \in [Sessions -> 0..MaxRequests]
    /\ answered \in [Sessions -> 0..MaxRequests]
    /\ delivered \in [Sessions -> 0..MaxRequests]

ProxyInit ==
    /\ stage = [s \in Sessions |-> "none"]
    /\ peer = [s \in Sessions |-> "open"]
    /\ relay = [s \in Sessions |-> "none"]
    /\ inPump = [s \in Sessions |-> "none"]
    /\ outPump = [s \in Sessions |-> "none"]
    /\ sent = [s \in Sessions |-> 0]
    /\ taken = [s \in Sessions |-> 0]
    /\ answered = [s \in Sessions |-> 0]
    /\ delivered = [s \in Sessions |-> 0]

-----------------------------------------------------------------------------
\* The client and the relay.

ClientSends(s) ==
    /\ stage[s] # "closed" /\ peer[s] = "open"
    /\ sent[s] < MaxRequests
    /\ sent' = [sent EXCEPT ![s] = @ + 1]
    /\ UNCHANGED <<stage, peer, relay, inPump, outPump, taken, answered, delivered>>

\* The client shuts its sending side and goes on reading, or leaves.
ClientEnds(s) ==
    /\ stage[s] # "closed"
    /\ \/ peer[s] = "open" /\ peer' = [peer EXCEPT ![s] = "eof"]
       \/ peer[s] # "gone" /\ peer' = [peer EXCEPT ![s] = "gone"]
    /\ UNCHANGED <<stage, relay, inPump, outPump, countVars>>

RelayReplies(s) ==
    /\ relay[s] = "running"
    /\ answered[s] < taken[s]
    /\ answered' = [answered EXCEPT ![s] = @ + 1]
    /\ UNCHANGED <<stage, peer, relay, inPump, outPump, sent, taken, delivered>>

\* By itself: its pipe broke, or its input has ended.
RelayExits(s) ==
    /\ relay[s] \in {"running", "left"}
    /\ relay' = [relay EXCEPT ![s] = "exited"]
    /\ UNCHANGED <<stage, peer, inPump, outPump, countVars>>

-----------------------------------------------------------------------------
\* proxy_client.

\* The relay program is started; when that fails the connection is closed.
ProxyStart(s) ==
    /\ stage[s] = "none"
    /\ \/ /\ stage' = [stage EXCEPT ![s] = "pumping"]
          /\ relay' = [relay EXCEPT ![s] = "running"]
          /\ inPump' = [inPump EXCEPT ![s] = "running"]
          /\ outPump' = [outPump EXCEPT ![s] = "running"]
       \/ /\ stage' = [stage EXCEPT ![s] = "closed"]
          /\ UNCHANGED <<relay, inPump, outPump>>
    /\ UNCHANGED <<peer, countVars>>

\* Mutant: the client's bytes are passed on again with the next chunk.
PumpInAgain(s) ==
    /\ inPump[s] = "running"
    /\ taken[s] < sent[s]
    /\ taken' = [taken EXCEPT ![s] = taken[s] + sent[s]]
    /\ UNCHANGED <<stage, peer, relay, inPump, outPump, sent, answered, delivered>>

\* A chunk, whatever has arrived, is passed on; the end of input ends the pump.
\* Writing to a relay that has exited may fail.
PumpIn(s) ==
    /\ inPump[s] = "running"
    /\ \/ /\ taken[s] < sent[s]
          /\ taken' = [taken EXCEPT ![s] = sent[s]]
          /\ inPump' = inPump
       \/ /\ taken[s] < sent[s] /\ relay[s] = "exited"
          /\ inPump' = [inPump EXCEPT ![s] = "failed"]
          /\ taken' = taken
       \/ /\ taken[s] = sent[s] /\ peer[s] # "open"
          /\ inPump' = [inPump EXCEPT ![s] = "ended"]
          /\ taken' = taken
    /\ UNCHANGED <<stage, peer, relay, outPump, sent, answered, delivered>>

\* Mutant: the pump ends with the relay, whatever it has still to read.
PumpOutHasty(s) ==
    /\ outPump[s] = "running"
    /\ \/ /\ delivered[s] < answered[s]
          /\ delivered' = [delivered EXCEPT ![s] = answered[s]]
          /\ outPump' = outPump
       \/ /\ relay[s] = "exited"
          /\ outPump' = [outPump EXCEPT ![s] = "ended"]
          /\ delivered' = delivered
    /\ UNCHANGED <<stage, peer, relay, inPump, sent, taken, answered>>

\* An answer is passed on; the end of the relay's output, which comes after all
\* it has written, ends the pump, and so may a client that has left.
PumpOut(s) ==
    /\ outPump[s] = "running"
    /\ \/ /\ delivered[s] < answered[s]
          /\ delivered' = [delivered EXCEPT ![s] = answered[s]]
          /\ outPump' = outPump
       \/ /\ delivered[s] < answered[s] /\ peer[s] = "gone"
          /\ outPump' = [outPump EXCEPT ![s] = "failed"]
          /\ delivered' = delivered
       \/ /\ delivered[s] = answered[s] /\ relay[s] = "exited"
          /\ outPump' = [outPump EXCEPT ![s] = "ended"]
          /\ delivered' = delivered
    /\ UNCHANGED <<stage, peer, relay, inPump, sent, taken, answered>>

PumpOver(pump) == pump \in {"ended", "failed"}

\* A pump that is still running when asyncio.wait returns is cancelled.
Cancelled(pump) == IF PumpOver(pump) THEN pump ELSE "cancelled"

\* Mutant: proxy_client goes on when both pumps are over (ALL_COMPLETED).
BothOver(s) == PumpOver(inPump[s]) /\ PumpOver(outPump[s])

\* asyncio.wait with FIRST_COMPLETED can return.
WaitIsOver(s) == PumpOver(inPump[s]) \/ PumpOver(outPump[s])

CancelPumps(s) ==
    /\ stage[s] = "pumping"
    /\ WaitIsOver(s)
    /\ stage' = [stage EXCEPT ![s] = "ending"]
    /\ inPump' = [inPump EXCEPT ![s] = Cancelled(inPump[s])]
    /\ outPump' = [outPump EXCEPT ![s] = Cancelled(outPump[s])]
    /\ UNCHANGED <<peer, relay, countVars>>

\* The relay is terminated and the connection closed, by proxy_client or, when
\* an exception leaves it, by the server: a pump's, or the timeout of a relay
\* that does not end within half a second.
ProxyEnd(s) ==
    /\ stage[s] = "ending"
    /\ stage' = [stage EXCEPT ![s] = "closed"]
    /\ \/ relay' = [relay EXCEPT ![s] = "exited"]
       \/ relay[s] = "running" /\ relay' = [relay EXCEPT ![s] = "left"]
    /\ UNCHANGED <<peer, inPump, outPump, countVars>>

-----------------------------------------------------------------------------
ProxyStep(s) == PumpIn(s) \/ PumpOut(s) \/ CancelPumps(s) \/ ProxyEnd(s)

ProxyNext ==
    \E s \in Sessions :
        \/ ClientSends(s) \/ ClientEnds(s)
        \/ RelayReplies(s) \/ RelayExits(s)
        \/ ProxyStart(s) \/ ProxyStep(s)
=============================================================================
