--------------------------- MODULE RedisConnection ---------------------------
(***************************************************************************)
(* redis.service.ts: the current client of a process, which reconnects by  *)
(* itself, and the watchdog that replaces a client whose PING gets no      *)
(* answer.  The events of a client that was replaced still arrive.         *)
(***************************************************************************)
EXTENDS NoValue, FaultBudget

CONSTANT Clients  \* instances of the client library a process may hold

ASSUME ClientsAssumption == None \notin Clients

VARIABLES redisUp,    \* Redis answers
          socket,    \* what each instance does
          client,    \* this.client
          redisReady,
          checking,  \* the instance the watchdog waits for, None: not checking
          awaited    \* it waits for the first attempt of that instance

clientVars == <<client, redisReady, checking, awaited>>
redisVars == <<redisUp, socket, clientVars, faults>>

RedisInit ==
    /\ redisUp = TRUE
    /\ \E c \in Clients :
          /\ client = c
          /\ socket = [d \in Clients |-> IF d = c THEN "connecting" ELSE "unused"]
    /\ redisReady = FALSE
    /\ checking = None
    /\ awaited = FALSE
    /\ faults = 0

\* Events of a replaced instance are ignored.
IsCurrent(c) == client = c

\* connectFirstAttempt() of the watchdog's replacement resolves.
FirstAttempt(c) ==
    IF awaited /\ checking = c
    THEN checking' = None /\ awaited' = FALSE
    ELSE UNCHANGED <<checking, awaited>>

\* The 'ready' event.
Ready(c) ==
    /\ socket[c] = "connecting"
    /\ redisUp
    /\ socket' = [socket EXCEPT ![c] = "connected"]
    /\ redisReady' = (redisReady \/ IsCurrent(c))
    /\ FirstAttempt(c)
    /\ NoFault
    /\ UNCHANGED <<redisUp, client>>

\* The 'error' event of an attempt; the next one follows by itself.
AttemptFails(c) ==
    /\ socket[c] = "connecting"
    /\ ~redisUp
    /\ redisReady' = (redisReady /\ ~IsCurrent(c))
    /\ FirstAttempt(c)
    /\ NoFault
    /\ UNCHANGED <<redisUp, socket, client>>

Disconnected(cs) ==
    socket' = [c \in Clients |->
                  IF c \in cs /\ socket[c] \in {"connected", "stalled"} THEN "connecting"
                  ELSE socket[c]]

\* The 'error' event of a connection that broke.
Breaks(c) ==
    /\ socket[c] \in {"connected", "stalled"}
    /\ Fault
    /\ Disconnected({c})
    /\ redisReady' = (redisReady /\ ~IsCurrent(c))
    /\ UNCHANGED <<redisUp, client, checking, awaited>>

\* A connection without a reset: no event, no answer.
Stalls(c) ==
    /\ socket[c] = "connected"
    /\ Fault
    /\ socket' = [socket EXCEPT ![c] = "stalled"]
    /\ UNCHANGED <<redisUp, clientVars>>

ServerStops ==
    /\ redisUp
    /\ Fault
    /\ redisUp' = FALSE
    /\ Disconnected(Clients)
    /\ redisReady' = FALSE
    /\ UNCHANGED <<client, checking, awaited>>

ServerStarts ==
    /\ ~redisUp
    /\ redisUp' = TRUE
    /\ NoFault
    /\ UNCHANGED <<socket, clientVars>>

\* checkAlive() every 3 s.
CheckAlive ==
    /\ client # None
    /\ redisReady
    /\ checking = None
    /\ checking' = client
    /\ NoFault
    /\ UNCHANGED <<redisUp, socket, client, redisReady, awaited>>

\* The PING is answered, or fails with the connection.
PingEnds ==
    /\ checking # None
    /\ ~awaited
    /\ socket[checking] # "stalled"
    /\ checking' = None
    /\ NoFault
    /\ UNCHANGED <<redisUp, socket, client, redisReady, awaited>>

\* No answer within a second: a new instance replaces the client.
PingTimesOut(c) ==
    /\ checking # None
    /\ ~awaited
    /\ socket[checking] = "stalled"
    /\ client = checking
    /\ socket[c] = "unused"
    /\ socket' = [socket EXCEPT ![client] = "destroyed", ![c] = "connecting"]
    /\ client' = c
    /\ redisReady' = FALSE
    /\ checking' = c
    /\ awaited' = TRUE
    /\ NoFault
    /\ UNCHANGED redisUp

\* The 'end' event of a destroyed instance.
Ended(c) ==
    /\ socket[c] = "destroyed"
    /\ socket' = [socket EXCEPT ![c] = "unused"]
    /\ redisReady' = (redisReady /\ ~IsCurrent(c))
    /\ client' = IF IsCurrent(c) THEN None ELSE client
    /\ NoFault
    /\ UNCHANGED <<redisUp, checking, awaited>>

\* connect() of a new process, and disconnect() of the one it replaces.
Disconnect ==
    /\ Fault
    /\ \E c \in Clients :
          /\ client' = c
          /\ socket' = [d \in Clients |-> IF d = c THEN "connecting" ELSE "unused"]
    /\ redisReady' = FALSE
    /\ checking' = None
    /\ awaited' = FALSE
    /\ UNCHANGED redisUp

Library(c) == Ready(c) \/ Ended(c)

Watchdog == CheckAlive \/ PingEnds \/ \E c \in Clients : PingTimesOut(c)

RedisNext ==
    \/ \E c \in Clients : Library(c) \/ AttemptFails(c) \/ Breaks(c) \/ Stalls(c)
    \/ Watchdog
    \/ ServerStops \/ ServerStarts \/ Disconnect

RedisSpec == RedisInit /\ [][RedisNext]_redisVars

\* The library delivers its events, the watchdog runs and Redis comes back.
RedisFairness ==
    /\ \A c \in Clients : WF_redisVars(Library(c))
    /\ WF_redisVars(PingEnds)
    /\ WF_redisVars(\E c \in Clients : PingTimesOut(c))
    /\ WF_redisVars(CheckAlive)
    /\ WF_redisVars(ServerStarts)

RedisFairSpec == RedisSpec /\ RedisFairness

-----------------------------------------------------------------------------
(* Properties                                                              *)

\* After the last stall or outage the process uses Redis again, whenever the
\* events of replaced clients arrive (redis.service.ts:69-86, 106-123).
RedisWorks == redisReady /\ client # None /\ socket[client] = "connected"
RedisRecovers == <>[]RedisWorks

-----------------------------------------------------------------------------
(* What it rests on                                                        *)

\* The events of a replaced client change nothing of the current one: there is always one,
\* it is ready exactly while it is connected, and the one the watchdog waits for
\* (redis.service.ts:69-86, 106-123).  So a stalled client is one that is pinged.
CurrentIsKept ==
    /\ client \in Clients
    /\ redisReady <=> socket[client] \in {"connected", "stalled"}
    /\ socket[client] \in {"connecting", "connected", "stalled"}
    /\ checking # None => checking = client
    /\ awaited => checking = client /\ socket[client] = "connecting"

RedisInv ==
    /\ socket \in [Clients -> {"unused", "connecting", "connected", "stalled", "destroyed"}]
    /\ redisReady \in BOOLEAN /\ awaited \in BOOLEAN
    /\ CurrentIsKept
=============================================================================
