---------------------------- MODULE TlsIncoming ----------------------------
(***************************************************************************)
(* The listener of the Flight service when a TLS policy is enforced:       *)
(* tls_incoming of services/flight/src/lib.rs.  One task accepts TCP       *)
(* connections; each connection gets a permit and a task of its own for    *)
(* its handshake, which hands the stream to the server through a bounded   *)
(* channel.  The permit is held until that task ends, so also while it     *)
(* waits for room in the channel.                                          *)
(***************************************************************************)
EXTENDS Naturals, Sequences, FiniteSets

CONSTANTS
    Clients,        \* TCP connections that are made
    Stalled,        \* the clients that never take part in their handshake
    Permits,        \* size of the semaphore
    Capacity        \* size of the channel

ASSUME TlsAssumption ==
    /\ Stalled \subseteq Clients
    /\ IsFiniteSet(Clients)
    /\ Permits \in Nat \ {0}
    /\ Capacity \in Nat \ {0}

VARIABLES
    conn,           \* where each connection is
    loop,           \* the accept task: selecting, backing off, ended
    permits,        \* permits left in the semaphore
    channel,        \* streams in the channel
    open            \* the server still receives from the channel

tlsVars == <<conn, loop, permits, channel, open>>

TlsInit ==
    /\ conn = [c \in Clients |-> "away"]
    /\ loop = "select"
    /\ permits = Permits
    /\ channel = <<>>
    /\ open = TRUE

Move(c, place) == conn' = [conn EXCEPT ![c] = place]

(***************************************************************************)
(* A client connects: the kernel queues it for accept().                   *)
(***************************************************************************)
Connect(c) ==
    /\ conn[c] = "away"
    /\ loop # "ended"
    /\ Move(c, "pending")
    /\ UNCHANGED <<loop, permits, channel, open>>

(***************************************************************************)
(* The accept task takes a connection: with a permit a handshake task is   *)
(* spawned, without one the connection is dropped and the loop goes on.    *)
(***************************************************************************)
AcceptTakingNone(c) ==
    /\ conn[c] = "pending"
    /\ loop = "select"
    /\ Move(c, IF permits > 0 THEN "handshake" ELSE "dropped")
    /\ UNCHANGED <<loop, permits, channel, open>>

AcceptWaiting(c) ==
    /\ conn[c] = "pending"
    /\ loop = "select"
    /\ permits > 0
    /\ Move(c, "handshake")
    /\ permits' = permits - 1
    /\ UNCHANGED <<loop, channel, open>>

Accept(c) ==
    /\ conn[c] = "pending"
    /\ loop = "select"
    /\ IF permits > 0
       THEN Move(c, "handshake") /\ permits' = permits - 1
       ELSE Move(c, "dropped") /\ UNCHANGED permits
    /\ UNCHANGED <<loop, channel, open>>

AcceptError ==
    /\ loop = "select"
    /\ loop' = "backoff"
    /\ UNCHANGED <<conn, permits, channel, open>>

Backoff ==
    /\ loop = "backoff"
    /\ loop' = "select"
    /\ UNCHANGED <<conn, permits, channel, open>>

(***************************************************************************)
(* tx.closed(): the loop breaks and the listener goes, with the            *)
(* connections nobody accepted.                                            *)
(***************************************************************************)
LoopEnds ==
    /\ loop = "select" /\ ~open
    /\ loop' = "ended"
    /\ conn' = [c \in Clients |-> IF conn[c] = "pending" THEN "refused" ELSE conn[c]]
    /\ UNCHANGED <<permits, channel, open>>

(***************************************************************************)
(* A handshake task: the handshake succeeds, fails, or is cut off by the   *)
(* timeout, which is the only end of a stalled one.                        *)
(***************************************************************************)
HandshakeSucceeds(c) ==
    /\ conn[c] = "handshake" /\ c \notin Stalled
    /\ Move(c, "sending")
    /\ UNCHANGED <<loop, permits, channel, open>>

HandshakeEndsKeepingPermit(c) ==
    /\ conn[c] = "handshake"
    /\ Move(c, "failed")
    /\ UNCHANGED <<loop, permits, channel, open>>

HandshakeEnds(c) ==
    /\ conn[c] = "handshake"
    /\ Move(c, "failed")
    /\ permits' = permits + 1
    /\ UNCHANGED <<loop, channel, open>>

\* tx.send().await: waits for room; a closed channel gives the stream back.
SendUnlessClosed(c) ==
    /\ conn[c] = "sending"
    /\ open /\ Len(channel) < Capacity /\ Move(c, "queued") /\ channel' = Append(channel, c)
    /\ permits' = permits + 1
    /\ UNCHANGED <<loop, open>>

TrySend(c) ==
    /\ conn[c] = "sending"
    /\ \/ open /\ Len(channel) < Capacity /\ Move(c, "queued") /\ channel' = Append(channel, c)
       \/ ~open /\ Move(c, "discarded") /\ UNCHANGED channel
       \/ open /\ Len(channel) = Capacity /\ Move(c, "discarded") /\ UNCHANGED channel
    /\ permits' = permits + 1
    /\ UNCHANGED <<loop, open>>

Send(c) ==
    /\ conn[c] = "sending"
    /\ \/ open /\ Len(channel) < Capacity /\ Move(c, "queued") /\ channel' = Append(channel, c)
       \/ ~open /\ Move(c, "discarded") /\ UNCHANGED channel
    /\ permits' = permits + 1
    /\ UNCHANGED <<loop, open>>

(***************************************************************************)
(* The server (tonic, external): takes streams from the channel, and drops *)
(* it when it is told to stop, with the streams still in it.               *)
(***************************************************************************)
Receive ==
    /\ open /\ channel # <<>>
    /\ Move(Head(channel), "served")
    /\ channel' = Tail(channel)
    /\ UNCHANGED <<loop, permits, open>>

Shutdown ==
    /\ open
    /\ open' = FALSE
    /\ conn' = [c \in Clients |-> IF conn[c] = "queued" THEN "discarded" ELSE conn[c]]
    /\ channel' = <<>>
    /\ UNCHANGED <<loop, permits>>

TlsNext ==
    \/ \E c \in Clients : Connect(c) \/ Accept(c) \/ HandshakeSucceeds(c) \/ HandshakeEnds(c)
                          \/ Send(c)
    \/ AcceptError \/ Backoff \/ LoopEnds \/ Receive \/ Shutdown

(***************************************************************************)
(* Tokio runs every task that can run, timers fire, and accept() does not  *)
(* fail for ever.  Nothing is assumed of the clients (a handshake that     *)
(* could succeed may also time out) nor of the server, which may be slow   *)
(* to take streams.                                                        *)
(***************************************************************************)
TlsFairness ==
    /\ \A c \in Clients : SF_tlsVars(Accept(c)) /\ WF_tlsVars(HandshakeEnds(c))
                          /\ WF_tlsVars(Send(c))
    /\ WF_tlsVars(Backoff) /\ SF_tlsVars(LoopEnds)

TlsSpec == TlsInit /\ [][TlsNext]_tlsVars /\ TlsFairness

-----------------------------------------------------------------------------
ConnPlaces == {"away", "pending", "handshake", "sending", "queued", "served",
               "failed", "dropped", "refused", "discarded"}

TlsTypeOK ==
    /\ conn \in [Clients -> ConnPlaces]
    /\ loop \in {"select", "backoff", "ended"}
    /\ permits \in 0..Permits
    /\ channel \in Seq(Clients)
    /\ open \in BOOLEAN

Tasks == {c \in Clients : conn[c] \in {"handshake", "sending"}}

(***************************************************************************)
(* Permits are neither lost nor made: a task has exactly one until it ends *)
(* whichever way it ends, and the channel never holds more than its size   *)
(* nor a stream twice.                                                     *)
(***************************************************************************)
PermitsAccounted ==
    /\ permits + Cardinality(Tasks) = Permits
    /\ Len(channel) <= Capacity
    /\ {channel[i] : i \in 1..Len(channel)} = {c \in Clients : conn[c] = "queued"}
    /\ Len(channel) = Cardinality({c \in Clients : conn[c] = "queued"})

(***************************************************************************)
(* "A stalled client cannot block accepts": every connection that is made  *)
(* is accepted, dropped or refused, even when a server that takes no more  *)
(* streams leaves every permit in the hands of a blocked task.             *)
(***************************************************************************)
AcceptsGoOn == \A c \in Clients : conn[c] = "pending" ~> conn[c] # "pending"

(***************************************************************************)
(* A completed handshake reaches a server that keeps taking streams from   *)
(* the channel, unless that server stops.                                  *)
(***************************************************************************)
HandshakesDelivered ==
    WF_tlsVars(Receive) =>
        \A c \in Clients : conn[c] = "sending" ~> conn[c] = "served" \/ ~open

(***************************************************************************)
(* After the server stops, every task ends and gives its permit back, and  *)
(* the accept task ends.                                                   *)
(***************************************************************************)
TasksEnd == ~open ~> (loop = "ended" /\ permits = Permits)
=============================================================================
