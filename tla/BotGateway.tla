------------------------------- MODULE BotGateway -------------------------------
(***************************************************************************)
(* The connection of one bot, as its BotConnection object sees it: the     *)
(* sockets the bot has opened, the one row that says which of them is the  *)
(* connection, and the lease that ends a silent one.  A bot that comes     *)
(* back opens a new socket while the old one may still be there; the last  *)
(* hello to be answered wins, and the old socket is not closed.            *)
(*                                                                         *)
(* A session id is the number of the socket whose hello it answers: a bot  *)
(* says hello once per socket.  Times are left out: a lease may lapse      *)
(* whenever the bot could have been silent that long.                      *)
(***************************************************************************)
EXTENDS Naturals

CONSTANT MaxSockets   \* bound: the sockets the bot opens

ASSUME GatewayAssumption == MaxSockets \in Nat

VARIABLES
  socket,    \* socket -> where it is; the object has not noticed a "lost" one
  attached,  \* sockets whose attachment names a session
  greeting,  \* sockets whose hello waits for the bot registry
  conn       \* the row of bot_connection_state

gateway == <<socket, attached, greeting, conn>>

Sockets == 1 .. MaxSockets

GTypeOK == /\ socket \in [Sockets -> {"none", "up", "lost", "closed"}]
           /\ attached \subseteq Sockets
           /\ greeting \subseteq Sockets
           /\ conn \in [session : 0 .. MaxSockets, status : {"connected", "disconnected"}]

GInit == /\ socket = [k \in Sockets |-> "none"]
         /\ attached = {}
         /\ greeting = {}
         /\ conn = [session |-> 0, status |-> "disconnected"]

Disconnected == [conn EXCEPT !.status = "disconnected"]

\* healthyConnectedState: the row, and a socket that carries its session.
Connected == /\ conn.status = "connected"
             /\ conn.session \in attached
             /\ socket[conn.session] \in {"up", "lost"}

\* A frame sent now reaches the bot: a lost socket takes frames too.
Reaches == Connected /\ socket[conn.session] = "up"

\* The bot can send a frame: any socket of its own, the current one or not.
Speaks == \E k \in Sockets : socket[k] = "up"

Accept(k) == /\ socket[k] = "none"
             /\ \A j \in 1 .. k - 1 : socket[j] # "none"
             /\ socket' = [socket EXCEPT ![k] = "up"]
             /\ UNCHANGED <<attached, greeting, conn>>

Hello(k) == /\ socket[k] = "up"
            /\ k \notin attached \cup greeting
            /\ greeting' = greeting \cup {k}
            /\ UNCHANGED <<socket, attached, conn>>

\* The registry has answered, or failed to: the row names this socket now,
\* whatever became of the socket in the meantime.
Greeted(k) == /\ k \in greeting
              /\ greeting' = greeting \ {k}
              /\ attached' = attached \cup {k}
              /\ conn' = [session |-> k, status |-> "connected"]
              /\ UNCHANGED socket

\* The bot is gone and the object does not know.
Lose(k) == /\ socket[k] = "up"
           /\ socket' = [socket EXCEPT ![k] = "lost"]
           /\ UNCHANGED <<attached, greeting, conn>>

\* The object hears that a socket closed; only the current one matters.
Close(k) == /\ socket[k] \in {"up", "lost"}
            /\ socket' = [socket EXCEPT ![k] = "closed"]
            /\ conn' = IF conn.session = k THEN Disconnected ELSE conn
            /\ UNCHANGED <<attached, greeting>>

\* The lease runs out: the alarm closes the socket, unless somebody asked for
\* the connection first, which marks the row and leaves the socket alone.
Lapse == /\ conn.status = "connected"
         /\ conn' = Disconnected
         /\ \/ UNCHANGED socket
            \/ socket' = [socket EXCEPT ![conn.session] = "closed"]
         /\ UNCHANGED <<attached, greeting>>

\* Everything but the hello's answer, after which the object goes on to resume.
Comes == \E k \in Sockets : Accept(k) \/ Hello(k) \/ Lose(k) \/ Close(k)

=============================================================================
