------------------------------ MODULE AsioLink ------------------------------
(***************************************************************************)
(* One connection, both ends: an AsioNetworkClient that connects to a      *)
(* server and the AsioSession the server makes of it.  What one end puts   *)
(* on the wire is what the other reads, and an end that closes its socket  *)
(* is the other's closed peer.  The two ends run on threads (processes) of *)
(* their own: their steps interleave freely.                               *)
(***************************************************************************)
EXTENDS Integers, Sequences

CONSTANTS Msgs, Garbled, Torn, CLOSE, CONNECT, DISCONNECT,
          MaxEndpoints,
          ServerCalls,  (* bound: calls of the application at the session  *)
          ClientCalls,  (* bound: calls of the application at the client   *)
          LinkCalls,    (* bound: calls of the two together                *)
          MaxReceived   (* bound: messages after which an end reads no     *)
                        (* further length once it lost the framing         *)

ASSUME LinkAssumption == LinkCalls \in Nat

VARIABLES
  linked,     (* a TCP connection was established                         *)
  to_server,  (* frames the client put on the wire                        *)
  to_client,  (* frames the session put on the wire                       *)
  \* the session's own variables
  s_posted, s_is_active, s_socket_open, s_write_queue, s_is_writing, s_writes, s_read,
  s_torn, s_taken, s_calls, s_accepted, s_received, s_disconnects,
  \* the client's own variables
  c_posted, c_io_stopped, c_is_active, c_socket_open, c_link, c_endpoints, c_write_queue,
  c_writes, c_read, c_torn, c_taken, c_calls, c_accepted, c_received,
  c_disconnects, c_write_failed

sessionVars ==
  <<s_posted, s_is_active, s_socket_open, s_write_queue, s_is_writing, s_writes, s_read,
    s_torn, s_taken, s_calls, s_accepted, s_received, s_disconnects,
    to_client>>
clientVars ==
  <<c_posted, c_io_stopped, c_is_active, c_socket_open, c_link, c_endpoints, c_write_queue,
    c_writes, c_read, c_torn, c_taken, c_calls, c_accepted, c_received,
    c_disconnects, c_write_failed, to_server>>
vars == <<linked, sessionVars, clientVars>>

\* The client's socket is closed for the session once it was connected to it.
ClientGone == linked /\ ~c_socket_open
SessionGone == ~s_socket_open

Session == INSTANCE AsioSession WITH
  MaxCalls <- ServerCalls, MaxPeer <- 0,
  posted <- s_posted, is_active <- s_is_active, socket_open <- s_socket_open,
  write_queue <- s_write_queue, is_writing <- s_is_writing, writes <- s_writes,
  read <- s_read, torn <- s_torn, taken <- s_taken,
  inbound <- to_server, outbound <- to_client, peer_closed <- ClientGone,
  calls <- s_calls, accepted <- s_accepted, received <- s_received,
  disconnects <- s_disconnects

Client == INSTANCE AsioNetworkClient WITH
  MaxCalls <- ClientCalls, MaxPeer <- 0,
  posted <- c_posted, io_stopped <- c_io_stopped, is_active <- c_is_active,
  socket_open <- c_socket_open, link <- c_link, endpoints <- c_endpoints,
  write_queue <- c_write_queue, writes <- c_writes, read <- c_read,
  torn <- c_torn, taken <- c_taken,
  inbound <- to_client, outbound <- to_server, peer_closed <- SessionGone,
  calls <- c_calls, accepted <- c_accepted, received <- c_received,
  disconnects <- c_disconnects, write_failed <- c_write_failed

Init == linked = FALSE /\ Session!Init /\ Client!Init

\* The session takes a step; it exists once the connection does.
SessionStep(A) == linked /\ UNCHANGED <<linked, clientVars>> /\ A

ClientStep(A) == UNCHANGED <<linked, sessionVars>> /\ A

MayCall == s_calls + c_calls < LinkCalls

\* The client connects one connection: reconnecting makes another session.
Connect == ~linked /\ ClientStep(Client!Connect)

Establish == linked' = TRUE /\ UNCHANGED sessionVars /\ Client!Establish

Next ==
  \/ MayCall /\ SessionStep(Session!Application)
  \/ SessionStep(Session!Kernel \/ Session!Handlers)
  \/ MayCall /\ Connect
  \/ MayCall /\ ClientStep(\E m \in Msgs : Client!Send(m))
  \/ MayCall /\ ClientStep(Client!Disconnect \/ Client!Stop)
  \/ Establish
  \/ ClientStep(\/ Client!EndpointRefuses \/ Client!WriteCompletes \/ Client!WriteFails
                \/ Client!HeaderArrives \/ Client!BodyArrives \/ Client!ReadFails)
  \/ ClientStep(Client!Handlers)

Spec == Init /\ [][Next]_vars

-----------------------------------------------------------------------------
(* Properties.                                                             *)

ToClient == INSTANCE MessageChannel WITH
  sent <- s_accepted, delivered <- c_received, broken <- c_torn
ToServer == INSTANCE MessageChannel WITH
  sent <- c_accepted, delivered <- s_received, broken <- s_torn

\* What the session accepted for sending reaches the client's on_message in
\* order, without loss in the middle, without duplicates, though with any
\* bytes, until the client reads a wrong length off a message sent; after it
\* on_message may be called any number of times with anything.
ToClientChannel == ToClient!Spec

\* The same of what the client accepted and the session's on_message.
ToServerChannel == ToServer!Spec

\* tests_Network.cpp: the client's on_message is handed exactly what the
\* session sent.
ClientReceivesWhatWasSent ==
  \A i \in DOMAIN c_received :
    i \in DOMAIN s_accepted /\ c_received[i] = s_accepted[i]
=============================================================================
