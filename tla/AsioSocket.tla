----------------------------- MODULE AsioSocket -----------------------------
(***************************************************************************)
(* What the two ends of a connection (AsioSession on the server,           *)
(* AsioNetworkClient on the client) rely on in boost::asio: operations     *)
(* that are started now and whose completion handler the io_context runs   *)
(* later, with an error if the socket was closed meanwhile.                *)
(*                                                                         *)
(* A frame is a 4-byte length followed by that many bytes.  Frames are not *)
(* modelled byte by byte: a frame on the wire is the message it carries,   *)
(* or Garbled (the length is right, the body is not the message's), or     *)
(* Torn (the length itself is wrong).  The last two exist because both     *)
(* doWrite functions hand asio a buffer that dies when doWrite returns.    *)
(***************************************************************************)
EXTENDS Integers, Sequences

CONSTANTS
  Msgs,     (* the messages the application sends                   *)
  Garbled,  (* a frame of the right length with other bytes in it   *)
  Torn      (* a frame whose length field is not the message's      *)

ASSUME FramesAreDistinct ==
  /\ Garbled \notin Msgs
  /\ Torn \notin Msgs
  /\ Garbled # Torn

Frames == Msgs \cup {Garbled, Torn}

(***************************************************************************)
(* An operation is pending until the kernel is done with it; its handler   *)
(* runs afterwards, in a later turn of the io_context.                     *)
(***************************************************************************)
OpStates == {"pending", "done", "failed"}

WriteOps == [data : Msgs, state : OpStates]
ReadOps  == [phase : {"none", "header", "body"}, state : OpStates]

NoRead     == [phase |-> "none",   state |-> "done"]
HeaderRead == [phase |-> "header", state |-> "pending"]
BodyRead   == [phase |-> "body",   state |-> "pending"]

Finished(op) == op.state # "pending"

\* socket.close() completes what is pending with operation_aborted; a
\* completion that is already queued keeps its result.
Aborted(op) == IF Finished(op) THEN op ELSE [op EXCEPT !.state = "failed"]
AllAborted(ops) == [i \in DOMAIN ops |-> Aborted(ops[i])]

(***************************************************************************)
(* The bytes a write leaves on the wire when the kernel could not take     *)
(* them while async_write was being called: the vector they are read from  *)
(* is gone, so they are the message's only if its memory was not reused.   *)
(***************************************************************************)
LateBytes(m) == {m, Garbled, Torn}
=============================================================================
