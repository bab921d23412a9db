------------------------------ MODULE Transport ------------------------------
(***************************************************************************)
(* The one-shot exchange of src/gither/transport.py: a server thread       *)
(* started by serve_once, and clients that call exchange_with on its port. *)
(*                                                                         *)
(* A frame is a header and a body, counted in units.  A socket direction   *)
(* buffers at most Capacity units: sendall blocks on a full buffer, and    *)
(* recv returns what has arrived, which may be less than was asked for.    *)
(* Each blocking call has a timeout.  Processes may be killed at any time, *)
(* which closes their sockets; the server thread is a daemon thread, so it *)
(* ends with its process.                                                  *)
(***************************************************************************)
EXTENDS Naturals, Sequences

CONSTANTS Client,    \* callers of exchange_with, and peers of other programs
          Foreign,   \* the latter: they send what they like, or nothing
          NoClient,
          Header,    \* units of the length prefix
          MaxBody,   \* _MAX_MESSAGE_BYTES, in units
          Lengths,   \* the body lengths that occur
          Capacity,  \* units a direction of a connection buffers
          Backlog    \* connections that wait for accept, at most

ASSUME SizeAssumption == /\ Header \in Nat \ {0}
                         /\ MaxBody \in Nat
                         /\ Lengths \subseteq Nat \ {0}
                         /\ Capacity \in Nat \ {0}
                         /\ Backlog \in Nat \ {0}
ASSUME ClientAssumption == Foreign \subseteq Client /\ NoClient \notin Client

VARIABLES
  length,  \* client -> body length of the frame it sends
  content, \* client -> what the body it sends is
  reply,   \* body length of the server's frame
  cpc,     \* client -> where it is in exchange_with
  spc,     \* where the server thread is
  conn,    \* the accepted connection
  queue,   \* connections waiting for accept, in order of arrival
  out,     \* client -> units it has written
  in,      \* client -> units of them the server has read
  back,    \* client -> units the server has written to it
  read,    \* client -> units of them it has read
  served,  \* clients whose bundle the server has ingested
  fault    \* history: a timeout expired or a process was killed

input == <<length, content, reply>>
stream == <<out, in, back, read>>
tvars == <<input, cpc, spc, conn, queue, stream, served, fault>>

(* A bundle, a JSON object with an entry whose infinite timestamp makes      *)
(* ingest_bundle raise, or no JSON object at all.                            *)
Contents == {"bundle", "overflowing", "no_object"}

ClientEnded == {"done", "failed"}
ServerEnded == {"done", "failed", "expired"}

TTypeOK ==
  /\ length \in [Client -> Lengths]
  /\ content \in [Client -> Contents]
  /\ reply \in Lengths
  /\ cpc \in [Client -> {"connect", "send", "recv_len", "recv_body", "ingest"}
                          \cup ClientEnded]
  /\ spc \in {"accept", "recv_len", "recv_body", "ingest", "send"} \cup ServerEnded
  /\ conn \in Client \cup {NoClient}
  /\ queue \in Seq(Client)
  /\ \A f \in {out, in, back, read} : f \in [Client -> Nat]
  /\ \A c \in Client : /\ in[c] <= out[c] /\ out[c] <= Header + length[c]
                       /\ read[c] <= back[c] /\ back[c] <= Header + reply
  /\ served \in SUBSET Client
  /\ fault \in BOOLEAN

TInit ==
  /\ length \in [Client -> Lengths]
  /\ content \in [Client -> Contents]
  /\ \A c \in Client \ Foreign : content[c] = "bundle"
  /\ reply \in Lengths
  /\ cpc = [c \in Client |-> "connect"]
  /\ spc = "accept"
  /\ conn = NoClient
  /\ queue = <<>>
  /\ out = [c \in Client |-> 0]
  /\ in = out /\ back = out /\ read = out
  /\ served = {}
  /\ fault = FALSE

-----------------------------------------------------------------------------
(* recv may return any part of what has arrived, up to what it was asked for *)
Chunks(arrived, taken, target) ==
  {k \in 1..(target - taken) : taken + k <= arrived}

Listening == spc \notin ServerEnded
ServerClosed(c) == ~Listening \/ (conn = c /\ spc \in ServerEnded)
ClientClosed(c) == cpc[c] \in ClientEnded

ClientMoves(c, from, to) == cpc[c] = from /\ cpc' = [cpc EXCEPT ![c] = to]
ServerMoves(from, to) == spc = from /\ spc' = to

(* socket.create_connection: queued while the listener is open and has room, *)
(* refused when it is closed, timed out when there is no room.               *)
Connect(c) ==
  /\ ClientMoves(c, "connect", "send")
  /\ Listening
  /\ Len(queue) < Backlog
  /\ queue' = Append(queue, c)
  /\ UNCHANGED <<input, spc, conn, stream, served, fault>>

Refused(c) ==
  /\ ClientMoves(c, "connect", "failed")
  /\ ~Listening
  /\ UNCHANGED <<input, spc, conn, queue, stream, served, fault>>

ConnectTimeout(c) ==
  /\ ClientMoves(c, "connect", "failed")
  /\ Listening /\ Len(queue) >= Backlog
  /\ fault' = TRUE
  /\ UNCHANGED <<input, spc, conn, queue, stream, served>>

(* _send_message raises before it writes anything when the body is too long; *)
(* a peer of another program has no such check.                              *)
ClientTooLong(c) ==
  /\ c \notin Foreign
  /\ length[c] > MaxBody
  /\ ClientMoves(c, "send", "failed")
  /\ UNCHANGED <<input, spc, conn, queue, stream, served, fault>>

ClientSend(c) ==
  /\ c \in Foreign \/ length[c] <= MaxBody
  /\ cpc[c] = "send"
  /\ out[c] - in[c] < Capacity
  /\ out' = [out EXCEPT ![c] = @ + 1]
  /\ cpc' = IF out[c] + 1 = Header + length[c]
            THEN [cpc EXCEPT ![c] = "recv_len"] ELSE cpc
  /\ UNCHANGED <<input, spc, conn, queue, in, back, read, served, fault>>

(* One recv of _recv_exactly; when the count is complete, on to what the     *)
(* caller does with it.                                                      *)
ClientTarget(c) == IF cpc[c] = "recv_len" THEN Header ELSE Header + reply

ClientRecv(c) ==
  /\ cpc[c] \in {"recv_len", "recv_body"}
  /\ \E k \in Chunks(back[c], read[c], ClientTarget(c)) :
       /\ read' = [read EXCEPT ![c] = @ + k]
       /\ cpc' = IF read[c] + k < ClientTarget(c) THEN cpc
                 ELSE IF cpc[c] = "recv_body" THEN [cpc EXCEPT ![c] = "ingest"]
                 ELSE IF reply > MaxBody THEN [cpc EXCEPT ![c] = "failed"]
                 ELSE [cpc EXCEPT ![c] = "recv_body"]
  /\ UNCHANGED <<input, spc, conn, queue, out, in, back, served, fault>>

(* ingest_bundle, then the connection is closed and exchange_with returns.   *)
(* The server is one of this program's, whose timestamps are integers: the   *)
(* ingest of its bundle does not raise.                                      *)
ClientIngest(c) ==
  /\ ClientMoves(c, "ingest", "done")
  /\ UNCHANGED <<input, spc, conn, queue, stream, served, fault>>

ClientBlocked(c) ==
  \/ cpc[c] = "send" /\ out[c] - in[c] = Capacity
  \/ cpc[c] \in {"recv_len", "recv_body"} /\ back[c] = read[c]

(* A socket call raises: the peer has closed.  Data still on its way is lost *)
(* when the peer closed abnormally, delivered first when it did not.         *)
ClientPeerGone(c) ==
  /\ cpc[c] \in {"send", "recv_len", "recv_body"}
  /\ ServerClosed(c)
  /\ ClientBlocked(c) \/ spc # "done" \/ conn # c
  /\ cpc' = [cpc EXCEPT ![c] = "failed"]
  /\ UNCHANGED <<input, spc, conn, queue, stream, served, fault>>

ClientTimeout(c) ==
  /\ ClientBlocked(c)
  /\ cpc' = [cpc EXCEPT ![c] = "failed"]
  /\ fault' = TRUE
  /\ UNCHANGED <<input, spc, conn, queue, stream, served>>

ClientKilled(c) ==
  /\ cpc[c] \notin ClientEnded
  /\ cpc' = [cpc EXCEPT ![c] = "failed"]
  /\ fault' = TRUE
  /\ UNCHANGED <<input, spc, conn, queue, stream, served>>

ClientStep(c) == \/ Connect(c) \/ Refused(c) \/ ConnectTimeout(c)
                 \/ ClientTooLong(c) \/ ClientSend(c) \/ ClientRecv(c)
                 \/ ClientIngest(c) \/ ClientPeerGone(c) \/ ClientTimeout(c)

-----------------------------------------------------------------------------
(* listener.accept() *)
Accept ==
  /\ ServerMoves("accept", "recv_len")
  /\ queue # <<>>
  /\ conn' = Head(queue)
  /\ queue' = Tail(queue)
  /\ UNCHANGED <<input, cpc, stream, served, fault>>

AcceptTimeout ==
  /\ ServerMoves("accept", "expired")
  /\ queue = <<>>
  /\ fault' = TRUE
  /\ UNCHANGED <<input, cpc, conn, queue, stream, served>>

ServerTarget == IF spc = "recv_len" THEN Header ELSE Header + length[conn]

(* Variant: one recv is taken to return all that was asked for. *)
ServerRecvOnce ==
  /\ spc \in {"recv_len", "recv_body"}
  /\ \E k \in Chunks(out[conn], in[conn], ServerTarget) :
       in' = [in EXCEPT ![conn] = @ + k]
  /\ spc' = IF spc = "recv_len" THEN "recv_body" ELSE "ingest"
  /\ UNCHANGED <<input, cpc, conn, queue, out, back, read, served, fault>>

(* Variant: a body that is not an object is answered all the same. *)
ServerRecvAny ==
  /\ spc \in {"recv_len", "recv_body"}
  /\ \E k \in Chunks(out[conn], in[conn], ServerTarget) :
       /\ in' = [in EXCEPT ![conn] = @ + k]
       /\ spc' = IF in[conn] + k < ServerTarget THEN spc
                 ELSE IF spc = "recv_body"
                      THEN IF content[conn] # "no_object" THEN "ingest" ELSE "send"
                 ELSE IF length[conn] > MaxBody THEN "failed"
                 ELSE "recv_body"
  /\ UNCHANGED <<input, cpc, conn, queue, out, back, read, served, fault>>

ServerRecv ==
  /\ spc \in {"recv_len", "recv_body"}
  /\ \E k \in Chunks(out[conn], in[conn], ServerTarget) :
       /\ in' = [in EXCEPT ![conn] = @ + k]
       /\ spc' = IF in[conn] + k < ServerTarget THEN spc
                 ELSE IF spc = "recv_body"
                      THEN IF content[conn] # "no_object" THEN "ingest" ELSE "failed"
                 ELSE IF length[conn] > MaxBody THEN "failed"
                 ELSE "recv_body"
  /\ UNCHANGED <<input, cpc, conn, queue, out, back, read, served, fault>>

(* Variant: the connection is closed without a reply. *)
ServerIngestOnly ==
  /\ ServerMoves("ingest", "done")
  /\ content[conn] = "bundle"
  /\ served' = served \cup {conn}
  /\ UNCHANGED <<input, cpc, conn, queue, stream, fault>>

ServerIngest ==
  /\ ServerMoves("ingest", "send")
  /\ content[conn] = "bundle"
  /\ served' = served \cup {conn}
  /\ UNCHANGED <<input, cpc, conn, queue, stream, fault>>

(* ingest_bundle raises amid the bundle: the thread ends without a reply.    *)
ServerIngestRaises ==
  /\ ServerMoves("ingest", "failed")
  /\ content[conn] = "overflowing"
  /\ UNCHANGED <<input, cpc, conn, queue, stream, served, fault>>

ServerTooLong ==
  /\ reply > MaxBody
  /\ ServerMoves("send", "failed")
  /\ UNCHANGED <<input, cpc, conn, queue, stream, served, fault>>

(* Variant: the server goes back to accept once it has replied. *)
ServerSendLoop ==
  /\ reply <= MaxBody
  /\ spc = "send"
  /\ back[conn] - read[conn] < Capacity
  /\ back' = [back EXCEPT ![conn] = @ + 1]
  /\ spc' = IF back[conn] + 1 = Header + reply THEN "accept" ELSE spc
  /\ UNCHANGED <<input, cpc, conn, queue, out, in, read, served, fault>>

ServerSend ==
  /\ reply <= MaxBody
  /\ spc = "send"
  /\ back[conn] - read[conn] < Capacity
  /\ back' = [back EXCEPT ![conn] = @ + 1]
  /\ spc' = IF back[conn] + 1 = Header + reply THEN "done" ELSE spc
  /\ UNCHANGED <<input, cpc, conn, queue, out, in, read, served, fault>>

ServerBlocked ==
  \/ spc = "send" /\ back[conn] - read[conn] = Capacity
  \/ spc \in {"recv_len", "recv_body"} /\ out[conn] = in[conn]

ServerPeerGone ==
  /\ spc \in {"recv_len", "recv_body", "send"}
  /\ ClientClosed(conn)
  /\ spc' = "failed"
  /\ UNCHANGED <<input, cpc, conn, queue, stream, served, fault>>

(* Variant: no timeout is set on the accepted connection. *)
NoServerTimeout == ServerBlocked /\ FALSE /\ UNCHANGED tvars

ServerTimeout ==
  /\ ServerBlocked
  /\ spc' = "failed"
  /\ fault' = TRUE
  /\ UNCHANGED <<input, cpc, conn, queue, stream, served>>

ServerKilled ==
  /\ Listening
  /\ spc' = "failed"
  /\ fault' = TRUE
  /\ UNCHANGED <<input, cpc, conn, queue, stream, served>>

ServerStep == \/ Accept \/ AcceptTimeout \/ ServerRecv
              \/ ServerIngest \/ ServerIngestRaises \/ ServerTooLong \/ ServerSend \/ ServerPeerGone \/ ServerTimeout

TNext == \/ ServerStep \/ ServerKilled
         \/ \E c \in Client : ClientStep(c) \/ ClientKilled(c)

TSpec == TInit /\ [][TNext]_tvars

(* The operating system schedules the server thread and this program's       *)
(* clients, and their timeouts expire; a foreign peer owes us nothing.       *)
FairSpec == /\ TSpec
            /\ WF_tvars(ServerStep)
            /\ \A c \in Client \ Foreign : WF_tvars(ClientStep(c))
-----------------------------------------------------------------------------
(* Properties *)

(* exchange_with returns only after the server has ingested what the client  *)
(* sent: the server replies last, so a returned call means both sides have   *)
(* the other's bundle.                                                       *)
ReplyMeansIngested == \A c \in Client : cpc[c] = "done" => c \in served

(* Nothing but a whole frame is ingested, although recv returns pieces.      *)
WholeFrames ==
  /\ \A c \in served : in[c] = Header + length[c]
  /\ \A c \in Client : cpc[c] \in {"ingest", "done"} => read[c] = Header + reply

(* Between this program's peers, with bundles within the limit, an exchange  *)
(* fails only because a timeout expired or a process was killed.             *)
QuietExchangeSucceeds ==
  /\ ~fault
  /\ conn \in Client \ Foreign
  /\ length[conn] <= MaxBody
  /\ reply <= MaxBody
  => spc # "failed" /\ cpc[conn] # "failed"

(* All of this is a one-shot exchange: however frames are cut into pieces,   *)
(* whoever connects, is killed or falls silent, one bundle at most is        *)
(* ingested, whole and sound, and no call returns but that of its sender.    *)
Ingestible == {c \in Client : content[c] = "bundle" /\ length[c] <= MaxBody}

Outcome == [c \in Client |-> CASE cpc[c] = "done" -> "returned"
                               [] cpc[c] = "failed" -> "raised"
                               [] OTHER -> "open"]

Exchange == INSTANCE OneShot WITH Caller <- Client, sound <- Ingestible,
                                  fits <- reply <= MaxBody, call <- Outcome

ImplementsOneShot == Exchange!Spec

(* The server thread ends, so joining it returns, and every exchange_with    *)
(* returns or raises, even when a foreign peer falls silent.                 *)
AllEnd == /\ <>(spc \in ServerEnded)
          /\ \A c \in Client \ Foreign : <>(cpc[c] \in ClientEnded)
=============================================================================
