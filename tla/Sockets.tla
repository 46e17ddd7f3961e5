------------------------------ MODULE Sockets -------------------------------
(***************************************************************************)
(* The two TCP connections a relay works on, seen through the socket calls *)
(* it makes (sys/inc/libp/socket.h), and the hosts at their far ends.      *)
(* None of this is code of the repository: it is the operating system and  *)
(* the network as io_pipe_tcp.c and the two main() functions use them.     *)
(*                                                                         *)
(* An octet is named by the side it enters at and its position in that     *)
(* side's stream; the program never looks inside one.  Octets that have    *)
(* left a host but are not yet in the relay's receive buffer are counted   *)
(* with that buffer, and likewise for the send buffer.                     *)
(***************************************************************************)
EXTENDS TcpPipe

CONSTANTS
  RcvBuf,        \* capacity of a receive buffer, in octets
  SndBuf,        \* capacity of a send buffer, in octets
  MaxOctets,     \* bound: how many octets the host of each side sends
  SpuriousAgain, \* a call may fail with EAGAIN/ENOMEM although it could proceed
  ErrorEvents    \* select() reports SK_EV_error for a failed socket
                 \*   (event_loop.h) rather than "writable" (Linux)

ASSUME SocketAssumption ==
  /\ RcvBuf \in Nat \ {0} /\ SndBuf \in Nat \ {0}
  /\ MaxOctets \in [Sides -> Nat]
  /\ SpuriousAgain \in BOOLEAN /\ ErrorEvents \in BOOLEAN

VARIABLES
  conn,  \* state of each connection
  in,    \* octets received and not yet read by recv()
  eof,   \* sides whose host has closed its direction, i.e. sent FIN
  out,   \* octets accepted by send() and not yet read by the host
  shut,  \* sides on which shutdown(SHUT_WR) was called
  sent,  \* history: everything the host of a side has sent
  got    \* history: everything the host of a side has read

Octet == UNION {{s} \X (1..MaxOctets[s]) : s \in Sides}
ConnState == {"connecting", "open", "refused", "reset"}

sockVars == <<conn, in, eof, out, shut, sent, got>>

SocketsTypeOK ==
  /\ conn \in [Sides -> ConnState]
  /\ in \in [Sides -> Seq(Octet)]
  /\ out \in [Sides -> Seq(Octet)]
  /\ sent \in [Sides -> Seq(Octet)]
  /\ got \in [Sides -> Seq(Octet)]
  /\ eof \subseteq Sides
  /\ shut \subseteq Sides

\* The left socket was accepted; connect() on the right one has just returned.
SocketsInit ==
  /\ conn \in {c \in [Sides -> {"connecting", "open"}] : c["l"] = "open"}
  /\ in = [s \in Sides |-> <<>>]
  /\ out = [s \in Sides |-> <<>>]
  /\ sent = [s \in Sides |-> <<>>]
  /\ got = [s \in Sides |-> <<>>]
  /\ eof = {}
  /\ shut = {}

-----------------------------------------------------------------------------
(* The hosts and the network.                                              *)

Connected(s) ==
  /\ conn[s] = "connecting"
  /\ conn' = [conn EXCEPT ![s] = "open"]
  /\ UNCHANGED <<in, eof, out, shut, sent, got>>

Refused(s) ==
  /\ conn[s] = "connecting"
  /\ conn' = [conn EXCEPT ![s] = "refused"]
  /\ UNCHANGED <<in, eof, out, shut, sent, got>>

HostSends(s) ==
  /\ conn[s] = "open" /\ s \notin eof
  /\ Len(sent[s]) < MaxOctets[s] /\ Len(in[s]) < RcvBuf
  /\ LET o == <<s, Len(sent[s]) + 1>>
     IN /\ in' = [in EXCEPT ![s] = Append(@, o)]
        /\ sent' = [sent EXCEPT ![s] = Append(@, o)]
  /\ UNCHANGED <<conn, eof, out, shut, got>>

HostCloses(s) ==
  /\ conn[s] = "open" /\ s \notin eof
  /\ eof' = eof \cup {s}
  /\ UNCHANGED <<conn, in, out, shut, sent, got>>

HostReads(s) ==
  /\ conn[s] = "open" /\ out[s] # <<>>
  /\ out' = [out EXCEPT ![s] = Tail(@)]
  /\ got' = [got EXCEPT ![s] = Append(@, Head(out[s]))]
  /\ UNCHANGED <<conn, in, eof, shut, sent>>

\* RST or a timeout: nothing more is delivered; see RecvResults for `in'.
ConnectionLost(s) ==
  /\ conn[s] = "open"
  /\ conn' = [conn EXCEPT ![s] = "reset"]
  /\ UNCHANGED <<in, eof, out, shut, sent, got>>

-----------------------------------------------------------------------------
(* The socket calls of the relay.                                          *)

Failed(s) == conn[s] \in {"refused", "reset"}

Free(s) == SndBuf - Len(out[s])

\* What select() reports for a socket, before the pipe's mask is applied.
ReadyEvents(s) ==
  {e \in SkEvent :
     \/ e = "readable" /\ \/ conn[s] = "open" /\ (in[s] # <<>> \/ s \in eof)
                          \/ conn[s] = "reset"
     \/ e = "writable" /\ \/ conn[s] = "open" /\ Free(s) > 0
                          \/ conn[s] = "reset"
                          \/ conn[s] = "refused" /\ ~ErrorEvents
     \/ e = "error" /\ Failed(s) /\ ErrorEvents}

\* recv() of at most len octets.  A reset may or may not discard the octets
\* received before it (the notes of socket.h tell to assume that it does).
RecvResults(s, len) ==
  {r \in [is : RecvOutcome, n : 0..len] :
     \/ /\ r.is = "data" /\ conn[s] \in {"open", "reset"}
        /\ r.n \in 1..Len(in[s])
     \/ /\ r.is = "fin" /\ conn[s] \in {"open", "reset"}
        /\ r.n = 0 /\ s \in eof /\ in[s] = <<>>
     \/ /\ r.is = "again" /\ conn[s] = "open" /\ r.n = 0
        /\ SpuriousAgain \/ (in[s] = <<>> /\ s \notin eof)
     \/ r.is = "fatal" /\ r.n = 0 /\ Failed(s)}

\* send() of len octets.
SendResults(s, len) ==
  {r \in [is : SendOutcome, n : 0..len] :
     \/ r.is = "all" /\ conn[s] = "open" /\ r.n = len /\ len <= Free(s)
     \/ r.is = "some" /\ conn[s] = "open" /\ r.n \in 1..Free(s) /\ r.n < len
     \/ /\ r.is = "again" /\ conn[s] = "open" /\ r.n = 0
        /\ SpuriousAgain \/ Free(s) = 0
     \/ r.is \in {"fatal", "epipe"} /\ r.n = 0 /\ Failed(s)}

=============================================================================
