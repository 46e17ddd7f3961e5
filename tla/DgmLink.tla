------------------------------- MODULE DgmLink ------------------------------
(***************************************************************************)
(* Two datagram pipes over one connection, each with a user that is not an *)
(* io_bridge: it calls recv(), send(), send_fin() and discard() of its     *)
(* pipe whenever io_pipe.h lets it, sends datagrams of any size, also      *)
(* none, and may end its stream while octets of a datagram are still kept  *)
(* by the atx_pipe.                                                        *)
(*                                                                         *)
(* An end is a dgm_pipe on an atx_pipe on a tcp_pipe on a socket.  A step  *)
(* is one call by a user, or one turn of the event loop of an end up to    *)
(* the callback of the user (Activity, Flush).  The octets between         *)
(* the two sockets, wherever they are buffered, are one FIFO a direction.  *)
(* `tcp' holds the bits of the lowest pipe, `flags' what the user sees.    *)
(***************************************************************************)
EXTENDS DgmPipe

CONSTANTS
  SndBuf,     \* how many octets a direction of the connection holds
  RecvSize,   \* what the users pass to recv()
  DgmSizes,   \* the sizes of the datagrams they send
  MaxDgms     \* bound: how many datagrams the two users send together

ASSUME LinkAssumption ==
  /\ SndBuf \in Nat \ {0}
  /\ RecvSize \in Nat /\ RecvSize >= MaxDgm
  /\ DgmSizes \subseteq Nat
  /\ MaxDgms \in Nat

VARIABLES
  conn,     \* "open" or "reset"
  wire,     \* octets the socket of an end has accepted, up to the peer's recv()
  shut,     \* ends whose socket has sent FIN
  tcp,      \* state bits of the tcp_pipe
  flags,    \* state bits of the dgm_pipe
  mask,     \* the event mask of the socket
  rx,       \* dgm_pipe.rx, <<>> for NULL
  pend,     \* atx_pipe.pending
  wantFin,  \* atx_pipe.want_fin
  user,     \* what the user of an end is doing
  sent,     \* history: datagrams that send() has taken
  got,      \* history: datagrams that recv() has returned
  finned,   \* history: ends whose user has called send_fin(), which returned 0
  ended,    \* history: ends whose user has got FIN from recv()
  cut       \* history: ends whose discard() has freed octets not sent yet

netVars == <<conn, wire, shut>>
pipeVars == <<tcp, flags, mask, rx, pend, wantFin>>
userVars == <<user, sent, got, finned, ended, cut>>
vars == <<netVars, pipeVars, userVars>>

\* "failed" once the pipe was seen to be broken: all that is left is discard().
UserState == {"using", "failed", "discarded", "aborted"}

\* The sockets of the two ends, as the relay's: what one sends the other gets.
S == INSTANCE Sockets WITH
       RcvBuf <- SndBuf, MaxOctets <- [e \in Sides |-> MaxDgms],
       SpuriousAgain <- FALSE, ErrorEvents <- FALSE,
       conn <- [e \in Sides |-> conn],
       in <- [e \in Sides |-> wire[Peer(e)]], out <- wire,
       eof <- {e \in Sides : Peer(e) \in shut}

Lost == conn = "reset"

\* Both sockets are connected, and both pipes have just been initialised.
Init ==
  /\ conn = "open"
  /\ wire = [e \in Sides |-> <<>>]
  /\ shut = {}
  /\ tcp = [e \in Sides |-> InitialFlags]
  /\ flags = [e \in Sides |-> InitialFlags]
  /\ mask = [e \in Sides |-> InitialMask]
  /\ rx = [e \in Sides |-> <<>>]
  /\ pend = [e \in Sides |-> <<>>]
  /\ wantFin = [e \in Sides |-> FALSE]
  /\ user = [e \in Sides |-> "using"]
  /\ sent = [e \in Sides |-> <<>>]
  /\ got = [e \in Sides |-> <<>>]
  /\ finned = {} /\ ended = {} /\ cut = {}

-----------------------------------------------------------------------------
\* The bits that a call or a callback has left in the pipes of e.
SetPipe(e, f, up) ==
  /\ tcp' = [tcp EXCEPT ![e] = f]
  /\ mask' = IF f = tcp[e] THEN mask ELSE [mask EXCEPT ![e] = EventMask(f)]
  /\ flags' = [flags EXCEPT ![e] = up]

\* The user looks at them, unless an assert() has ended its program.
UserSees(e, up, asserts) ==
  user' = [user EXCEPT ![e] = IF ~asserts THEN "aborted"
                              ELSE IF "broken" \in up THEN "failed" ELSE @]

Ready(e) == S!ReadyEvents(e) \cap mask[e]

TcpFlags(e) == FlagsOnActivity(tcp[e], Ready(e), Lost)
TcpEvents(e) == EventsOnActivity(tcp[e], Ready(e), Lost)

Wakes(e) == user[e] \in {"using", "failed"} /\ Ready(e) # {}

\* The atx_pipe has done `a' with the events, and calls the dgm_pipe and that
\* the user, unless no event is left.
AtxCalls(e, a) ==
  LET up == IF a.events = {} THEN flags[e] ELSE AtxClone(a.tcp, a.pend)
  IN /\ SetPipe(e, a.tcp, up)
     /\ pend' = [pend EXCEPT ![e] = a.pend]
     /\ UserSees(e, up, OnActivityAsserts(tcp[e], Ready(e), Lost))

Activity(e) ==
  /\ Wakes(e)
  /\ "writable" \notin TcpEvents(e) \/ pend[e] = <<>>
  /\ AtxCalls(e, AtxNothingToFlush(TcpFlags(e), TcpEvents(e), pend[e]))
  /\ UNCHANGED <<netVars, rx, wantFin, sent, got, finned, ended, cut>>

Flush(e) ==
  /\ Wakes(e)
  /\ "writable" \in TcpEvents(e) /\ pend[e] # <<>>
  /\ \E w \in S!SendResults(e, Len(pend[e])) :
       /\ AtxCalls(e, AtxFlushed(TcpFlags(e), TcpEvents(e), pend[e], wantFin[e], w, ~Lost))
       /\ wire' = [wire EXCEPT ![e] = @ \o Taken(pend[e], w.n)]
       /\ shut' = IF "fin_sent" \in tcp'[e] THEN shut \cup {e} ELSE shut
  /\ UNCHANGED <<conn, rx, wantFin, sent, got, finned, ended, cut>>

-----------------------------------------------------------------------------
(* The calls of the users.                                                 *)

\* recv(): FIN if it returns 0 and the bit fin_rcvd is set, an empty datagram
\* if it returns 0 and the bit is clear.
Recvs(e) ==
  IF LeftOver(rx[e]) THEN {WithRead(DgmTaken(tcp[e], pend[e], flags[e], rx[e]), 0)}
  ELSE {WithRead(DgmReceived(tcp[e], pend[e], flags[e], rx[e], r.is,
                             Taken(wire[Peer(e)], r.n)), r.n) :
          r \in S!RecvResults(e, RxSpace(rx[e], RecvSize))}

UserRecvs(e) ==
  /\ user[e] = "using" /\ "readable" \in flags[e]
  /\ \E r \in Recvs(e) :
       /\ SetPipe(e, r.tcp, r.up)
       /\ rx' = [rx EXCEPT ![e] = r.rx]
       /\ wire' = [wire EXCEPT ![Peer(e)] = Rest(@, r.read)]
       /\ got' = IF r.is = "data" THEN [got EXCEPT ![e] = Append(@, r.data)] ELSE got
       /\ ended' = IF r.is = "fin" THEN ended \cup {e} ELSE ended
       /\ UserSees(e, r.up, RecvAsserts(rx[e], RecvSize))
  /\ UNCHANGED <<conn, shut, pend, wantFin, sent, finned, cut>>

\* The next datagram of n octets of the user of e.
DatagramOf(e, n) == [i \in 1..n |-> <<e, Len(sent[e]) + 1, i>>]

Sends(e, data) ==
  IF MaySend(flags[e], pend[e])
    THEN {DgmSent(tcp[e], data, w) : w \in S!SendResults(e, Len(Frame(data)))}
    ELSE {DgmRefused(tcp[e], pend[e], flags[e])}

UserSends(e) ==
  /\ user[e] = "using" /\ e \notin finned /\ "writable" \in flags[e]
  /\ Len(sent["l"]) + Len(sent["r"]) < MaxDgms
  /\ \E n \in DgmSizes : \E w \in Sends(e, DatagramOf(e, n)) :
       /\ SetPipe(e, w.tcp, w.up)
       /\ wire' = [wire EXCEPT ![e] = @ \o w.put]
       /\ pend' = [pend EXCEPT ![e] = w.pend]
       /\ sent' = IF w.ok THEN [sent EXCEPT ![e] = Append(@, DatagramOf(e, n))] ELSE sent
       /\ UserSees(e, w.up, SendAsserts(w))
  /\ UNCHANGED <<conn, shut, rx, wantFin, got, finned, ended, cut>>

\* send_fin(), once, congested or not.
UserFins(e) ==
  /\ user[e] = "using" /\ e \notin finned /\ "ready" \in flags[e]
  /\ LET a == AtxFin(tcp[e], pend[e], wantFin[e], ~Lost)
         up == AtxClone(a.tcp, pend[e])
     IN /\ SetPipe(e, a.tcp, up)
        /\ wantFin' = [wantFin EXCEPT ![e] = a.wantFin]
        /\ shut' = IF "fin_sent" \in a.tcp THEN shut \cup {e} ELSE shut
        /\ finned' = IF "broken" \in a.tcp THEN finned ELSE finned \cup {e}
        /\ UserSees(e, up, AtxFinAsserts(tcp[e], pend[e], wantFin[e]))
  /\ UNCHANGED <<conn, wire, rx, pend, sent, got, ended, cut>>

\* discard() frees what the three pipes keep and closes the socket.
UserDiscards(e) ==
  /\ user[e] \in {"using", "failed"}
  /\ user' = [user EXCEPT ![e] = "discarded"]
  /\ cut' = IF AtxDiscardCuts(pend[e]) THEN cut \cup {e} ELSE cut
  /\ rx' = [rx EXCEPT ![e] = <<>>]
  /\ pend' = [pend EXCEPT ![e] = <<>>]
  /\ wantFin' = [wantFin EXCEPT ![e] = FALSE]
  /\ shut' = shut \cup {e}
  /\ conn' = IF ClosedWith(wire[Peer(e)]) = "reset" THEN "reset" ELSE conn
  /\ UNCHANGED <<wire, tcp, flags, mask, sent, got, finned, ended>>

\* Failure of the network, or the answer to octets for an end that is gone.
ConnectionLost ==
  /\ conn = "open"
  /\ conn' = "reset"
  /\ UNCHANGED <<wire, shut, pipeVars, userVars>>

Terminated ==
  /\ \A e \in Sides : user[e] \in {"discarded", "aborted"}
  /\ UNCHANGED vars

Next ==
  \/ \E e \in Sides :
       \/ Activity(e) \/ Flush(e)
       \/ UserRecvs(e) \/ UserSends(e) \/ UserFins(e) \/ UserDiscards(e)
  \/ ConnectionLost \/ Terminated

Spec == Init /\ [][Next]_vars

\* The program of each end is scheduled: it turns its event loop, or receives
\* what there is to receive.  Nobody has to send, to end the stream or to
\* discard the pipe.
Runs(e) == Activity(e) \/ Flush(e) \/ UserRecvs(e)

Fairness == \A e \in Sides : WF_vars(Runs(e))

FairSpec == Spec /\ Fairness

-----------------------------------------------------------------------------
Octet == Sides \X (1..MaxDgms) \X Nat

\* What a stream between the two pipes is made of.
Octets == Octet \cup HeaderOctet

TypeOK ==
  /\ conn \in {"open", "reset"}
  /\ {shut, finned, ended, cut} \subseteq SUBSET Sides
  /\ tcp \in [Sides -> SUBSET Flag] /\ flags \in [Sides -> SUBSET Flag]
  /\ mask \in [Sides -> SUBSET SkEvent]
  /\ {wire, rx, pend} \subseteq [Sides -> Seq(Octets)]
  /\ wantFin \in [Sides -> BOOLEAN]
  /\ user \in [Sides -> UserState]
  /\ {sent, got} \subseteq [Sides -> Seq(Seq(Octet))]

\* No assert() of the three pipes fires while their user keeps to io_pipe.h,
\* whatever it sends, and whenever it ends its stream.
NoAbort == \A e \in Sides : user[e] # "aborted"

\* The datagrams the two users may send.
Sendable == {[i \in 1..n |-> <<e, k, i>>] : n \in DgmSizes, e \in Sides, k \in 1..MaxDgms}

\* Datagrams arrive with their boundaries (readme: 3, 123 and 4 octets sent are
\* received as 3, 123 and 4 octets), the empty ones too; FIN is told from an
\* empty datagram and reported only after the last datagram, also when it was
\* put off, or when the peer has discarded its pipe with octets pending; a
\* pipe breaks only if the connection failed or was cut off, or once it has
\* given out every datagram before one that is longer than it takes.
Channel ==
  INSTANCE DgmChannel WITH
    Datagram <- Sendable,
    MaxSize <- MaxDgm,
    closed <- finned,
    gone <- {e \in Sides : user[e] = "discarded"},
    failed <- {e \in Sides : user[e] = "failed"},
    lost <- Lost \/ cut # {}

ImplementsChannel == Channel!Spec

-----------------------------------------------------------------------------
(* What must happen, as long as both users stay and the connection holds.  *)

Troubled == Lost \/ \E e \in Sides : user[e] # "using"

\* Every datagram that send() has taken reaches the peer's user: again and
\* again everything has.
DatagramsArrive ==
  \A e \in Sides : []<>(Len(got[Peer(e)]) = Len(sent[e]) \/ Troubled)

\* A FIN reaches it too, after them, also if the atx_pipe had to put it off.
FinArrives ==
  \A e \in Sides : e \in finned ~> Peer(e) \in ended \/ Troubled

\* io_pipe.h 68-73: the user learns that its FIN has gone out.
FinSentIsSignalled ==
  \A e \in Sides : e \in finned ~> "fin_sent" \in flags[e] \/ Troubled

=============================================================================
