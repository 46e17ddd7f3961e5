------------------------------ MODULE DgmPipe -------------------------------
(***************************************************************************)
(* io_pipe_dgm.c: a pipe that carries datagrams, each behind its size, on  *)
(* an atx_pipe over a stream.                                              *)
(*                                                                         *)
(* The size is one to four octets of a form that IoSerialize models; here  *)
(* a header is one octet, or two for a datagram of LongDgm octets or more, *)
(* which is enough to have it cut in the middle.  A header octet says      *)
(* whether it is the last one, and stands for the size it is part of.      *)
(***************************************************************************)
EXTENDS AtxPipe

CONSTANTS
  MaxDgm,   \* dgm_pipe.max_size
  MaxHdr,   \* dgm_pipe.max_hdr_size
  LongDgm   \* the smallest size with a header of two octets

ASSUME DgmAssumption ==
  /\ MaxDgm \in Nat \ {0} /\ LongDgm \in Nat \ {0}
  /\ MaxHdr \in Nat \ {0, 1}

HdrLen(n) == IF n >= LongDgm THEN 2 ELSE 1

\* io_store_size()
Header(n) == IF HdrLen(n) = 2 THEN << <<"more", n>>, <<"last", n>> >> ELSE << <<"last", n>> >>

IsHeader(o) == o[1] \in {"more", "last"}

HeaderOctet == {"more", "last"} \X Nat

\* What the octets of a stream carry.
Payload(q) ==
  LET carried[n \in 0..Len(q)] ==
        IF n = 0 THEN <<>>
        ELSE IF IsHeader(q[n]) THEN carried[n - 1] ELSE Append(carried[n - 1], q[n])
  IN carried[Len(q)]

\* dgm_pipe_send() formats the datagram.
Frame(data) == Header(Len(data)) \o data

\* A stream of complete datagrams, and in step with it the headers: every one
\* is followed by as many octets as it says and then by the next.
WellFramed(q) ==
  q # <<>> =>
    /\ IsHeader(q[1])
    /\ \A i \in DOMAIN q :
         /\ q[i][1] = "more" => i < Len(q) /\ q[i + 1] = <<"last", q[i][2]>>
         /\ q[i][1] = "last" =>
              LET end == i + q[i][2]
              IN /\ end <= Len(q)
                 /\ \A j \in (i + 1)..end : ~IsHeader(q[j])
                 /\ end < Len(q) => IsHeader(q[end + 1])

\* The same with headers of the sizes and the form that dgm_pipe_recv() accepts.
InStep(q) ==
  /\ WellFramed(q)
  /\ \A i \in DOMAIN q :
       /\ IsHeader(q[i]) => q[i][2] \in 1..MaxDgm
       /\ q[i][1] = "more" => HdrLen(q[i][2]) = 2
       /\ q[i][1] = "last" /\ HdrLen(q[i][2]) = 2 => i > 1 /\ q[i - 1] = <<"more", q[i][2]>>

Bad(rx) == [is |-> "bad", data |-> <<>>, rest |-> rx]
Short(rx) == [is |-> "short", data |-> <<>>, rest |-> rx]

\* Mutant: the receive buffer is emptied rather than moved past the datagram.
ProcessRxEmpties(rx) ==
  IF rx = <<>> THEN Short(rx)
  ELSE IF ~IsHeader(rx[1]) THEN Bad(rx)
  ELSE LET n == rx[1][2]
           h == HdrLen(n)
       IN IF Len(rx) < h THEN Short(rx)
          ELSE IF n > MaxDgm THEN Bad(rx)
          ELSE IF Len(rx) < h + n THEN Short(rx)
          ELSE [is |-> "dgm", data |-> SubSeq(rx, h + 1, h + n), rest |-> <<>>]

\* process_rx(): the first datagram of the receive buffer.  Out of step with
\* the headers nothing is certain, and counts as malformed.
ProcessRx(rx) ==
  IF rx = <<>> THEN Short(rx)
  ELSE IF ~IsHeader(rx[1]) THEN Bad(rx)
  ELSE LET n == rx[1][2]
           h == HdrLen(n)
       IN IF Len(rx) < h THEN Short(rx)
          ELSE IF n > MaxDgm THEN Bad(rx)
          ELSE IF Len(rx) < h + n THEN Short(rx)
          ELSE [is |-> "dgm", data |-> SubSeq(rx, h + 1, h + n), rest |-> Rest(rx, h + n)]

-----------------------------------------------------------------------------
(* dgm_pipe_recv(): what it returns, and what it leaves below, in the      *)
(* receive buffer and in the bits of this pipe (`up').                     *)

\* The label err: the buffer is freed, and this pipe alone becomes broken.
DgmFailed(f, up) ==
  [is |-> "nothing", data |-> <<>>, tcp |-> f, rx |-> <<>>, up |-> TagBroken(up)]

\* The label pass.
DgmPassed(is, data, f, pend, rx) ==
  [is |-> is, data |-> data, tcp |-> f, rx |-> rx, up |-> AtxClone(f, pend)]

\* After process_rx(rx), if it ends the call.
DgmTaken(f, pend, up, rx) ==
  IF ProcessRx(rx).is = "bad" THEN DgmFailed(f, up)
  ELSE DgmPassed(IF ProcessRx(rx).is = "dgm" THEN "data" ELSE "nothing",
                 ProcessRx(rx).data, f, pend, ProcessRx(rx).rest)

\* Mutant: the receive buffer is looked at after recv() only.
LeftOverNever(rx) == FALSE

\* A datagram left over from earlier calls is taken without a look at the
\* pipe below, ...
LeftOver(rx) == ProcessRx(rx).is # "short"

\* Mutant: the end of the stream is nothing special within a datagram.
DgmReceivedTorn(f, pend, up, rx, is, data) ==
  LET after == FlagsAfterRecv(f, is)
  IN CASE is = "data" -> DgmTaken(after, pend, up, rx \o data)
       [] is = "fin" -> DgmPassed("fin", <<>>, after, pend, rx)
       [] OTHER -> DgmPassed("nothing", <<>>, after, pend, rx)

\* ... otherwise recv() of the pipe below has ended in `is' with `data'.
DgmReceived(f, pend, up, rx, is, data) ==
  LET after == FlagsAfterRecv(f, is)
  IN CASE is = "data" -> DgmTaken(after, pend, up, rx \o data)
       [] is = "fin" /\ rx # <<>> -> DgmFailed(after, up)
       [] is = "fin" /\ rx = <<>> -> DgmPassed("fin", <<>>, after, pend, rx)
       [] OTHER -> DgmPassed("nothing", <<>>, after, pend, rx)

\* A call together with the n octets it has read below.
WithRead(d, n) ==
  [is |-> d.is, data |-> d.data, read |-> n, rx |-> d.rx, tcp |-> d.tcp, up |-> d.up]

\* How much it asks for: the buffer is made to hold a header and `len' octets.
RxSpace(rx, len) == MaxHdr + len - Len(rx)

\* The assert() before it reads more.
RecvAsserts(rx, len) == LeftOver(rx) \/ RxSpace(rx, len) > 0

-----------------------------------------------------------------------------
(* dgm_pipe_send(data): the octets of the datagram taken, the octets put   *)
(* into the socket, and what it leaves in the pipes.                       *)

\* Nothing reaches the socket unless all three pipes find themselves able to
\* send.
MaySend(up, pend) == "writable" \in up /\ pend = <<>>

DgmRefused(f, pend, up) ==
  [ok |-> FALSE, n |-> 0, put |-> <<>>, pend |-> pend, tcp |-> f,
   up |-> IF "writable" \in up THEN AtxClone(f, pend) ELSE up]

\* The socket has answered w to the frame.
DgmSent(f, data, w) ==
  LET a == AtxSent(f, Frame(data), w)
  IN [ok |-> a.ok, n |-> IF a.ok THEN Len(data) ELSE 0,
      put |-> Taken(Frame(data), w.n), pend |-> a.pend,
      tcp |-> a.tcp, up |-> AtxClone(a.tcp, a.pend)]

\* The assert() of atx_pipe_send() after a short write.
SendAsserts(w) == w.pend # <<>> => "writable" \notin w.tcp

=============================================================================
