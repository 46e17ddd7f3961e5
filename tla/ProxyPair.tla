------------------------------ MODULE ProxyPair -----------------------------
(***************************************************************************)
(* The readme's picture: host A, `tcp-proxy -c', `tcp-proxy -s', host B.   *)
(* Two copies of TcpProxy, the datagram side of each being the other, with *)
(* a network between them that moves octets, FIN and resets.  Where        *)
(* TcpProxy assumes things of "the other proxy", here it is one.           *)
(*                                                                         *)
(* Host A is the left side of C, host B the right side of S; an octet      *)
(* keeps the name of the side its host is on all the way.                  *)
(***************************************************************************)
EXTENDS DgmPipe

CONSTANTS
  RcvBuf, SndBuf, MaxOctets, SpuriousAgain, ErrorEvents, RecvSize,
  Fallible  \* bound: which connections may fail, "A", "B" or the "mid"dle one,
            \*   while none has failed yet

\* tcp-proxy.c gives dgm_pipe.max_size and br_pipe.recv_size the same value, so
\* that whatever the bridge reads at once fits one datagram.
ASSUME PairAssumption ==
  /\ RcvBuf \in Nat \ {0} /\ SndBuf \in Nat \ {0}
  /\ MaxOctets \in [Sides -> Nat]
  /\ SpuriousAgain \in BOOLEAN /\ ErrorEvents \in BOOLEAN
  /\ RecvSize = MaxDgm

ASSUME FallibleAssumption == Fallible \subseteq {"A", "mid", "B"}

VARIABLES
  cConn, cIn, cEof, cOut, cShut, cSent, cGot, cTodo, cDgm,
  cTcp, cRx, cPend, cWantFin, cMask, cFlags, cPending, cCb, cReports, cHave, cProc,
  sConn, sIn, sEof, sOut, sShut, sSent, sGot, sTodo, sDgm,
  sTcp, sRx, sPend, sWantFin, sMask, sFlags, sPending, sCb, sReports, sHave, sProc

C == INSTANCE TcpProxy WITH
       conn <- cConn, in <- cIn, eof <- cEof, out <- cOut, shut <- cShut,
       sent <- cSent, got <- cGot, todo <- cTodo, dgm <- cDgm, tcp <- cTcp,
       rx <- cRx, pend <- cPend, wantFin <- cWantFin, mask <- cMask,
       flags <- cFlags, pending <- cPending, cb <- cCb, reports <- cReports,
       have <- cHave, proc <- cProc

S == INSTANCE TcpProxy WITH
       conn <- sConn, in <- sIn, eof <- sEof, out <- sOut, shut <- sShut,
       sent <- sSent, got <- sGot, todo <- sTodo, dgm <- sDgm, tcp <- sTcp,
       rx <- sRx, pend <- sPend, wantFin <- sWantFin, mask <- sMask,
       flags <- sFlags, pending <- sPending, cb <- sCb, reports <- sReports,
       have <- sHave, proc <- sProc

\* What only the program of -c changes, and everything about it.
cProgram == <<cTodo, cDgm, cTcp, cRx, cPend, cWantFin, cMask, cFlags,
             cPending, cCb, cReports, cHave, cProc>>
cVars == <<cConn, cIn, cEof, cOut, cShut, cSent, cGot, cProgram>>
\* What only the program of -s changes, and everything about it.
sProgram == <<sTodo, sDgm, sTcp, sRx, sPend, sWantFin, sMask, sFlags,
             sPending, sCb, sReports, sHave, sProc>>
sVars == <<sConn, sIn, sEof, sOut, sShut, sSent, sGot, sProgram>>
vars == <<cVars, sVars>>

\* The connection in the middle is there: -s has accepted it.
Init ==
  /\ C!Init /\ cDgm = "r" /\ cConn["r"] = "open"
  /\ S!Init /\ sDgm = "l"

\* What a socket call of one proxy leaves alone.
CStep == C!Proxy /\ UNCHANGED sVars
SStep == S!Proxy /\ UNCHANGED cVars

-----------------------------------------------------------------------------
(* The connection in the middle.                                           *)

MidOpen == cConn["r"] = "open" /\ sConn["l"] = "open"

\* The octets C has sent move on to S, and those of S to C.
CToS ==
  /\ MidOpen /\ sProc = "running" /\ cOut["r"] # <<>> /\ Len(sIn["l"]) < RcvBuf
  /\ cOut' = [cOut EXCEPT !["r"] = Tail(@)]
  /\ cGot' = [cGot EXCEPT !["r"] = Append(@, Head(cOut["r"]))]
  /\ sIn' = [sIn EXCEPT !["l"] = Append(@, Head(cOut["r"]))]
  /\ sSent' = [sSent EXCEPT !["l"] = @ \o Payload(<<Head(cOut["r"])>>)]
  /\ UNCHANGED <<cConn, cIn, cEof, cShut, cSent, cProgram>>
  /\ UNCHANGED <<sConn, sEof, sOut, sShut, sGot, sProgram>>

SToC ==
  /\ MidOpen /\ cProc = "running" /\ sOut["l"] # <<>> /\ Len(cIn["r"]) < RcvBuf
  /\ sOut' = [sOut EXCEPT !["l"] = Tail(@)]
  /\ sGot' = [sGot EXCEPT !["l"] = Append(@, Head(sOut["l"]))]
  /\ cIn' = [cIn EXCEPT !["r"] = Append(@, Head(sOut["l"]))]
  /\ cSent' = [cSent EXCEPT !["r"] = @ \o Payload(<<Head(sOut["l"])>>)]
  /\ UNCHANGED <<sConn, sIn, sEof, sShut, sSent, sProgram>>
  /\ UNCHANGED <<cConn, cEof, cOut, cShut, cGot, cProgram>>

\* FIN follows the octets, after shutdown() or because the process has ended.
CEnds ==
  /\ MidOpen /\ sProc = "running" /\ cOut["r"] = <<>>
  /\ "r" \in cShut \/ cProc # "running"
  /\ S!HostCloses("l")
  /\ UNCHANGED <<cVars, sProgram>>

SEnds ==
  /\ MidOpen /\ cProc = "running" /\ sOut["l"] = <<>>
  /\ "l" \in sShut \/ sProc # "running"
  /\ C!HostCloses("r")
  /\ UNCHANGED <<sVars, cProgram>>

\* A reset reaches the other end; a process that has ended answers octets
\* with one.
CLoses ==
  /\ cConn["r"] = "open"
  /\ sConn["l"] # "open" \/ (sProc # "running" /\ cOut["r"] # <<>>)
  /\ C!ConnectionLost("r")
  /\ UNCHANGED <<sVars, cProgram>>

SLoses ==
  /\ sConn["l"] = "open"
  /\ cConn["r"] # "open" \/ (cProc # "running" /\ sOut["l"] # <<>>)
  /\ S!ConnectionLost("l")
  /\ UNCHANGED <<cVars, sProgram>>

Network == CToS \/ SToC \/ CEnds \/ SEnds \/ CLoses \/ SLoses

-----------------------------------------------------------------------------
(* The hosts.                                                              *)

HostA ==
  /\ cProc = "running"
  /\ C!HostSends("l") \/ C!HostCloses("l")
  /\ UNCHANGED <<sVars, cProgram>>

HostB ==
  /\ sProc = "running"
  /\ S!HostSends("r") \/ S!HostCloses("r")
  /\ UNCHANGED <<cVars, sProgram>>

\* What is delivered to them.
HostAReads == C!HostReads("l") /\ UNCHANGED <<sVars, cProgram>>
HostBReads == (S!Connected("r") \/ S!HostReads("r")) /\ UNCHANGED <<cVars, sProgram>>

\* The network goes on, and the hosts accept the connection and read.
Delivers == Network \/ HostAReads \/ HostBReads

Failures == \E s \in Sides : C!Failed(s) \/ S!Failed(s)

Faults ==
  /\ ~Failures
  /\ \/ /\ \/ "A" \in Fallible /\ C!ConnectionLost("l")
           \/ "mid" \in Fallible /\ C!ConnectionLost("r")
        /\ UNCHANGED <<sVars, cProgram>>
     \/ /\ "B" \in Fallible
        /\ S!Refused("r") \/ S!ConnectionLost("r")
        /\ UNCHANGED <<cVars, sProgram>>

Terminated ==
  /\ cProc # "running" /\ sProc # "running"
  /\ UNCHANGED vars

Next ==
  \/ CStep \/ SStep \/ Delivers
  \/ HostA \/ HostB
  \/ Faults \/ Terminated

Spec == Init /\ [][Next]_vars

\* Both programs are scheduled, and what was sent is delivered sooner or later.
\* Nobody has to send, and nobody has to close.
Fairness == WF_vars(CStep) /\ WF_vars(SStep) /\ WF_vars(Delivers)

FairSpec == Spec /\ Fairness

-----------------------------------------------------------------------------
\* What is between the hosts, from the one that sends to the one that reads:
\* in host order of the two programs, with the frames taken off.
WayToB ==
  S!Passed("r") \o sPending["r"] \o S!Received("l") \o Payload(cOut["r"] \o cPend)
    \o cPending["r"] \o cIn["l"]

WayToA ==
  C!Passed("l") \o cPending["l"] \o C!Received("r") \o Payload(sOut["l"] \o sPend)
    \o sPending["l"] \o sIn["r"]

\* Through two programs, framed and unframed again, each host gets what the
\* other has sent, in order: always a beginning of it, and as long as nothing
\* has failed all of it is accounted for, and a FIN to a host says that the
\* other has closed and everything has been passed on.  A program that reports
\* a graceful end has passed on everything the other one has framed, also if
\* that one has ended because its host failed: a FIN within a datagram is no
\* end of the stream.
EndToEnd ==
  /\ IsPrefix(S!Passed("r"), cSent["l"]) /\ IsPrefix(C!Passed("l"), sSent["r"])
  /\ ~Failures =>
       /\ WayToB = cSent["l"] /\ WayToA = sSent["r"]
       /\ "r" \in sShut => "l" \in cEof /\ S!Passed("r") = cSent["l"]
       /\ "l" \in cShut => "r" \in sEof /\ C!Passed("l") = sSent["r"]
  /\ sReports = <<"graceful">> => S!Passed("r") = C!Passed("r")
  /\ cReports = <<"graceful">> => C!Passed("l") = S!Passed("l")

\* The three that follow say that a state is reached again and again.  No FIN, no
\* report, no end of a process and no failure is ever taken back, so the last
\* two could as well be stated with leads-to.

\* Every octet reaches the other host.
EverythingArrives ==
  []<>(\/ Failures
       \/ Len(sGot["r"]) = Len(cSent["l"]) /\ Len(cGot["l"]) = Len(sSent["r"]))

Graceful == cReports = <<"graceful">> /\ sReports = <<"graceful">>

\* When both hosts have closed, both programs end and say that all is well.
ShutdownFollows ==
  []<>("l" \in cEof /\ "r" \in sEof =>
         (cProc = "exited" /\ sProc = "exited" /\ Graceful) \/ Failures)

\* The end of one program, for whatever reason, ends the other: at once if a
\* frame was cut, otherwise when the other one's host has closed as well.  No
\* program waits for one that is gone.
EndSpreads ==
  []<>(/\ cProc = "exited" /\ ("r" \in sEof \/ cPend # <<>>) => sProc = "exited"
       /\ sProc = "exited" /\ ("l" \in cEof \/ sPend # <<>>) => cProc = "exited")

=============================================================================
