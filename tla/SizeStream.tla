----------------------------- MODULE SizeStream -----------------------------
(***************************************************************************)
(* The use io_serialize.h is made for: sizes stored one after the other,   *)
(* sent over a stream that delivers them in arbitrary pieces, and parsed   *)
(* out of whatever has arrived, as process_rx() of io_pipe_dgm.c does with *)
(* its headers.  The payloads between the headers are left out.            *)
(***************************************************************************)
EXTENDS IoSerialize, IoPipe

CONSTANTS
  Sizes,    \* the values to be stored
  MaxSizes  \* bound: how many of them

ASSUME SizesAssumption == Sizes \subseteq Nat /\ MaxSizes \in Nat

VARIABLES
  given,  \* history: the sizes that io_store_size() was given
  wire,   \* octets sent and not received
  rx,     \* octets received and not parsed
  taken,  \* history: the sizes that io_parse_size() has returned
  failed  \* io_store_size() or io_parse_size() has returned -1

vars == <<given, wire, rx, taken, failed>>

Init ==
  /\ given = <<>> /\ wire = <<>> /\ rx = <<>> /\ taken = <<>>
  /\ failed = {}

Store(val) ==
  /\ failed = {} /\ Len(given) < MaxSizes
  /\ IF SpaceFor(val) = Fails
       THEN failed' = {"store"} /\ UNCHANGED <<given, wire>>
       ELSE given' = Append(given, val) /\ wire' = wire \o Stored(val) /\ UNCHANGED failed
  /\ UNCHANGED <<rx, taken>>

Receive ==
  /\ failed # {"parse"}
  /\ \E n \in 1..Len(wire) :
       /\ rx' = rx \o Taken(wire, n)
       /\ wire' = Rest(wire, n)
  /\ UNCHANGED <<given, taken, failed>>

Parse ==
  /\ failed # {"parse"} /\ Parsed(rx).used # 0
  /\ IF Parsed(rx).used = Fails
       THEN failed' = {"parse"} /\ UNCHANGED <<rx, taken>>
       ELSE /\ taken' = Append(taken, Parsed(rx).val)
            /\ rx' = Rest(rx, Parsed(rx).used)
            /\ UNCHANGED failed
  /\ UNCHANGED <<given, wire>>

Terminated ==
  /\ failed # {} \/ Len(taken) = MaxSizes
  /\ UNCHANGED vars

Next == (\E val \in Sizes : Store(val)) \/ Receive \/ Parse \/ Terminated

Spec == Init /\ [][Next]_vars

-----------------------------------------------------------------------------
\* What was parsed is what was stored, wherever the stream was cut into
\* pieces; and when parse() says that it ran out of data, everything that has
\* fully arrived was parsed already (io_parse_size).
SizesArrive ==
  /\ IsPrefix(taken, given)
  /\ wire = <<>> /\ failed = {} /\ Parsed(rx).used = 0 => taken = given /\ rx = <<>>

\* "-1 is 'buf' contains invalid data" (io_serialize.h): parse() never says so
\* of what store() has written, complete or cut short.
NeverMalformed == "parse" \notin failed

\* "If 'buf' is NULL, store() returns space required" (io_serialize.h).
SpaceIsExact == \A i \in 1..Len(given) : SpaceForNull(given[i]) = Len(Stored(given[i]))

=============================================================================
