# tcp-striper in TLA+

Specifications of tcp-striper: its TCP relay (`tcp-relay`), its proxy with
datagram framing (`tcp-proxy`), alone and in a chain of two, its datagram pipes
with users of any kind, and the components all of this is built from. TLC
checks them on small instances; TLAPS proves the safety properties of the relay,
of the proxy, of two proxies in a chain, of the datagram pipes, of the event loop, of
the map and of the size encoding for every value of the constants, and that relay and
proxy implement a pair of reliable streams.

Paths are relative to the repository; `io/`, `evl/`, `data/`, `core/`, `sys/`
are directories of `src/src/`.

## The system

Both programs accept one TCP connection, open a second one and join the two
with an `io_bridge`. Everything runs in one thread: `main()` calls
`evl->monitor()` until the bridge reports that it is down.

    far host -- socket -- tcp_pipe ----\
                                        io_bridge      driven by event_loop
    far host -- socket -- tcp_pipe ----/                (select)

`tcp-proxy` puts a `dgm_pipe` over an `atx_pipe` over the `tcp_pipe` on the side
of the other proxy, so that side carries datagrams behind their sizes. Two
proxies, a client and a server, make the chain the readme describes:

    host A -- tcp-proxy -c == datagrams == tcp-proxy -s -- host B

A socket event goes up by callbacks: event loop, `tcp_pipe`, (`atx_pipe`,
`dgm_pipe`,) bridge. The bridge then calls `recv`, `send` and `send_fin` of both
pipes. These go down to the sockets and come back with new state bits, and the
`tcp_pipe` re-arms its event mask in the loop from those bits.

| component | state | operations | what makes it correct |
| --- | --- | --- | --- |
| `tcp_pipe` (`io/src/io_pipe_tcp.c`) | six state bits, the event mask | callback, `init`, `recv`, `send`, `send_fin`, `discard` | the mask always lets the pipe learn of what it does not know yet; no event for a closed direction |
| `io_bridge` (`io/src/io_bridge.c`) | per stream: octets set aside; `dead` | callback: flush, relay in, relay out, report | streams intact and in order, FIN last, no assertion fires, no stall, back-pressure, one true report |
| `atx_pipe` (`io/src/io_pipe_atx.c`) | octets kept, FIN put off | `recv`, `send`, `send_fin`, `discard`, callback | what was taken goes out whole and in order, then FIN if it was put off; not writable meanwhile |
| `dgm_pipe` (`io/src/io_pipe_dgm.c`) | receive buffer | `recv`, `send`, `send_fin`, `discard`, callback | datagrams of any size arrive as sent wherever the stream was cut; none is stranded; a torn one is an error; an empty one is not FIN |
| event loop (`evl/`) | map of sockets, three fd sets, `nfds`, `map_touched`, undispatched events | add, mod, del, monitor, discard | watches what was asked for; dispatches each reported event, and only those, once, although callbacks change the map |
| map (`data/src/map.c`) | a binary tree of linked items | add, del, find, walk | `find` exact, `walk` ordered |
| size encoding (`io/src/io_serialize.c`) | none | store, parse | parse after store is the identity; cut is told from malformed |
| `tcp-relay.c`, `tcp-proxy.c` | `enough` | set-up, loop, end | both programs are a pair of reliable streams, and so is a chain of two proxies |
| sockets, hosts, network | buffers, connection state | external | none of it is code of the repository |

Not modelled: `io_buffer` (a heap block, here a sequence), `list.h` (unused),
`agg_pipe` (declared, not written), the wrappers of `core/` and `sys/`, address
formatting and terminal settings, the test program, the build files.

What is hard here: the hosts and the network act between any two calls; a
socket call takes a part, refuses for a while or fails; two sockets are reported
by one `select()` and the second is dispatched after the callback of the first
has used both; a pipe that stops watching an event relies on its own bits for
ever; `assert()` is active in every build. `PROJECT.json` lists each such place
under "hazards".

## Modules

| module | models |
| --- | --- |
| `IoPipe` | state bits, events, `pipe_misc.h`; a few operators on sequences |
| `TcpPipe` | `io_pipe_tcp.c`: outcome of a socket call to new bits and mask |
| `Sockets` | external: two connections, their hosts, what the calls may return |
| `IoBridge` | `io_bridge.c`: the callback, cut at its pipe calls |
| `TcpRelay` | `tcp-relay.c`: `Sockets`, two `TcpPipe`s, `IoBridge`, the loop |
| `StreamRelay` | abstract: two FIFO streams with a FIN each, and one report |
| `TcpRelayInv` | the inductive invariant of `TcpRelay` |
| `TcpRelayProofs` | proofs about `TcpRelay` |
| `AtxPipe` | `io_pipe_atx.c` over `TcpPipe` |
| `DgmPipe` | `io_pipe_dgm.c` over `AtxPipe` |
| `TcpProxy` | `tcp-proxy.c`: as `TcpRelay`, with the three pipes on one side |
| `TcpProxyInv` | the inductive invariant of `TcpProxy` |
| `FrameFacts` | lemmas on sequences, frames and headers, for several proofs |
| `TcpProxyProofs` | proofs about `TcpProxy` |
| `ProxyPair` | two instances of `TcpProxy`, the network between them, the two hosts |
| `ProxyPairProofs` | proofs about `ProxyPair`, from those about `TcpProxy` |
| `DgmLink` | two `dgm_pipe`s over one connection, with users that are no bridge |
| `DgmChannel` | abstract: a FIFO of datagrams with a FIN in each direction |
| `DgmLinkInv`, `DgmLinkProofs` | the inductive invariant of `DgmLink`; proofs |
| `EventLoop` | `event_loop_select.c` over the tree of `PtrMap`, with callbacks that call it back |
| `EventLoopProofs` | proofs about `EventLoop` |
| `PtrMap`, `PtrMapProofs` | `map.c`, pointer by pointer; proofs |
| `IoSerialize`, `SizeStream`, `IoSerializeProofs` | `io_serialize.c`; its use on a stream; proofs |
| `MCTcpRelay`, `MCTcpProxy`, `MCProxyPair` | values of function-valued constants for TLC |

Operators named "Mutant" in a comment are plausible bugs of the definition that
follows them; no specification uses them. They show what each property is able
to find.

### How steps correspond to the code

*Relay and proxy.* A step is one of: the return of `select()` (`Select`); the
dispatch of a socket's events up to the start of the bridge's callback
(`Dispatch`); one pass of the bridge over a `recv` and, if it follows, a `send`
or `send_fin` (`RelayNothing`, `RelayFin`, `RelayData`), or over the `send` of
octets set aside (`Flush`); the turn from the first relay loop to the second
(`RelayTurns`); the end of the callback with its report (`Return`); the end of
the process (`Exit`). Between any two of them the hosts and the network may act.
In `RelayData` the `recv` and the `send` are one step, and so are `recv` and
`send_fin` in `RelayFin`: whatever a host or the network does between the two
calls touches one of the two sockets, so it could as well come before the `recv`
(if it is the destination's) or after the second call (if it is the source's), and
the run is one of the model. `cb` is the program counter of the callback, `have` the
events of the last `select()` not yet dispatched.

An octet is a pair of the side it entered at and its position. The program never
looks at one, except where it parses headers; there a header octet is a value of
its own.

*Two proxies.* `ProxyPair` has all variables of two instances of `TcpProxy`, `C` and
`S`. A step is a step of one program (`CStep`, `SStep`), of a host, or of the
network: octets (`CToS`, `SToC`), FIN (`CEnds`, `SEnds`) and resets (`CLoses`,
`SLoses`) that leave one end of the middle connection reach the other, one octet
at a time. The actions by which `TcpProxy` lets "the other proxy" do what it may are
not used: here it is one. As in `TcpProxy`, octets and FIN are delivered only to a
process that runs; one that has ended answers octets with a reset.

*Datagram pipes.* A step of `DgmLink` is one turn of the event loop of an end, up to
the callback of the user (`Activity`, or `Flush` when `atx_pipe` sends what it has
kept), or one call of a user. A user calls `recv()` when its pipe is readable,
`send()` when it is writable, `send_fin()` once at any time, and `discard()` at any
time: all that `io_pipe.h` allows and the bridge does not do. `discard()` closes
the socket: FIN after what the socket has accepted, or a reset if octets are unread.
The histories `finned` (FIN asked for), `ended` (FIN received) and `cut` (`discard()` has
freed octets of a datagram) exist for the properties.

*Failed assertions* end the process (`proc = "aborted"`); `assert` is the
project's own macro (`core/inc/libp/assert.h`) and does not depend on `NDEBUG`.

*Exit.* `main()` returns without discarding the bridge. The kernel closes both
sockets: octets `send()` has accepted still go out, unless unread input makes the
close a reset.

*Event loop.* `EventLoop` extends `PtrMap`: the sockets are the items of its tree,
descriptors (greater than 0) their keys, and every walk follows the pointers that
`map_add()` and `map_del()` have left. A step is one call of the interface; the return of
`select()` with the walk that collects its events; one step of the walk that dispatches
(`PassOver`, `Dispatch`, `WalkEnds`); or the return of a callback. `inCallback`, `dead`,
`touched`, `mi` and `active` are the loop's own variables. The two walks that run within one
step, collecting and recalculating `nfds`, are the set of items they come by (`Visited`) and
whether they end (`Ends`).

A walk that comes to a freed record, or never ends, takes the loop to `pc = "astray"`, after
which nothing is said of it. What malloc() returns is not cleared: `in_callback` and `dead` of a
new loop hold any value, `have` of a new record any of `Garbage`. Three history variables name
what properties then depend on: `clear` (the two flags happened to be zero), `littered` (the sockets
registered since the last `select()` with garbage) and, in `PtrMap`, `spliced` (an item with two
children was removed, finding 3). Once a pointer to a freed record is in the tree no
further socket is registered (`NoneDangles`): whether its record would be at that very address is
for malloc() to say.

*Map.* `l`, `r` and `p` are the pointers, items are their keys, a slot (a
`map_item **`) is the name of the pointer it points to.

*Sizes.* A mask is stated as the bound it tests; values of 2^32 and more are left
out.

## Runs

Safety, unless said otherwise. All runs check deadlock, except those of
`EventLoop`, where a loop nobody calls again just stops.

| run | shows |
| --- | --- |
| `tcp_relay` | `NoAbort`: no assertion of bridge or pipe fires. `StreamIntact`, `FinIsLast`: nothing lost, duplicated or reordered; FIN follows the last octet. `ReportIsTrue`: at most one report, and it is so. `NoLostWakeup`: whatever is left to do when the relay blocks waits for an event that is watched. `NoStaleEvent`: undispatched events are still awaited. `BackPressure`, `QuietAfterShutdown`: action properties. `IndInv`: the invariant the proofs use. `ImplementsStreams`: refinement of `StreamRelay`. `EverythingArrives`, `FinArrives`, `ShutdownFollows`, `FailureIsNoticed`: liveness |
| `tcp_proxy` | `NoAbort`, `StreamIntact` and `ImplementsStreams` for a proxy of either kind; `FramesAreWhole`: the other proxy gets complete frames; `NothingStranded`: as `NoLostWakeup`, of the bits that the bridge sees and the masks below, and also of what the `atx_pipe` keeps and of a complete datagram in the receive buffer |
| `dgm_link` | `ImplementsChannel`: two datagram pipes refine `DgmChannel`, a FIFO of datagrams whose FIN comes last and whose ends break only for a reason (connection lost, datagram cut by `discard()`, or the next datagram is longer than the receiver takes, all before it having been received). `NoAbort`: whatever their users do. `DatagramsArrive`, `FinArrives`: liveness, also of a FIN that was put off |
| `proxy_pair` | `EndToEnd`: each host gets a prefix of what the other has sent; everything is accounted for on its way; FIN to a host comes after everything; a proxy that reports a graceful end has passed on everything the other has framed. `EverythingArrives`, `ShutdownFollows`, `EndSpreads`: liveness of the chain, the last also when a host fails |
| `event_loop` | `WatchedAsAsked`: the fd sets and `nfds` are those asked for. `OnlyReported`, `NothingLeftBehind`: each reported event is dispatched, once and to its registration, and nothing else. `NeverAstray`: no walk reads a freed record or runs for ever. `NoAbort`; `MonitorReturns` (liveness). All but the fd sets: until a socket with two children is removed |
| `ptr_map` | `FindIsExact`; `WalkIsOrderedUntilSpliced`: the walk is right until an item with two children was removed |
| `size_stream` | `SizesArrive`, `NeverMalformed`: sizes in arbitrary pieces are parsed back |
| `tcp_relay_sigpipe`, `dgm_link_fin_sent`, `ptr_map_walk`, `event_loop_uninit`, `size_space` | violations, see Findings |

### Bounds

| run | bounds | why they are enough |
| --- | --- | --- |
| `tcp_relay` | three octets one way, one the other; receive buffers 2, send buffers 1, `recv_size` 2 | a received chunk is cut by `send()`; its rest congests the side again while it is flushed; data in both directions; FIN at any moment |
| `tcp_proxy` | two octets each way, datagrams up to 2; a header has 2 octets for size 2, else 1; receive buffer 3, send buffer 1 | headers are cut in the middle; one `recv` brings the end of a datagram and the whole next one; a frame takes up to four sends; two frames in a row; a complete datagram waits in the receive buffer while the plain side is congested |
| `dgm_link` | two datagrams of 0, 1 or 2 octets by either user, limit 1 (so 2 is too long); headers of 2 octets but for the empty one; two octets in flight each way | a frame takes up to two sends and is cut everywhere; FIN and `discard()` find octets pending; an empty datagram before and after a full one; one end breaks while the other sends |
| `proxy_pair` | an octet each way, in a frame of 2 octets; FIN both ways; all buffers 1; the connection of A or of B may fail, once, also by refusal | half of a frame is in one proxy and half in the other; octets and FINs cross; a program whose host has failed ends with half a frame sent, or with octets unread. A failure of the middle connection is left to `tcp_proxy`; it was tried here once (`"mid"` in `Fallible`, 492,510 states) and passes, but takes twice the time |
| `event_loop` | three sockets with a gap in their descriptors, masks r and w | a callback can remove a socket already walked, its own, and one still ahead, and add one on either side; a socket can have two children. New records are zeroed in this run. With two sockets and garbage (three values of `have`) `TypeOK`, `LoopInv` (the invariant of the proofs), `OnlyReported` and `MonitorReturns` were tried once, 8,911 states, and hold; with three the state space is too large. `LoopInv` and `TypeOK` were tried with the constants of this run as well |
| `ptr_map` | six items, any order of additions and removals | an item with two children whose left subtree has a right chain, on either side of its parent |
| `size_stream` | sizes at and next to each boundary, three in a row | a size may be cut anywhere with one before and one after it |

`SpuriousAgain` lets a call that could proceed fail with `EAGAIN` or `ENOMEM`,
which the code treats as a reason to wait. `ErrorEvents` has `select()` report a
failed socket as `SK_EV_error` (Windows, per `event_loop.h`), and a refused one
not as "writable", as Linux does. In `tcp_proxy` both are TRUE, and there the bridge and
the TCP pipe are those of the relay. The runs with liveness have `SpuriousAgain` FALSE: a
call that fails without reason for ever would stall any program. They have `ErrorEvents`
FALSE too, so there a failure raises no event at a pipe that watches nothing; `FailureIsNoticed` was tried once
on `tcp_relay` with `ErrorEvents` and `SigPipeIgnored` TRUE (38,436 states) and passes. The
theorems hold for either value.

### Fairness

- `tcp_relay`: weak fairness of the program as a whole (`Relay`: the process is
  scheduled; within it the order is the code's), of the answer to `connect()`, and of
  each host reading what has arrived.
- `dgm_link`: weak fairness of each end's program: its loop turns, and its user
  receives what is readable. Nobody has to send, finish or discard.
- `proxy_pair`: weak fairness of each program and of delivery (network, accepting, hosts
  reading).
- `event_loop`: weak fairness of `Return` (a callback that has started returns)
  and of `Dispatching` (`monitor()` goes on with its walk). No call of the interface has to be made.

Nothing is assumed of hosts or users sending or closing. All but the properties
about failures hold "unless a connection fails".

## Findings

Each is a run that TLC ends with a counterexample.

1. `dgm_link_fin_sent`: when `send_fin()` has to wait for pending octets it returns
   0, and once the FIN goes out (`io_pipe_atx.c:171-178`) no event may be left: then
   no callback is made, IO_EV_fin_sent is never raised, and the datagram pipe does
   not copy the bit `fin_sent` until some other event comes. `io_pipe.h:68-73` says that
   `send_fin()` returns -1 and that the callback comes "once the FIN does go out".
2. `tcp_relay_sigpipe`: `signal(SIGPIPE, SIG_IGN)` is commented out in
   `tcp-relay.c:44`, so `send()` after a reset ends the process, where
   `io_pipe.h:90` promises -1.
3. `ptr_map_walk`: `map_del()` (`map.c:85`) sets `item->p`, of the item being
   removed, where the parent of its right child `r` was meant. The left child that moves up
   takes the same `item->p` for its parent (`:88`): if it has no right child of its own, it becomes
   its own parent. Later walks go through the removed item, which its owner has freed, or climb for
   ever. In the event loop: add 4, 3 and 6, remove 4 and then 6, and the walk for the new `nfds`
   (`event_loop_select.c:205`) stands on 3, whose parent is 3, and never ends; the walks of `monitor()`
   can hang in the same way. `EventLoop` calls this "astray". Neither program keeps more than two
   sockets, and it takes three.
4. `event_loop_uninit`: `alloc_select_sk()` (`event_loop_select.c:80`) leaves `have`
   as `malloc()` returned it. A socket added from a callback is walked in the same
   round, with events nobody reported. `in_callback` and `dead` of the loop itself are not
   initialised either (`:354`), so a first `monitor()` or `discard()` may fail its assertion though
   nobody has recursed or discarded twice; `NoAbort` is about loops where they happen to be zero.
5. `size_space`: `io_store_size(NULL)` (`io_serialize.c:92`) has the mask 0x3F10 for
   0x3F80, so 16 is said to need two octets and 128 one. No caller passes NULL.

Seen while modelling, with no run of their own:

- `tcp_pipe_on_activity()` (`io_pipe_tcp.c:88`) looks at `SK_EV_error` only while
  connecting. A ready pipe ignores it and calls back with no event, again and again,
  until a later call on the socket fails. Linux does not report such events.
- A host that fails at one end of a chain of proxies is seen at the other end as an
  ordinary FIN: the proxy exits, the kernel closes the middle connection, and unless
  a frame is cut the other proxy passes FIN on and reports a graceful end, although
  octets set aside in the first bridge were lost.
- `want_fin` is not cleared when the FIN goes out; with `fin_sent` set by then nothing
  looks at it again.
- `io_parse_size()` calls four octets with their top bit set malformed rather than
  incomplete (line 134), though a fifth would be accepted.
- A datagram of size zero, which `DgmLink` shows to be sound between users that look at
  `fin_rcvd`, would fail an assertion of the bridge; no proxy sends one.
- When `dgm_pipe` finds the stream malformed only its own bits say broken, and the
  next event of the pipe below clears that again.
- `get_pipe_state()` shifts by the wrong operand; `io_bridge` never frees itself.

The first needs Windows; of the others only the second changes what the two programs do.

## Proofs

`tlapm` checks every leaf. Assumptions are the named `ASSUME`s on the constants:
buffer and receive sizes are positive naturals, streams are of any finite
length, the Boolean constants have either value. They hold for every one.

*The relay.* `NoAbort`, `NoLostWakeup` and `StreamIntact` are not inductive: they
speak of moments, and what keeps them true is what happens in between.
`TcpRelayInv` states why:

- `FlagsInv`, `MaskInv`: the bits are consistent and the mask is a function of them.
- `EventsInv`: an undispatched event of one pipe stays valid during the callback of
  the other, because that callback receives and sends only where this pipe is not
  waiting for the same event.
- `StageInv`, `PendingInv`, `AwakeInv`: what the stage of the callback implies; a
  pipe with octets set aside is congested until its own callback flushes them; a
  stream that could be relayed right away is one the running callback will get to.
- `BrokenInv`, `FinInv`: a pipe is broken only on the way to the report; FIN is
  received after the last octet and forwarded at once.
- `StreamIntact`, `FinIsLast`, `ReportIsTrue` join them: `InvariantHolds` states the
  whole.

`TcpRelayProofs` proves type correctness, then `ControlInv`, then the stream
properties, each with one step per action; `FrameFacts` holds the lemmas on
taking, dropping and joining sequences (it declares the constants of `DgmPipe` for what
it says of frames; no proof about the relay or the sizes uses them). `TcpRelayProofs` then adds the report and
maps every step to a step of `StreamRelay` or a stutter: `RelayImplementsStreams`
states the refinement for all behaviours. Two action properties follow from the same
invariant. `DeadBridgeIsQuiet`: with the bridge dead its callback does not run
(`StageInv`), so what steps are left are dispatches that end at once, the exit, and
the hosts. `BackPressureHolds`: a step that receives for a stream finds nothing of
it set aside (`PendingInv`).

*The proxy.* `TcpProxyInv` is the same invariant, stated of the bits of the
`tcp_pipe`s, and what framing adds to it:

- `LinkInv`: the bits the bridge sees follow from those below and from what the
  `atx_pipe` keeps; it keeps octets only while its pipe is congested and open. The
  bridge asks for FIN only when there is room, so there `want_fin` is never used.
- `LeftOverInv`: a complete datagram stays in the receive buffer only while the bit
  readable is up, so the bridge comes back for it without an event.
- `InStepInv`: the receive buffer, the octets on their way and those the other proxy
  has yet to send are in step with their headers. It makes a received datagram
  non-empty and never malformed, which the assertions of the bridge need, so
  `ControlInv` is proved inductive relative to it.
- `FramesAreWhole`, `StreamIntact`: what goes out and what is kept are whole frames, and
  unframed streams are intact. Each step moves octets between three parts of
  a stream: passed on, set aside, not yet received.
- `TodoInv`: what is missing of a datagram cannot begin one. So a FIN that the pipe
  takes for the end of the stream does not hide a datagram that was cut off.

`FrameFacts` holds what the proofs need of `Payload`, `WellFramed`, `InStep` and
`ProcessRx`. `Payload` is a recursive function, and what it yields is proved without
an induction theorem: the set of the lengths for which a property holds contains 0
and is closed under successor (`NatBySteps`). `TcpProxyProofs` proves types, control and streams,
one lemma per action, and then maps every step to one of `StreamRelay`:
`ProxyImplementsStreams`. A datagram that was cut off counts as a lost connection
there, so the theorem also says that the proxy never reports a graceful end after one.

What a relay promises of the end of a stream is proved of the abstract one
(`StreamsEndProperly`: two conditions on finite streams, inductive as they stand) and holds
of the proxy by the refinement: `ReportsAreTrue`. Two more invariants say what a second
proxy needs to know of the first. `WireInv`: what was sent, with what the `atx_pipe` keeps,
are datagrams another proxy accepts, and while anything is kept the stream is cut inside
a frame, at no boundary of one (`FramesAreFinished`; that the frames are not too long needs
`recv_size` within `max_size`, and the program gives both the same value). `EndInv`: the process
ends only after the report, and with an empty receive buffer if that is graceful
(`NothingIsLeftBehind`).

*Two proxies.* `ProxyPairProofs` proves `EndToEnd` by composition; nothing of the inside of a
proxy is proved twice. `Client` and `Server` are instances of `TcpProxyProofs`, each with the
variables of one program. `TcpProxy` has one variable more than the program, `todo`: what the
other proxy has yet to send of a datagram. Here it is defined by the other program, as
the octets on their way up to the first place where everything before is in step with
its headers (`RestOf`, in `FrameFacts`: it exists because all that is on its way ends at such a
place, by `WireInv` of the sender; it loses its first octet when that is delivered, begins
with a frame when it was empty, and does not notice what is added behind). With it:

- `PairSteps`: every step of the pair is a step of `Client!Next` or changes nothing of
  it, and likewise of `Server!Next`. A step of one program sleeps through in the other
  (`ClientSleeps`); an octet that is delivered is `HostReads` to the one and `PeerSends` to the
  other. That is the assumption `TcpProxy` makes about the other proxy (it sends
  whole datagrams of its stream, none too long, and FIN last), met by the other program:
  `FramesAreWhole` and `WireInv` of the sender give it, so the two invariants hold together or not
  at all, and `PairInv` joins them.
- `MidInv`: what a program has received is what the other has got rid of, and FIN follows the
  last octet and a `shutdown()` or an exit.
- `PairInvariantHolds`, and from it `ClientIsAProxy` and `ServerIsAProxy`: every behaviour of the
  pair is one of `TcpProxy`, for each program. All theorems of `TcpProxyProofs` follow for both.
- `NoAlarmIsFalse`: while no connection has failed, no program says that one has. A program
  that has ended without failure has shut both streams down and keeps nothing
  (`ClientIsDone`), so the end of its stream is no cut datagram to the other one.
- `StreamsArriveEndToEnd`: the prefixes by transitivity; that nothing is missing by adding up
  the accounts of both programs (`AllAccounted`); FIN by two `ReportsInv` in a row; that a
  graceful end has passed on everything the other program has framed, even if that one has
  failed, because octets that it still kept would leave a datagram cut (`WireInv`).

The constants are arbitrary, with `RecvSize = MaxDgm`, and either program's host or any
connection may fail at any time (`Fallible` is any set).

*Datagram pipes.* `DgmLinkInv` is about pipes whose users do what they like:

- `BitsInv`, `UserInv`: the mask is a function of the bits of the `tcp_pipe`; what a
  user sees is those bits as `atx_pipe` changes them, except for `fin_sent`, which it
  may learn late (finding 1). So the invariant leaves that bit open, and no assertion
  depends on it.
- `FinInv`: octets are kept only while the `tcp_pipe` is congested and has sent no FIN;
  a FIN goes out behind all of them, and because its user, or `discard()`, asked for it.
- `DeliveryInv`: what a user has received is a prefix of what the other has sent.
- `OctetsInv`: the octets in the receive buffer and on the wire, together with what they
  still lack (`Missing`), are the frames of the datagrams not received yet. Unless
  `discard()` has cut the stream off, `Missing` is what the `atx_pipe` of the sender keeps;
  in any case it is less than the frame of the last datagram, so what lacks octets is
  never taken for complete, nor is the end of a torn stream taken for FIN.

`NoAbort` follows from the first three alone. `PipesImplementChannel` needs all: a `recv()`
that yields a datagram is `Receive` of the next one in the channel (`RecvTells`, from
`OctetsInv` and what `ProcessRx` does to frames), one that yields FIN finds nothing left,
and one that breaks the pipe has met a lost connection, a cut stream or a
datagram that is too long. Constants are arbitrary, with `recv_size` at
least `MaxDgm`: `process_rx()` compares the size of a datagram with `max_size` only, so
a user has to pass that much room, and the program passes as much. `IndInv` was checked by TLC
on three instances (up to 266,344 states) before it was proved; it is in no
configuration here.

*The event loop.* Nothing is assumed of the heap; where the code depends on it, the property
says so. `LoopUsesMap`: every step of the loop is a step of `PtrMap` or leaves the map alone, so
the theorems of `PtrMapProofs` hold of its sockets. From them, until a socket with two children
is removed (`WalkInv`), a walk from any socket leads to the next greater one (`WalksWell`),
`WalkFails` is never so, and a walk within one step comes by all sockets (`WalkComesBy`). On this:

- `SocketsAreWatched`: the fd sets at all times, `nfds` until the map is damaged.
- `InvariantHolds`, of `LoopInv`: sockets with undispatched events are ahead of the walk, which
  stands on a socket that is still registered, or the walk is about to start again (`AheadInv`);
  the count of callbacks to go is never too small (`CountInv`); no socket holds events
  of another registration (`ReportedInv`); the two flags say where `monitor()` is (`PhaseInv`).
- `NoAssertFails`, `NoEventIsLeft`, `NoWalkGoesAstray`, `OnlyReportedIsDispatched` follow.

What they rest on: `AheadInv`, `CountInv` and `ReportedInv` on the map being sound (`~spliced`), which
the two programs never damage, as they keep at most two sockets; `PhaseInv` and `NoAbort` on flags that
happened to be zero (`clear`), which nothing in the code brings about; `CountInv` on nobody having
registered a socket with garbage since the last `select()`, and `ReportedInv` leaves such sockets
out. Findings 3 and 4 show these conditions to be needed. `AheadInv`, and that no walk goes
astray, need neither of the last two.

*Sizes.* `SizeRoundTrip`: for every size below 2^28, whatever follows it in the
buffer, parsing what was stored gives it back. `CutSizeIsIncomplete`: every proper
beginning of it is reported as incomplete. The first argument is arithmetic on
the digits of base 128, the second that no octet but the last has its top bit clear.
`StreamOfSizesArrives` and `NothingIsMalformed` state it of any number of sizes in a row.
The invariant says that the octets on their way can be divided into the sizes not
yet parsed (`Laid`: a function that gives where each ends); `Store` adds an end,
`Parse` takes the first one off, `Receive` changes none. To give the ends, rather than to
define the octets by recursion over the sizes, needs no induction.

*The map.* No variable of `map.c` says that the items are a search tree. The invariant does
(`MapInv`): there is a `T` that gives the items below each item, itself included, such that
each pointer leads to the items that belong on its side (`Tree`). `T` is no more than a
witness: each step is shown to have a next one.

- `Inserted`: the new item joins `T[x]` of every `x` the search has passed (`On`).
- `Removed`: an item with at most one child leaves all of them, and the child takes its place.
- `Spliced`: with two children, the right one is hung below the greatest item of the left one
  (`Hooked`), which adds its items to those below each item on the way there.

`map_find()` and the loops of `map_del()` and `map_walk()` are functions of the number of turns. They
are unfolded once (`Iterates`: where a pointer leads in n steps, by `NatBySteps`), and each has
an invariant of its own. For the search that is `Passed`: the key, if it is there, is below
the slot reached; every item above it was passed; and what is below the slot has at most as many items
as there are turns left, so the loop ends at the item or at an empty slot (`Turn`).
`FindsWhatIsThere` follows, after any removals.

The walk also needs the pointers to the parents, which hold until the first
item with two children is removed (`ParentsHold`; finding 3 is about what comes then). What lies below
an item is an interval of all items (`Interval`), so the next one is the least on the right or,
if there is none, the first that the climb reaches from the left (`ClimbFacts`):
`WalksInOrder`. `Keys` is any finite set of positive naturals.

Only model-checked: liveness, which is out of the prover's reach. Every invariant and
every safety property of the passing runs is stated by a theorem.

## What the models leave out

- Set-up: `listen`, `accept`, the start of `connect`, `br->init()`; the models begin when
  that has returned. `io_bridge.discard()`: the two programs never call it.
- Counters and printing.
- Allocation failure: a loop drops the socket it was to add without a word, the pipes assert or
  crash. Memory as such:
  that `discard()` may be called from within a callback rests on tail calls, which a
  step of `DgmLink` takes for granted.
- `recv()` with less room than the datagram limit; both programs use 512 KB for both.
- The length of a header is abstracted to one or two octets, and its value to the
  number it stands for; `SizeStream` covers the encoding. `dgm_pipe_send()` of 2^28
  octets or more, which has no header, is left out.
- The tick of 100 ms of `monitor()` and a `select()` that fails: neither changes anything.
- `evl/src.windows` differs from `evl/src.linux` in one include; `EventLoop` stands for both.
- `DgmLink` lets the loop of an end report one socket, as it has only one.

## Plan

An abstract chain: `ProxyPair` as two `StreamRelay`s in a row.
