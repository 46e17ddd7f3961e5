----------------------------- MODULE EventLoop ------------------------------
(***************************************************************************)
(* event_loop_select.c: the select() loop, its sets of descriptors, and    *)
(* what the callbacks it dispatches may do to it: add, modify and remove   *)
(* sockets, their own and others', and discard the loop.                   *)
(*                                                                         *)
(* The sockets are kept in the tree of PtrMap, of which this module is an  *)
(* extension: Keys are the descriptors, items those that are registered.   *)
(* A step is one call of the loop's interface, or, inside monitor(), the   *)
(* return of select() with the walk that collects its events, one step of  *)
(* the walk that dispatches them, or the return of a callback.             *)
(***************************************************************************)
EXTENDS PtrMap

CONSTANTS
  Masks,   \* bound: the event masks that callers ask for
  Garbage  \* what the memory for select_sk.have may hold when malloc() returns it

RW == {"readable", "writable"}
SkEvent == RW \cup {"error"}

ASSUME LoopAssumption == Masks \subseteq SUBSET RW /\ Garbage \subseteq SUBSET SkEvent

VARIABLES
  events,    \* select_sk.events: what is to be watched
  have,      \* select_sk.have: what select() reported and is not dispatched
  fds,       \* evl.fds_r, fds_w and fds_x: a set of descriptors per event
  nfds,
  touched,   \* evl.map_touched
  inCallback,
  dead,
  pc,        \* where monitor() is
  mi,        \* its position in the walk that dispatches
  active,    \* its count of callbacks to go
  clear,     \* history: in_callback and dead were zero in the new loop
  reported,  \* history: what select() has reported and no callback has got yet
  littered   \* history: the sockets registered since then with garbage in `have'

loopVars == <<events, have, fds, nfds, touched, inCallback, dead, pc, mi, active, clear, reported,
              littered>>
vars == <<mapVars, loopVars>>

\* "closing" is a callback that has called discard(), "freed" the end; "leaked"
\* the end of a loop that was taken to be in a callback; "astray" a walk over
\* the sockets that never ends or has read a record that was freed, after
\* which anything may happen.
Control == {"idle", "dispatch", "callback", "closing", "freed", "leaked", "astray", "aborted"}

TypeOK ==
  /\ items \subseteq Keys /\ spliced \in BOOLEAN
  /\ events \in [Keys -> SUBSET RW]
  /\ have \in [Keys -> SUBSET SkEvent]
  /\ fds \in [SkEvent -> SUBSET Keys]
  /\ nfds \in Nat /\ active \in Nat
  /\ touched \in BOOLEAN /\ inCallback \in BOOLEAN /\ dead \in BOOLEAN
  /\ pc \in Control
  /\ mi \in Pointer
  /\ clear \in BOOLEAN /\ littered \subseteq Keys
  /\ reported \in [Keys -> SUBSET SkEvent]

\* new_event_loop_select() leaves in_callback and dead as they are.
Init ==
  /\ MapInit
  /\ events = [s \in Keys |-> {}]
  /\ have = [s \in Keys |-> {}]
  /\ fds = [e \in SkEvent |-> {}]
  /\ nfds = 0
  /\ touched = FALSE
  /\ inCallback \in BOOLEAN /\ dead \in BOOLEAN
  /\ clear = (~inCallback /\ ~dead)
  /\ pc = "idle" /\ mi = Null /\ active = 0
  /\ reported = [s \in Keys |-> {}] /\ littered = {}

-----------------------------------------------------------------------------
(* Walks over the sockets.                                                 *)

\* The climb of map_walk() does not stop at x.
GoesOn(x) == p[x] # Null /\ l[p[x]] # x

\* Where it looks at a parent pointer on its way up from `now'.
Climbed(now) ==
  LET closed == {S \in SUBSET Keys : now \in S /\ \A x \in S : GoesOn(x) => p[x] \in S}
  IN {x \in Keys : \A S \in closed : x \in S}

\* map_walk() comes to a record that was freed, or climbs for ever.
WalkFails(now) ==
  LET way == Climbed(now)
  IN /\ now # Null /\ r[now] = Null
     /\ ~(way \subseteq items) \/ \A x \in way : GoesOn(x)

\* What a walk comes by, its start included, if it is left at `last'.
Visited(last) ==
  LET closed == {S \in SUBSET Pointer : Null \in S /\ \A x \in S \ {last} : Walk(x) \in S}
  IN {x \in Pointer : \A S \in closed : x \in S}

\* It is left there, or it gets to its end.
Ends(last) ==
  LET way == Visited(last)
  IN /\ \A x \in way \ {last} : ~WalkFails(x)
     /\ last \in way \/ \E x \in way : Walk(x) = Null

-----------------------------------------------------------------------------
(* The interface, used between calls of monitor() and from callbacks.      *)

Callable == pc \in {"idle", "callback", "closing"}

\* Bound: no socket is registered while an item has a pointer to a freed
\* record (finding 3 of the README): whether the new record would be at that
\* address is for malloc() to say.
NoneDangles == \A s \in items : p[s] \in items \cup {Null}

Register(s, ev, found) ==
  /\ Callable /\ NoneDangles
  /\ Add(s)
  /\ events' = [events EXCEPT ![s] = ev]
  /\ have' = [have EXCEPT ![s] = found]
  /\ fds' = [e \in SkEvent |-> IF e \in ev \cup {"error"} THEN fds[e] \cup {s} ELSE fds[e]]
  /\ nfds' = IF s >= nfds THEN s + 1 ELSE nfds
  /\ touched' = TRUE
  /\ UNCHANGED <<inCallback, dead, pc, mi, active, clear, reported>>

\* Mutant: the fields `have' and `events' are mixed up.
AddSocketHaveAsked(s, ev) == Register(s, ev, ev) /\ UNCHANGED littered

AddSocket(s, ev) ==
  \E found \in Garbage :
    /\ Register(s, ev, found)
    /\ littered' = IF found = {} THEN littered ELSE littered \cup {s}

\* Mutant: a bit is cleared for an event that stays wanted.
ModSocketToggle(s, ev) ==
  /\ Callable /\ Found(s)
  /\ fds' = [e \in SkEvent |->
               IF e \in events[s] THEN fds[e] \ {s}
               ELSE IF e \in ev THEN fds[e] \cup {s} ELSE fds[e]]
  /\ events' = [events EXCEPT ![s] = ev]
  /\ UNCHANGED <<mapVars, have, nfds, touched, inCallback, dead, pc, mi, active, clear, reported,
                 littered>>

ModSocket(s, ev) ==
  /\ Callable /\ Found(s)
  /\ fds' = [e \in SkEvent |->
               IF e \in ev \ events[s] THEN fds[e] \cup {s}
               ELSE IF e \in events[s] \ ev THEN fds[e] \ {s} ELSE fds[e]]
  /\ events' = [events EXCEPT ![s] = ev]
  /\ UNCHANGED <<mapVars, have, nfds, touched, inCallback, dead, pc, mi, active, clear, reported,
                 littered>>

\* The largest descriptor of a set plus one, what the first argument of
\* select() has to be.
Above(S) == IF S = {} THEN 0 ELSE (CHOOSE s \in S : \A t \in S : t <= s) + 1

\* Without the socket; what its record held is gone with it.
Unregister(s, cleared) ==
  /\ Callable /\ Del(s)
  /\ fds' = [e \in SkEvent |-> IF e \in cleared THEN fds[e] \ {s} ELSE fds[e]]
  /\ events' = [events EXCEPT ![s] = {}]
  /\ have' = [have EXCEPT ![s] = {}]
  /\ reported' = [reported EXCEPT ![s] = {}]
  /\ touched' = TRUE
  /\ UNCHANGED <<inCallback, dead, mi, active, clear, littered>>

\* "recalculate evl->nfds", by a walk that is left at the next descriptor.
Recalculate(s) ==
  IF nfds # s + 1 THEN UNCHANGED <<nfds, pc>>
  ELSE IF Ends(s - 1)' THEN nfds' = Above(Visited(s - 1)' \ {Null}) /\ UNCHANGED pc
  ELSE pc' = "astray" /\ UNCHANGED nfds

\* Mutant: select() goes on watching a removed socket for errors.
DelSocketWatched(s) == Unregister(s, events[s]) /\ UNCHANGED <<nfds, pc>>

DelSocket(s) == Unregister(s, events[s] \cup {"error"}) /\ Recalculate(s)

\* discard(), which is called once; from a callback it leaves the disposal
\* to monitor().
Discard ==
  /\ pc \in {"idle", "callback"}
  /\ dead' = TRUE
  /\ pc' = IF dead THEN "aborted" ELSE IF ~inCallback THEN "freed"
           ELSE IF pc = "callback" THEN "closing" ELSE "leaked"
  /\ UNCHANGED <<mapVars, events, have, fds, nfds, touched, inCallback, mi, active, clear, reported,
                 littered>>

-----------------------------------------------------------------------------
(* monitor()                                                               *)

\* assert(! evl->in_callback)
Recurse ==
  /\ pc = "idle" /\ inCallback
  /\ pc' = "aborted"
  /\ UNCHANGED <<mapVars, events, have, fds, nfds, touched, inCallback, dead, mi, active, clear,
                 reported, littered>>

\* What select() may report: some events, all of them watched and below nfds.
SelectResults ==
  LET watched == {w \in Keys \X SkEvent : w[1] < nfds /\ w[1] \in fds[w[2]]}
  IN {[s \in Keys |-> {e \in SkEvent : <<s, e>> \in raised}] : raised \in (SUBSET watched) \ {{}}}

\* Up to the start of the walk that dispatches; a timeout changes nothing.
Collect(counted) ==
  LET walked == Visited(-1) \ {Null}
      ends == Ends(-1)
  IN /\ pc = "idle" /\ ~inCallback
     /\ \E rdy \in SelectResults :
          /\ reported' = rdy
          /\ have' = [s \in Keys |-> IF s \in walked THEN rdy[s] ELSE have[s]]
          /\ active' = Cardinality({s \in walked : rdy[s] \cap counted # {}})
     /\ pc' = IF ~ends THEN "astray" ELSE IF active' = 0 THEN "aborted" ELSE "dispatch"
     /\ touched' = FALSE /\ mi' = Null /\ littered' = {}
     /\ UNCHANGED <<mapVars, events, fds, nfds, inCallback, dead, clear>>

\* Mutant: sockets are counted before the third set is looked at.
SelectCountsEarly == Collect(RW)

Select == Collect(SkEvent)

\* map_walk() from a socket to the next.
WalkOn ==
  /\ pc = "dispatch" /\ ~WalkFails(mi)
  /\ mi' = Walk(mi)
  /\ UNCHANGED <<mapVars, events, fds, nfds, touched, dead, active, clear, littered>>

PassOver ==
  /\ WalkOn /\ mi' # Null /\ have[mi'] = {}
  /\ UNCHANGED <<have, pc, inCallback, reported>>

\* The next callback starts.
Dispatch ==
  /\ WalkOn /\ mi' # Null /\ have[mi'] # {}
  /\ have' = [have EXCEPT ![mi'] = {}]
  /\ reported' = [reported EXCEPT ![mi'] = {}]
  /\ pc' = "callback" /\ inCallback' = TRUE

WalkEnds ==
  /\ WalkOn /\ mi' = Null
  /\ pc' = "idle"
  /\ UNCHANGED <<have, inCallback, reported>>

GoAstray ==
  /\ pc = "dispatch" /\ WalkFails(mi)
  /\ pc' = "astray"
  /\ UNCHANGED <<mapVars, events, have, fds, nfds, touched, inCallback, dead, mi, active, clear,
                 reported, littered>>

\* Mutant: the walk goes on in a map that the callback has changed.
ReturnNoRestart ==
  /\ pc \in {"callback", "closing"}
  /\ inCallback' = FALSE
  /\ active' = IF dead THEN active ELSE active - 1
  /\ pc' = IF dead THEN "freed" ELSE IF active' = 0 THEN "idle" ELSE "dispatch"
  /\ UNCHANGED <<mapVars, events, have, fds, nfds, touched, mi, dead, clear, reported, littered>>

\* The callback returns; the walk starts again if the map was changed.
Return ==
  /\ pc \in {"callback", "closing"}
  /\ inCallback' = FALSE
  /\ active' = IF dead THEN active ELSE active - 1
  /\ pc' = IF dead THEN "freed" ELSE IF active' = 0 THEN "idle" ELSE "dispatch"
  /\ IF ~dead /\ active' # 0 /\ touched
       THEN touched' = FALSE /\ mi' = Null
       ELSE UNCHANGED <<touched, mi>>
  /\ UNCHANGED <<mapVars, events, have, fds, nfds, dead, clear, reported, littered>>

Dispatching == PassOver \/ Dispatch \/ WalkEnds \/ GoAstray

Monitor == Recurse \/ Select \/ Dispatching \/ Return

Next ==
  \/ \E s \in Keys : \/ \E ev \in Masks : AddSocket(s, ev) \/ ModSocket(s, ev)
                     \/ DelSocket(s)
  \/ Discard
  \/ Monitor

Spec == Init /\ [][Next]_vars

\* Callbacks return, and monitor() goes on.
FairSpec == Spec /\ WF_vars(Dispatching) /\ WF_vars(Return)

-----------------------------------------------------------------------------
\* select() watches exactly the registered sockets, for exactly the events
\* asked for ("SK_EV_error is non-maskable", event_loop.h), whatever was
\* added, modified and removed, in callbacks or not; and as long as the map
\* is sound, all of them count in its first argument (evl_select_add_socket,
\* _mod_socket, _del_socket).
WatchedAsAsked ==
  /\ \A e \in RW : fds[e] = {s \in items : e \in events[s]}
  /\ fds["error"] = items
  /\ ~spliced => nfds = Above(items)

\* No assert() of the loop fires, if the loop was zeroed when it was made and
\* its map is sound: select() never reports a socket that is not registered
\* any more, and the loop is never found in a callback or dead.
NoAbort == clear /\ ~spliced => pc # "aborted"

\* "it will get you a callback if an event happens on a socket"
\* (event_loop.h): what is dispatched to a socket was reported for it, for
\* this registration, by this select() and not dispatched before, also when
\* callbacks of the same round have removed sockets and registered others.
\* Left out are sockets that were registered in this round with garbage.
OnlyReported ==
  [][~spliced /\ pc = "dispatch" /\ pc' = "callback" =>
       mi' \in items /\ (mi' \notin littered => have[mi'] \subseteq reported[mi'])]_vars

\* monitor() returns only when every socket that had events, and was not
\* removed meanwhile, has been called back, although callbacks may change the
\* map that is being walked and the count of callbacks to go is not told.
\* Callbacks with garbage use that count up, so there must have been none.
NothingLeftBehind ==
  pc = "idle" /\ littered = {} /\ ~spliced => \A s \in items : have[s] = {}

\* No walk of the loop comes to a record that was freed, or fails to end,
\* before a socket with two children was removed from the map: a callback may
\* remove the socket it was called for, on which the walk stands.
NeverAstray == pc = "astray" => spliced

\* As long as the map is sound, monitor() returns if the callbacks do, however
\* often they make it start the walk over the sockets again, and whatever they
\* are called with.
MonitorReturns == pc = "dispatch" /\ clear ~> pc \in {"idle", "freed"} \/ spliced

-----------------------------------------------------------------------------
(* What a comment of the code says, and the run event_loop_uninit refutes.  *)

\* "it will get you a callback if an event happens on a socket"
\* (event_loop.h:50): a callback is for events that were reported.
CalledForEvents ==
  [][pc = "dispatch" /\ pc' = "callback" => have[mi'] \subseteq reported[mi']]_vars

-----------------------------------------------------------------------------
(* What makes them so: EventLoopProofs.                                    *)

\* The sockets with events that select() reported and no callback got yet.
Undispatched == {s \in items : have[s] # {}}

\* The two flags of the loop say where monitor() is.
PhaseInv ==
  clear /\ pc # "astray" =>
    /\ dead <=> pc \in {"closing", "freed"}
    /\ inCallback <=> pc \in {"callback", "closing"}

\* The count of callbacks to go is never too small, though it is not told of
\* sockets that are removed: it cannot end the walk early.
CountInv ==
  littered = {} /\ ~spliced =>
    /\ pc = "dispatch" => active >= Cardinality(Undispatched)
    /\ pc = "callback" => active > Cardinality(Undispatched)

\* The walk stands on a socket that is there, and nothing is left behind it,
\* so it cannot end late; or it is about to start again.
AheadInv ==
  ~spliced =>
    /\ pc = "dispatch" => ~touched
    /\ pc \in {"dispatch", "callback"} /\ ~touched =>
         mi \in items \cup {Null} /\ \A s \in Undispatched : s > mi

\* No socket has events of another one, or of an earlier registration.
ReportedInv == ~spliced => \A s \in items \ littered : have[s] \subseteq reported[s]

LoopInv ==
  /\ PhaseInv /\ CountInv /\ AheadInv /\ ReportedInv
  /\ NoAbort /\ NothingLeftBehind /\ NeverAstray

=============================================================================
