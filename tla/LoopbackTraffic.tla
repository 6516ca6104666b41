--------------------------- MODULE LoopbackTraffic ---------------------------
(***************************************************************************)
(* The loopback traffic authority                                           *)
(* (experiments/exposure_gate/loopback_traffic.py): one process that owns   *)
(* the route.  Its main thread serves the control socket of the gate, one   *)
(* handler thread per request admits and forwards, and both write one       *)
(* journal.                                                                 *)
(*                                                                         *)
(* authority.lock guards the control operations and a handler's admission;  *)
(* a handler's request.complete is recorded without it, so a control        *)
(* operation that writes two records takes a step for each.  A journal      *)
(* write may be refused (capacity), lost, or reach the file and still fail. *)
(* SIGTERM or SIGINT raises SystemExit in the main thread wherever it is:   *)
(* the operation is cut off, the lock released, and the route is closed     *)
(* only when the finally clause has the lock again.                         *)
(* Operations refused before they change anything are stuttering steps.     *)
(***************************************************************************)
EXTENDS Naturals, Sequences, FiniteSets

CONSTANTS
  Handlers,      \* handler threads
  RequestIds,    \* X-ECPA-Request-ID values
  Observer,      \* BOOLEAN: the authority has a Host authorization
  PredGen,       \* generation of the predecessor the process starts with
  MaxGen,        \* bound: candidate generations
  MaxJournal,    \* MAX_JOURNAL, in records
  MaxFaults      \* bound: journal, backend, lease and observation failures

ASSUME LoopbackConstants ==
  /\ Observer \in BOOLEAN
  /\ PredGen \in Nat \ {0}
  /\ MaxGen \in Nat /\ PredGen <= MaxGen
  /\ MaxJournal \in Nat \ {0}
  /\ MaxFaults \in Nat

VARIABLES
  route,         \* self.route
  lease,         \* the grant has not expired
  observed,      \* the Host journal covers the frozen membership
  journal,       \* the lines of the journal file
  sequence,      \* journal.sequence: the last line counted as written
  seen,          \* seen_request_ids
  admin,         \* the control operation in progress, or cut off by the signal
  hs,            \* handler -> its place and local variables
  lock,          \* the handler that holds authority.lock across steps
  life,          \* "up", "stopping" (SystemExit raised), "closing" (route closed),
                 \* "down" (journal closed)
  budget         \* faults still to come

ground == <<lease, observed>>
disk == <<journal, sequence, budget>>
vars == <<route, ground, disk, seen, admin, hs, lock, life>>

-----------------------------------------------------------------------------
Gens == 1..MaxGen
Routes == [gen: 0..MaxGen, gate: BOOLEAN]
Closed == [gen |-> 0, gate |-> FALSE]
Fence(g) == [gen |-> g, gate |-> FALSE]     \* fence "fence-g": the predecessor backend
Gate(g) == [gen |-> g, gate |-> TRUE]       \* fence "gate-...": the candidate backend
IsOpen(r) == r.gen # 0

NoId == "no-id"
Free == "free"

RouteKinds == {"start", "open.applied", "close_all", "restore.applied"}
Kinds == RouteKinds \cup {"close_checked", "open.intent", "restore.intent", "admit",
                          "reject", "complete", "duplicate", "stop"}
Line == [kind: Kinds, route: Routes, id: RequestIds \cup {NoId}, seq: Nat]

Idle == [pc |-> "idle", target |-> Closed]
Admins == [pc: {"idle", "open.intent", "open.route", "restore.intent", "restore.route"},
           target: Routes]
Handler == [pc: {"idle", "fresh", "refuse", "forward", "complete", "unroute",
                 "done", "broken"},
            id: RequestIds \cup {NoId}, route: Routes]
Resting == [pc |-> "idle", id |-> NoId, route |-> Closed]

(* SystemExit leaves the `with self.lock` of the operation it cuts off.        *)
Unlocked == lock = Free /\ (admin.pc = "idle" \/ life # "up")
Spend == budget > 0 /\ budget' = budget - 1

-----------------------------------------------------------------------------
(* _TrafficJournal._record_unlocked: the line is written and then counted.    *)
Entry(k, r, id) == [kind |-> k, route |-> r, id |-> id, seq |-> sequence + 1]
Room == Len(journal) < MaxJournal /\ life # "down"

Written(k, r, id) ==
  /\ Room
  /\ journal' = Append(journal, Entry(k, r, id))
  /\ sequence' = sequence + 1
  /\ budget' = budget

(* Refused at capacity or on a closed file; lost; or written and not synced.  *)
Lost(k, r, id) ==
  /\ sequence' = sequence
  /\ \/ ~Room /\ UNCHANGED <<journal, budget>>
     \/ Spend /\ journal' = journal
     \/ Spend /\ Room /\ journal' = Append(journal, Entry(k, r, id))

(* _Authority._record next to a route about to become r: write or fail closed. *)
Recorded(k, r) == Written(k, r, NoId) /\ route' = r
FailedOpen(k, r) == Lost(k, r, NoId) /\ route' = r          \* mutant
FailedClosed(k, r) == Lost(k, r, NoId) /\ route' = Closed

(* The signal strikes in the record: the line is in the file or not, it is     *)
(* not counted, and no handler of _record closes the route.                    *)
Struck(k, r) ==
  /\ \/ journal' = journal
     \/ Room /\ journal' = Append(journal, Entry(k, r, NoId))
  /\ route' = r
  /\ life' = "stopping"
  /\ UNCHANGED <<sequence, budget>>

(* What becomes of a record whose operation takes no further step.             *)
Ends(k, r) ==
  \/ (Recorded(k, r) \/ FailedClosed(k, r)) /\ life' = life
  \/ Struck(k, r)

(* The grounds of a candidate route: lease and Host observation.              *)
Grounds == Observer /\ route.gate => lease /\ observed

-----------------------------------------------------------------------------
(* apply(): the control socket, served while the process is up. *)
Serving == Unlocked /\ life = "up"

(* query: _refresh_candidate closes a candidate that lost its grounds.        *)
Query ==
  /\ Serving /\ ~Grounds
  /\ Ends("close_all", Closed)
  /\ UNCHANGED <<ground, seen, admin, hs, lock>>

(* close of the candidate that would follow: a check and a record.            *)
CloseChecked(g) ==
  /\ Serving
  /\ IsOpen(route) /\ g = route.gen + 1
  /\ Ends("close_checked", route)
  /\ UNCHANGED <<ground, seen, admin, hs, lock>>

(* close_all. *)
CloseAll ==
  /\ Serving
  /\ Ends("close_all", Closed)
  /\ UNCHANGED <<ground, seen, admin, hs, lock>>

(* _authorize_candidate. *)
Authorized(g) == Observer => g = PredGen + 1 /\ observed

(* The intent of a route change is recorded under the old route, ...          *)
Intends(k, target) ==
  \/ Recorded(k, route) /\ admin' = [pc |-> k, target |-> target] /\ life' = life
  \/ FailedClosed(k, route) /\ UNCHANGED <<admin, life>>
  \/ Struck(k, route) /\ admin' = admin

(* open of the next generation, with lease and authorization;                 *)
OpenIntent(g) ==
  /\ Serving
  /\ lease
  /\ IsOpen(route) /\ g = route.gen + 1
  /\ Authorized(g)
  /\ Intends("open.intent", Gate(g))
  /\ UNCHANGED <<ground, seen, hs, lock>>

(* restore of a predecessor, from whatever route;                             *)
RestoreIntent(g) ==
  /\ Serving
  /\ Intends("restore.intent", Fence(g))
  /\ UNCHANGED <<ground, seen, hs, lock>>

(* ... the route is assigned, ...                                             *)
AssignRoute ==
  /\ life = "up"
  /\ admin.pc \in {"open.intent", "restore.intent"}
  /\ route' = admin.target
  /\ admin' = [admin EXCEPT !.pc = IF @ = "open.intent" THEN "open.route" ELSE "restore.route"]
  /\ UNCHANGED <<ground, disk, seen, hs, lock, life>>

(* ... and the applied record repeats whatever the route is by then.          *)
Applied ==
  /\ life = "up"
  /\ admin.pc \in {"open.route", "restore.route"}
  /\ LET k == IF admin.pc = "open.route" THEN "open.applied" ELSE "restore.applied" IN
       \/ (Recorded(k, route) \/ FailedClosed(k, route)) /\ admin' = Idle /\ life' = life
       \/ Struck(k, route) /\ admin' = admin
  /\ UNCHANGED <<ground, seen, hs, lock>>

(* SIGTERM or SIGINT between two statements of the main thread, in the middle *)
(* of an operation, in accept() or waiting for the lock: nothing but the lock *)
(* is undone.                                                                 *)
Stop ==
  /\ life = "up"
  /\ life' = "stopping"
  /\ UNCHANGED <<route, ground, disk, seen, admin, hs, lock>>

(* mutant: the route is left to the end of the process.                        *)
ShutNothing ==
  /\ life = "stopping" /\ Unlocked
  /\ life' = "closing"
  /\ UNCHANGED <<route, ground, disk, seen, admin, hs, lock>>

(* The finally clause closes the route once it has the lock; handlers that     *)
(* took it before have admitted on the route the signal left.                  *)
ShutRoute ==
  /\ life = "stopping" /\ Unlocked
  /\ life' = "closing"
  /\ route' = Closed
  /\ UNCHANGED <<ground, disk, seen, admin, hs, lock>>

(* authority.stop, then the journal is closed under the handlers' feet.       *)
Down ==
  /\ life = "closing" /\ Unlocked
  /\ life' = "down"
  /\ Recorded("stop", route) \/ FailedClosed("stop", route)
  /\ UNCHANGED <<ground, seen, admin, hs, lock>>

-----------------------------------------------------------------------------
(* _forward: one request. *)
Pc(h, p) == hs[h].pc = p
Step(h, p) == hs' = [hs EXCEPT ![h].pc = p]

(* The identity is claimed in a locked section of its own.                    *)
Repeated(id) == id \in seen

(* mutant: an identity is claimed only if the route is open at the moment.     *)
IdentifyOpen(h, id) ==
  /\ Pc(h, "idle") /\ Unlocked /\ life # "down"
  /\ ~Repeated(id)
  /\ seen' = IF IsOpen(route) THEN seen \cup {id} ELSE seen
  /\ hs' = [hs EXCEPT ![h].pc = "fresh", ![h].id = id]
  /\ UNCHANGED <<route, disk, ground, admin, lock, life>>

Identify(h, id) ==
  /\ Pc(h, "idle") /\ Unlocked /\ life # "down"
  /\ ~Repeated(id)
  /\ seen' = seen \cup {id}
  /\ hs' = [hs EXCEPT ![h] = [pc |-> "fresh", id |-> id, route |-> hs[h].route]]
  /\ UNCHANGED <<route, disk, ground, admin, lock, life>>

(* A replay is recorded and answered 409; if the record fails the handler     *)
(* thread dies of the GateError.                                              *)
Duplicate(h, id) ==
  /\ Pc(h, "idle") /\ Unlocked /\ life # "down"
  /\ Repeated(id)
  /\ \/ Written("duplicate", route, id) /\ UNCHANGED route /\ Step(h, "done")
     \/ Lost("duplicate", route, id) /\ route' = Closed /\ Step(h, "broken")
  /\ UNCHANGED <<seen, ground, admin, lock, life>>

(* mutant: journal_failed is not looked at.                                    *)
AdmitUnrecorded(h) ==
  /\ Pc(h, "fresh") /\ Unlocked
  /\ Grounds
  /\ LET k == IF IsOpen(route) THEN "admit" ELSE "reject" IN
       \/ Written(k, route, hs[h].id) /\ route' = route
       \/ Lost(k, route, hs[h].id) /\ route' = Closed
  /\ hs' = [hs EXCEPT ![h].pc = IF IsOpen(route) THEN "forward" ELSE "done",
                      ![h].route = route]
  /\ UNCHANGED <<seen, ground, admin, lock, life>>

(* The admission section: an open route with its grounds admits, a closed one *)
(* rejects, and without the record neither happens.                           *)
Admit(h) ==
  /\ Pc(h, "fresh") /\ Unlocked
  /\ Grounds
  /\ LET k == IF IsOpen(route) THEN "admit" ELSE "reject" IN
       \/ /\ Written(k, route, hs[h].id)
          /\ route' = route
          /\ hs' = [hs EXCEPT ![h] = [pc |-> IF IsOpen(route) THEN "forward" ELSE "done",
                                      id |-> hs[h].id, route |-> route]]
       \/ /\ Lost(k, route, hs[h].id)
          /\ route' = Closed
          /\ Step(h, "done")
  /\ UNCHANGED <<seen, ground, admin, lock, life>>

(* The same section when the candidate lost its grounds: close, then reject.  *)
Revoke(h) ==
  /\ Pc(h, "fresh") /\ Unlocked
  /\ ~Grounds
  /\ \/ Recorded("close_all", Closed) /\ Step(h, "refuse") /\ lock' = h
     \/ FailedClosed("close_all", Closed) /\ Step(h, "done") /\ lock' = lock
  /\ UNCHANGED <<seen, ground, admin, life>>

Refuse(h) ==
  /\ Pc(h, "refuse")
  /\ \/ Written("reject", route, hs[h].id) /\ route' = route
     \/ Lost("reject", route, hs[h].id) /\ route' = Closed
  /\ Step(h, "done")
  /\ lock' = Free
  /\ UNCHANGED <<seen, ground, admin, life>>

(* The backend of the route that was admitted, whatever the route is now.  An *)
(* OSError or GateError there reaches a _record call with one argument too    *)
(* many: TypeError ends the handler, without a record and without a 502.      *)
Forward(h) ==
  /\ Pc(h, "forward")
  /\ \/ Step(h, "complete") /\ budget' = budget
     \/ Step(h, "broken") /\ Spend
  /\ UNCHANGED <<route, journal, sequence, seen, ground, admin, lock, life>>

(* request.complete, without authority.lock: when it fails, the route is      *)
(* closed a step later.                                                       *)
Complete(h) ==
  /\ Pc(h, "complete")
  /\ \/ Written("complete", hs[h].route, hs[h].id) /\ Step(h, "done")
     \/ Lost("complete", hs[h].route, hs[h].id) /\ Step(h, "unroute")
  /\ UNCHANGED <<route, seen, ground, admin, lock, life>>

Unroute(h) ==
  /\ Pc(h, "unroute")
  /\ route' = Closed
  /\ Step(h, "broken")
  /\ UNCHANGED <<ground, disk, seen, admin, lock, life>>

-----------------------------------------------------------------------------
(* The world outside the process. *)
LeaseExpires ==
  /\ lease /\ Spend
  /\ lease' = FALSE
  /\ UNCHANGED <<observed, route, journal, sequence, seen, admin, hs, lock, life>>

ObservationChanges ==
  /\ Spend
  /\ observed' = ~observed
  /\ UNCHANGED <<lease, route, journal, sequence, seen, admin, hs, lock, life>>

-----------------------------------------------------------------------------
Init ==
  /\ route = Fence(PredGen)
  /\ lease = TRUE
  /\ observed \in BOOLEAN
  /\ journal = << [kind |-> "start", route |-> Fence(PredGen), id |-> NoId, seq |-> 1] >>
  /\ sequence = 1
  /\ seen = {}
  /\ admin = Idle
  /\ hs = [h \in Handlers |-> Resting]
  /\ lock = Free
  /\ life = "up"
  /\ budget = MaxFaults

Control ==
  \/ Query \/ CloseAll \/ AssignRoute \/ Applied
  \/ \E g \in Gens : CloseChecked(g) \/ OpenIntent(g)
  \/ \E g \in 1..PredGen : RestoreIntent(g)

Arrive(h) == \E id \in RequestIds : Identify(h, id) \/ Duplicate(h, id)
Handle(h) == \/ Admit(h) \/ Revoke(h) \/ Refuse(h) \/ Forward(h) \/ Complete(h)
             \/ Unroute(h)

Next ==
  \/ Control \/ Stop \/ ShutRoute \/ Down
  \/ \E h \in Handlers : Arrive(h) \/ Handle(h)
  \/ LeaseExpires \/ ObservationChanges

Spec == Init /\ [][Next]_vars

-----------------------------------------------------------------------------
(* Properties. *)

(* Every variable holds a value of its type.                                  *)
TypeOK ==
  /\ route \in Routes
  /\ lease \in BOOLEAN /\ observed \in BOOLEAN
  /\ journal \in Seq(Line)
  /\ sequence \in Nat
  /\ seen \subseteq RequestIds
  /\ admin \in Admins
  /\ hs \in [Handlers -> Handler]
  /\ lock \in Handlers \cup {Free}
  /\ life \in {"up", "stopping", "closing", "down"}
  /\ budget \in Nat

LastRouteLine(i) ==
  CHOOSE j \in 1..i :
    journal[j].kind \in RouteKinds /\ \A k \in j+1..i : journal[k].kind \notin RouteKinds

(* The lines only apply() writes.                                             *)
Applying == {"open.intent", "open.applied", "restore.intent", "restore.applied",
             "close_checked"}

(* An open or restore that the signal cut off between the assignment and the  *)
(* applied record: its intent is the last word of the control thread.         *)
CutOff(i) ==
  /\ life # "up"
  /\ admin.pc \in {"open.route", "restore.route"} /\ journal[i].route = admin.target
  /\ \E c \in 1..i :
       /\ journal[c].kind = IF admin.pc = "open.route" THEN "open.intent" ELSE "restore.intent"
       /\ \A k \in c+1..i : journal[k].kind \notin RouteKinds
       /\ \A k \in c+1..Len(journal) : journal[k].kind \notin Applying

(* The journal explains every admission, in whatever order threads wrote and  *)
(* whichever writes failed: the last route line before it is of the route     *)
(* that admitted it (the reader derives exposure from these lines); or the    *)
(* authority was stopped between an intent and its applied line, and then the *)
(* route admitted on is the one that intent announced, and no operation       *)
(* followed it.                                                               *)
AdmitsFollowJournal ==
  \A i \in 1..Len(journal) : journal[i].kind = "admit" =>
    journal[LastRouteLine(i)].route = journal[i].route \/ CutOff(i)

(* The same without the exception.                                            *)
AdmitsFollowApplied ==
  \A i \in 1..Len(journal) : journal[i].kind = "admit" =>
    journal[LastRouteLine(i)].route = journal[i].route

(* An identity is decided once: of all handlers that carry it, one is         *)
(* admitted or rejected.                                                      *)
OneDecisionPerIdentity ==
  \A i, j \in 1..Len(journal) :
    /\ journal[i].id = journal[j].id
    /\ journal[i].kind \in {"admit", "reject"} /\ journal[j].kind \in {"admit", "reject"}
    => i = j

(* A closed or foreign route is never forwarded: the request in a backend's   *)
(* hands was admitted, under that route, by a line of the journal.            *)
ForwardedIsAdmitted ==
  \A h \in Handlers : hs[h].pc \in {"forward", "complete"} =>
    \E i \in 1..Len(journal) :
      /\ journal[i].kind = "admit" /\ journal[i].id = hs[h].id
      /\ journal[i].route = hs[h].route /\ IsOpen(journal[i].route)

(* From the signal on, the route is what the signal left or closed, whatever  *)
(* operation was in progress; and once the finally clause has had the lock it *)
(* stays shut and no thread comes to hold an admitted request.                *)
StopIsFinal ==
  [][/\ life # "up" => life' # "up" /\ route' \in {route, Closed}
     /\ life \in {"closing", "down"} =>
          /\ ~IsOpen(route')
          /\ \A h \in Handlers : hs'[h].pc = "forward" => hs[h].pc = "forward"]_vars

(* Only a restore opens a closed route: an open whose predecessor was closed  *)
(* under it, by a handler whose journal write failed, must not be assigned.   *)
OnlyRestoreReopens == [][~IsOpen(route) /\ IsOpen(route') => ~route'.gate]_vars

=============================================================================
