------------------------ MODULE LoopbackTrafficProofs ------------------------
(* Proofs about the loopback traffic authority for any number of handlers,   *)
(* requests, generations, journal records and faults.                        *)
EXTENDS LoopbackTraffic, TLAPS

-----------------------------------------------------------------------------
(* One line is added to the journal, or none. *)
LEMMA AppendFacts ==
  ASSUME NEW S, NEW s \in Seq(S), NEW e \in S
  PROVE  /\ Append(s, e) \in Seq(S)
         /\ Len(Append(s, e)) = Len(s) + 1
         /\ \A i \in 1..Len(s) : Append(s, e)[i] = s[i]
         /\ Append(s, e)[Len(s) + 1] = e
  OBVIOUS

Adds(e) == journal' = journal \/ journal' = Append(journal, e)

DiskType == journal \in Seq(Line) /\ sequence \in Nat /\ budget \in Nat

LEMMA EntryType ==
  ASSUME TypeOK, NEW k \in Kinds, NEW r \in Routes, NEW id \in RequestIds \cup {NoId}
  PROVE  Entry(k, r, id) \in Line
  BY DEF TypeOK, Entry, Line

LEMMA WriteType ==
  ASSUME TypeOK, NEW k \in Kinds, NEW r \in Routes, NEW id \in RequestIds \cup {NoId},
         Written(k, r, id) \/ Lost(k, r, id)
  PROVE  DiskType' /\ Adds(Entry(k, r, id))
<1>1. Entry(k, r, id) \in Line  BY EntryType
<1>2. Append(journal, Entry(k, r, id)) \in Seq(Line)  BY <1>1, AppendFacts DEF TypeOK
<1>3. CASE Written(k, r, id)  BY <1>2, <1>3 DEF Written, TypeOK, DiskType, Adds
<1>4. CASE Lost(k, r, id)  BY <1>2, <1>4 DEF Lost, Spend, TypeOK, DiskType, Adds
<1>5. QED  BY <1>3, <1>4

LEMMA ClosedRoute == Closed \in Routes /\ ~IsOpen(Closed)
  BY LoopbackConstants DEF Closed, Routes, IsOpen

(* The control thread's records: written with the route, failed closed, or    *)
(* struck by the signal.                                                      *)
LEMMA RecordType ==
  ASSUME TypeOK, NEW k \in Kinds, NEW r \in Routes,
         Recorded(k, r) \/ FailedClosed(k, r) \/ Struck(k, r)
  PROVE  /\ DiskType' /\ Adds(Entry(k, r, NoId))
         /\ route' \in Routes /\ route' \in {r, Closed}
<1>1. CASE Recorded(k, r) \/ FailedClosed(k, r)
  BY <1>1, WriteType, ClosedRoute DEF Recorded, FailedClosed
<1>2. CASE Struck(k, r)
  <2>1. Append(journal, Entry(k, r, NoId)) \in Seq(Line)  BY EntryType, AppendFacts DEF TypeOK
  <2>2. QED  BY <1>2, <2>1 DEF Struck, DiskType, Adds, TypeOK
<1>3. QED  BY <1>1, <1>2

Lives == {"up", "stopping", "closing", "down"}

LEMMA EndsType ==
  ASSUME TypeOK, NEW k \in Kinds, NEW r \in Routes, Ends(k, r)
  PROVE  DiskType' /\ route' \in Routes /\ life' \in Lives
<1>1. DiskType' /\ route' \in Routes  BY RecordType DEF Ends
<1>2. life' \in Lives  BY DEF Ends, Struck, Lives, TypeOK
<1>3. QED  BY <1>1, <1>2

LEMMA IntendsType ==
  ASSUME TypeOK, NEW k \in {"open.intent", "restore.intent"}, NEW t \in Routes, Intends(k, t)
  PROVE  DiskType' /\ route' \in Routes /\ life' \in Lives /\ admin' \in Admins
<1>1. k \in Kinds /\ route \in Routes  BY DEF Kinds, TypeOK
<1>2. DiskType' /\ route' \in Routes  BY <1>1, RecordType DEF Intends
<1>3. life' \in Lives  BY DEF Intends, Struck, Lives, TypeOK
<1>4. admin' \in Admins  BY DEF Intends, Admins, TypeOK
<1>5. QED  BY <1>2, <1>3, <1>4

LEMMA KindsKnown ==
  {"start", "open.applied", "close_all", "restore.applied", "close_checked", "open.intent",
   "restore.intent", "admit", "reject", "complete", "duplicate", "stop"} \subseteq Kinds
  BY DEF Kinds, RouteKinds

LEMMA InitType == Init => TypeOK
<1> SUFFICES ASSUME Init PROVE TypeOK  OBVIOUS
<1>1. Fence(PredGen) \in Routes  BY LoopbackConstants DEF Fence, Routes
<1>2. [kind |-> "start", route |-> Fence(PredGen), id |-> NoId, seq |-> 1] \in Line
  BY <1>1, KindsKnown DEF Line
<1>3. journal \in Seq(Line)  BY <1>2 DEF Init
<1>4. hs \in [Handlers -> Handler]  BY ClosedRoute DEF Init, Resting, Handler
<1>5. admin \in Admins  BY ClosedRoute DEF Init, Idle, Admins
<1>6. lease \in BOOLEAN /\ observed \in BOOLEAN  BY DEF Init
<1>7. QED  BY <1>1, <1>3, <1>4, <1>5, <1>6, LoopbackConstants DEF Init, TypeOK

HandlerPcs == {"idle", "fresh", "refuse", "forward", "complete", "unroute", "done", "broken"}

(* A handler that moves to another place; the others stay.                    *)
LEMMA StepType ==
  ASSUME TypeOK, NEW h \in Handlers, NEW p \in HandlerPcs, Step(h, p)
  PROVE  /\ hs' \in [Handlers -> Handler]
         /\ hs'[h].pc = p /\ hs'[h].id = hs[h].id /\ hs'[h].route = hs[h].route
         /\ \A k \in Handlers \ {h} : hs'[k] = hs[k]
  BY DEF TypeOK, Step, Handler, HandlerPcs

LEMMA ControlType == TypeOK /\ (Control \/ Stop \/ ShutRoute \/ Down) => TypeOK'
<1> SUFFICES ASSUME TypeOK, Control \/ Stop \/ ShutRoute \/ Down PROVE TypeOK'  OBVIOUS
<1> USE KindsKnown, ClosedRoute
<1>0. route \in Routes  BY DEF TypeOK
<1>1. CASE Query \/ CloseAll
  <2>1. route' \in Routes /\ DiskType' /\ life' \in Lives  BY <1>1, EndsType DEF Query, CloseAll
  <2>2. QED  BY <1>1, <2>1 DEF Query, CloseAll, DiskType, Lives, ground, TypeOK
<1>2. ASSUME NEW g \in Gens, CloseChecked(g) PROVE TypeOK'
  <2>1. route' \in Routes /\ DiskType' /\ life' \in Lives
    BY <1>0, <1>2, EndsType DEF CloseChecked
  <2>2. QED  BY <1>2, <2>1 DEF CloseChecked, DiskType, Lives, ground, TypeOK
<1>3. ASSUME NEW g \in Gens, OpenIntent(g) PROVE TypeOK'
  <2>1. Gate(g) \in Routes  BY LoopbackConstants DEF Gate, Routes, Gens
  <2>2. route' \in Routes /\ DiskType' /\ life' \in Lives /\ admin' \in Admins
    BY <1>3, <2>1, IntendsType DEF OpenIntent
  <2>3. QED  BY <1>3, <2>2 DEF OpenIntent, DiskType, Lives, ground, TypeOK
<1>4. ASSUME NEW g \in 1..PredGen, RestoreIntent(g) PROVE TypeOK'
  <2>1. Fence(g) \in Routes  BY LoopbackConstants DEF Fence, Routes
  <2>2. route' \in Routes /\ DiskType' /\ life' \in Lives /\ admin' \in Admins
    BY <1>4, <2>1, IntendsType DEF RestoreIntent
  <2>3. QED  BY <1>4, <2>2 DEF RestoreIntent, DiskType, Lives, ground, TypeOK
<1>5. CASE AssignRoute
  <2>1. route' \in Routes  BY <1>5 DEF AssignRoute, Admins, TypeOK
  <2>2. admin' \in Admins  BY <1>5 DEF AssignRoute, Admins, TypeOK
  <2>3. QED  BY <1>5, <2>1, <2>2 DEF AssignRoute, disk, ground, TypeOK
<1>6. CASE Applied
  <2>1. route' \in Routes /\ DiskType'  BY <1>0, <1>6, RecordType DEF Applied
  <2>2. admin' \in Admins  BY <1>6 DEF Applied, Idle, Admins, TypeOK
  <2>3. life' \in Lives  BY <1>6 DEF Applied, Struck, Lives, TypeOK
  <2>4. QED  BY <1>6, <2>1, <2>2, <2>3 DEF Applied, DiskType, Lives, ground, TypeOK
<1>7. CASE Stop \/ ShutRoute  BY <1>7 DEF Stop, ShutRoute, disk, ground, TypeOK
<1>8. CASE Down
  <2>1. route' \in Routes /\ DiskType'  BY <1>0, <1>8, RecordType DEF Down
  <2>2. QED  BY <1>8, <2>1 DEF Down, DiskType, ground, TypeOK
<1>9. QED  BY <1>1, <1>2, <1>3, <1>4, <1>5, <1>6, <1>7, <1>8 DEF Control

LEMMA HandlerType == ASSUME TypeOK, NEW h \in Handlers, Arrive(h) \/ Handle(h) PROVE TypeOK'
<1> USE KindsKnown, ClosedRoute
<1>0. route \in Routes /\ hs[h].id \in RequestIds \cup {NoId} /\ hs[h].route \in Routes
  BY DEF TypeOK, Handler
<1>1. ASSUME NEW id \in RequestIds, Identify(h, id) PROVE TypeOK'
  <2>1. [pc |-> "fresh", id |-> id, route |-> hs[h].route] \in Handler  BY <1>0 DEF Handler
  <2>2. hs' \in [Handlers -> Handler]  BY <1>1, <2>1 DEF Identify, TypeOK
  <2>3. QED  BY <1>1, <2>2 DEF Identify, disk, ground, TypeOK
<1>2. ASSUME NEW id \in RequestIds, Duplicate(h, id) PROVE TypeOK'
  <2>1. DiskType'  BY <1>0, <1>2, WriteType DEF Duplicate
  <2>2. hs' \in [Handlers -> Handler]  BY <1>2, StepType DEF Duplicate, HandlerPcs
  <2>3. QED  BY <1>0, <1>2, <2>1, <2>2 DEF Duplicate, DiskType, ground, TypeOK
<1>3. CASE Admit(h)
  <2>1. DiskType'
    <3>1. Written("admit", route, hs[h].id) \/ Lost("admit", route, hs[h].id)
          \/ Written("reject", route, hs[h].id) \/ Lost("reject", route, hs[h].id)
      BY <1>3 DEF Admit
    <3>2. QED  BY <1>0, <3>1, WriteType
  <2>2. hs' \in [Handlers -> Handler]
    <3>1. [pc |-> IF IsOpen(route) THEN "forward" ELSE "done", id |-> hs[h].id, route |-> route]
            \in Handler
      BY <1>0 DEF Handler
    <3>2. QED  BY <1>3, <3>1, StepType DEF Admit, HandlerPcs, TypeOK
  <2>3. QED  BY <1>0, <1>3, <2>1, <2>2 DEF Admit, DiskType, ground, TypeOK
<1>4. CASE Revoke(h)
  <2>1. route' \in Routes /\ DiskType'  BY <1>4, RecordType DEF Revoke
  <2>2. hs' \in [Handlers -> Handler]  BY <1>4, StepType DEF Revoke, HandlerPcs
  <2>3. lock' \in Handlers \cup {Free}  BY <1>4 DEF Revoke, TypeOK
  <2>4. QED  BY <1>4, <2>1, <2>2, <2>3 DEF Revoke, DiskType, ground, TypeOK
<1>5. CASE Refuse(h)
  <2>1. DiskType'  BY <1>0, <1>5, WriteType DEF Refuse
  <2>2. hs' \in [Handlers -> Handler]  BY <1>5, StepType DEF Refuse, HandlerPcs
  <2>3. QED  BY <1>0, <1>5, <2>1, <2>2 DEF Refuse, DiskType, ground, TypeOK
<1>6. CASE Forward(h)
  <2>1. hs' \in [Handlers -> Handler]  BY <1>6, StepType DEF Forward, HandlerPcs
  <2>2. budget' \in Nat  BY <1>6 DEF Forward, Spend, TypeOK
  <2>3. QED  BY <1>6, <2>1, <2>2 DEF Forward, ground, TypeOK
<1>7. CASE Complete(h)
  <2>1. DiskType'  BY <1>0, <1>7, WriteType DEF Complete
  <2>2. hs' \in [Handlers -> Handler]  BY <1>7, StepType DEF Complete, HandlerPcs
  <2>3. QED  BY <1>7, <2>1, <2>2 DEF Complete, DiskType, ground, TypeOK
<1>8. CASE Unroute(h)
  <2>1. hs' \in [Handlers -> Handler]  BY <1>8, StepType DEF Unroute, HandlerPcs
  <2>2. QED  BY <1>8, <2>1 DEF Unroute, disk, ground, TypeOK
<1>9. QED  BY <1>1, <1>2, <1>3, <1>4, <1>5, <1>6, <1>7, <1>8 DEF Arrive, Handle

LEMMA WorldType == TypeOK /\ (LeaseExpires \/ ObservationChanges) => TypeOK'
<1>1. ASSUME TypeOK, LeaseExpires PROVE TypeOK'
  <2>1. lease' \in BOOLEAN  BY <1>1 DEF LeaseExpires
  <2>2. budget' \in Nat  BY <1>1 DEF LeaseExpires, Spend, TypeOK
  <2>3. QED  BY <1>1, <2>1, <2>2 DEF LeaseExpires, TypeOK
<1>2. ASSUME TypeOK, ObservationChanges PROVE TypeOK'
  <2>1. observed' \in BOOLEAN  BY <1>2 DEF ObservationChanges
  <2>2. budget' \in Nat  BY <1>2 DEF ObservationChanges, Spend, TypeOK
  <2>3. QED  BY <1>2, <2>1, <2>2 DEF ObservationChanges, TypeOK
<1>3. QED  BY <1>1, <1>2

LEMMA NextType == TypeOK /\ [Next]_vars => TypeOK'
<1>1. TypeOK /\ UNCHANGED vars => TypeOK'  BY DEF TypeOK, vars, disk, ground
<1>2. QED  BY <1>1, ControlType, HandlerType, WorldType DEF Next

(* Every variable keeps its type in every reachable state.                    *)
THEOREM TypeCorrect == Spec => []TypeOK
  BY InitType, NextType, PTL DEF Spec

-----------------------------------------------------------------------------
(* What a step does to the journal and the route.  Unsaid: the route has been *)
(* assigned and its record is still to come.                                  *)
Unsaid == {"open.route", "restore.route"}
Decisions == {"admit", "reject"}

RouteKept == IsOpen(route') /\ admin'.pc \notin Unsaid => route' = route /\ admin.pc \notin Unsaid

Silent == journal' = journal /\ RouteKept
SaysOther == \E e \in Line : /\ journal' = Append(journal, e)
                             /\ e.kind \notin RouteKinds \cup Decisions
                             /\ RouteKept
SaysRoute == \E e \in Line : /\ journal' = Append(journal, e)
                             /\ e.kind \in RouteKinds
                             /\ IsOpen(route') => e.route = route'
QuietLine == Silent \/ SaysOther \/ SaysRoute

LEMMA RecordShape ==
  ASSUME TypeOK, NEW k \in Kinds, NEW r \in Routes,
         Recorded(k, r) \/ FailedClosed(k, r) \/ Struck(k, r)
  PROVE  /\ Entry(k, r, NoId) \in Line
         /\ Entry(k, r, NoId).kind = k /\ Entry(k, r, NoId).route = r
         /\ IsOpen(route') => route' = r
         /\ \/ journal' = journal /\ (~IsOpen(route') \/ Struck(k, r))
            \/ journal' = Append(journal, Entry(k, r, NoId))
<1>1. Entry(k, r, NoId) \in Line  BY EntryType
<1>2. Entry(k, r, NoId).kind = k /\ Entry(k, r, NoId).route = r  BY DEF Entry
<1>3. CASE Recorded(k, r)  BY <1>1, <1>2, <1>3 DEF Recorded, Written
<1>4. CASE FailedClosed(k, r)  BY <1>1, <1>2, <1>4, ClosedRoute DEF FailedClosed, Lost
<1>5. CASE Struck(k, r)  BY <1>1, <1>2, <1>5 DEF Struck
<1>6. QED  BY <1>3, <1>4, <1>5

LEMMA SaysRouteShape ==
  ASSUME TypeOK, NEW k \in RouteKinds, NEW r \in Routes,
         \/ Recorded(k, r) \/ FailedClosed(k, r)
         \/ Struck(k, r) /\ (~IsOpen(r) \/ admin'.pc \in Unsaid)
  PROVE  QuietLine
<1>1. k \in Kinds  BY DEF Kinds
<1>2. /\ Entry(k, r, NoId) \in Line
      /\ Entry(k, r, NoId).kind = k /\ Entry(k, r, NoId).route = r
      /\ IsOpen(route') => route' = r
  BY <1>1, RecordShape
<1>3. journal' = journal => ~IsOpen(route') \/ admin'.pc \in Unsaid
  <2>1. CASE Recorded(k, r)
    <3>1. journal' # journal  BY <2>1, <1>2, AppendFacts DEF Recorded, Written, TypeOK
    <3>2. QED  BY <3>1
  <2>2. CASE FailedClosed(k, r)  BY <2>2, ClosedRoute DEF FailedClosed
  <2>3. CASE Struck(k, r) /\ (~IsOpen(r) \/ admin'.pc \in Unsaid)  BY <1>2, <2>3
  <2>4. QED  BY <2>1, <2>2, <2>3
<1>4. journal' = journal \/ journal' = Append(journal, Entry(k, r, NoId))
  BY <1>1, RecordShape
<1>5. QED  BY <1>2, <1>3, <1>4 DEF QuietLine, Silent, SaysRoute, RouteKept

LEMMA SaysOtherShape ==
  ASSUME TypeOK, NEW k \in {"close_checked", "open.intent", "restore.intent", "stop"},
         Recorded(k, route) \/ FailedClosed(k, route) \/ Struck(k, route),
         admin.pc \in Unsaid => admin'.pc \in Unsaid
  PROVE  QuietLine
<1>1. k \in Kinds /\ k \notin RouteKinds \cup Decisions  BY DEF Kinds, RouteKinds, Decisions
<1>2. route \in Routes  BY DEF TypeOK
<1>3. RouteKept  BY <1>1, <1>2, RecordShape DEF RouteKept
<1>4. QED  BY <1>1, <1>2, <1>3, RecordShape DEF QuietLine, Silent, SaysOther

LEMMA ControlShape ==
  ASSUME TypeOK, Control \/ Stop \/ ShutRoute \/ Down
  PROVE  QuietLine /\ hs' = hs /\ seen' = seen
<1> USE DEF TypeOK
<1>0. Serving => admin.pc \notin Unsaid  BY DEF Serving, Unlocked, Unsaid
<1>1. CASE Query \/ CloseAll
  <2>1. Recorded("close_all", Closed) \/ FailedClosed("close_all", Closed)
        \/ Struck("close_all", Closed)
    BY <1>1 DEF Query, CloseAll, Ends
  <2>2. "close_all" \in RouteKinds  BY DEF RouteKinds
  <2>3. QuietLine  BY <2>1, <2>2, ClosedRoute, SaysRouteShape
  <2>4. QED  BY <1>1, <2>3 DEF Query, CloseAll
<1>2. ASSUME NEW g \in Gens, CloseChecked(g) PROVE QuietLine /\ hs' = hs /\ seen' = seen
  BY <1>0, <1>2, SaysOtherShape DEF CloseChecked, Ends
<1>3. ASSUME NEW k \in {"open.intent", "restore.intent"}, NEW t, Serving, Intends(k, t)
      PROVE  QuietLine
  BY <1>0, <1>3, SaysOtherShape DEF Intends
<1>4. CASE \E g \in Gens : OpenIntent(g)  BY <1>3, <1>4 DEF OpenIntent
<1>5. CASE \E g \in 1..PredGen : RestoreIntent(g)  BY <1>3, <1>5 DEF RestoreIntent
<1>6. CASE AssignRoute
  <2>1. admin'.pc \in Unsaid  BY <1>6 DEF AssignRoute, Unsaid, Admins
  <2>2. QED  BY <1>6, <2>1 DEF AssignRoute, disk, QuietLine, Silent, RouteKept
<1>7. CASE Applied
  <2>1. admin.pc \in Unsaid  BY <1>7 DEF Applied, Unsaid
  <2>2. PICK k \in {"open.applied", "restore.applied"} :
          \/ Recorded(k, route) \/ FailedClosed(k, route)
          \/ Struck(k, route) /\ admin' = admin
    BY <1>7 DEF Applied
  <2>3. k \in RouteKinds  BY DEF RouteKinds
  <2>4. QuietLine  BY <2>1, <2>2, <2>3, SaysRouteShape
  <2>5. QED  BY <1>7, <2>4 DEF Applied
<1>8. CASE Stop \/ ShutRoute
  BY <1>8, ClosedRoute DEF Stop, ShutRoute, disk, QuietLine, Silent, RouteKept
<1>9. CASE Down  BY <1>9, SaysOtherShape DEF Down
<1>10. QED  BY <1>1, <1>2, <1>4, <1>5, <1>6, <1>7, <1>8, <1>9 DEF Control

-----------------------------------------------------------------------------
(* What a step does to the handlers. *)
Deciding == {"fresh", "refuse"}
Forwarding == {"forward", "complete"}

(* The handler comes to no decision and to no request it did not have.        *)
Stays(k) ==
  /\ hs'[k].pc \in Deciding => hs[k].pc \in Deciding /\ hs'[k].id = hs[k].id
  /\ hs'[k].pc \in Forwarding =>
       hs[k].pc \in Forwarding /\ hs'[k].id = hs[k].id /\ hs'[k].route = hs[k].route
  /\ hs'[k].pc = "forward" => hs[k].pc = "forward"

Quiet == QuietLine /\ seen' = seen /\ \A k \in Handlers : Stays(k)

Says(h, e) ==
  /\ journal' = Append(journal, e)
  /\ e.kind \in Decisions /\ e.id = hs[h].id
  /\ e.kind = "admit" => e.route = route /\ IsOpen(route) /\ (admin.pc = "idle" \/ life # "up")

Decides(h) ==
  /\ seen' = seen /\ RouteKept
  /\ hs[h].pc \in Deciding /\ hs'[h].pc \notin Deciding \cup {"complete"}
  /\ \A k \in Handlers \ {h} : hs'[k] = hs[k]
  /\ \/ journal' = journal /\ hs'[h].pc # "forward"
     \/ \E e \in Line : /\ Says(h, e)
                        /\ hs'[h].pc = "forward" =>
                             e.kind = "admit" /\ hs'[h].id = e.id /\ hs'[h].route = e.route

Claims(h) ==
  /\ Silent
  /\ \E id \in RequestIds \ seen :
       /\ seen' = seen \cup {id}
       /\ hs'[h].pc \in Deciding /\ hs'[h].id = id
  /\ \A k \in Handlers \ {h} : hs'[k] = hs[k]

LEMMA StayShape ==
  ASSUME TypeOK, NEW h \in Handlers, NEW p \in HandlerPcs, Step(h, p),
         p \in Deciding => hs[h].pc \in Deciding, p \in Forwarding => hs[h].pc \in Forwarding,
         p = "forward" => hs[h].pc = "forward"
  PROVE  \A k \in Handlers : Stays(k)
  BY StepType DEF Stays

(* A line by a handler, other than a decision.                                *)
LEMMA OtherLine ==
  ASSUME TypeOK, NEW k \in {"duplicate", "complete"}, NEW r \in Routes,
         NEW id \in RequestIds \cup {NoId}, Written(k, r, id) \/ Lost(k, r, id), RouteKept
  PROVE  QuietLine
<1>1. k \in Kinds /\ k \notin RouteKinds \cup Decisions  BY DEF Kinds, RouteKinds, Decisions
<1>2. Entry(k, r, id) \in Line  BY <1>1, EntryType
<1>3. Entry(k, r, id).kind = k  BY DEF Entry
<1>4. Adds(Entry(k, r, id))  BY <1>1, WriteType
<1>5. QED  BY <1>1, <1>2, <1>3, <1>4 DEF Adds, QuietLine, Silent, SaysOther

(* A decision written, or lost in one way or the other.                       *)
LEMMA DecisionLine ==
  ASSUME TypeOK, NEW h \in Handlers, NEW k \in Decisions, NEW id,
         id = hs[h].id,
         k = "admit" => IsOpen(route) /\ (admin.pc = "idle" \/ life # "up"),
         Written(k, route, id) \/ Lost(k, route, id)
  PROVE  /\ Entry(k, route, id) \in Line
         /\ Entry(k, route, id).kind = k /\ Entry(k, route, id).id = id
         /\ Entry(k, route, id).route = route
         /\ journal' = journal \/ Says(h, Entry(k, route, id))
         /\ Written(k, route, id) => Says(h, Entry(k, route, id))
<1>1. k \in Kinds  BY DEF Kinds, Decisions
<1>2. route \in Routes /\ id \in RequestIds \cup {NoId}  BY DEF TypeOK, Handler
<1>3. Entry(k, route, id) \in Line  BY <1>1, <1>2, EntryType
<1>4. Entry(k, route, id).kind = k /\ Entry(k, route, id).id = id /\ Entry(k, route, id).route = route
  BY DEF Entry
<1>5. Adds(Entry(k, route, id))  BY <1>1, <1>2, WriteType
<1>6. Written(k, route, id) => journal' = Append(journal, Entry(k, route, id))  BY DEF Written
<1>7. QED  BY <1>3, <1>4, <1>5, <1>6 DEF Adds, Says

LEMMA AdmitShape == ASSUME TypeOK, NEW h \in Handlers, Admit(h) PROVE Decides(h)
<1> DEFINE k == IF IsOpen(route) THEN "admit" ELSE "reject"
           id == hs[h].id
<1>1. k \in Decisions /\ (k = "admit" <=> IsOpen(route))  BY DEF Decisions
<1>2. /\ admin.pc = "idle" \/ life # "up"
      /\ hs[h].pc = "fresh" /\ seen' = seen /\ admin' = admin
  BY DEF Admit, Unlocked, Pc
<1>3. Written(k, route, id) \/ Lost(k, route, id)  BY DEF Admit
<1>4. /\ Entry(k, route, id) \in Line
      /\ Entry(k, route, id).kind = k /\ Entry(k, route, id).id = id
      /\ Entry(k, route, id).route = route
      /\ journal' = journal \/ Says(h, Entry(k, route, id))
      /\ Written(k, route, id) => Says(h, Entry(k, route, id))
  <2> HIDE DEF k, id
  <2>0. id = hs[h].id  BY DEF id
  <2>1. k = "admit" => IsOpen(route)  BY <1>1
  <2>2. QED  BY <1>1, <1>2, <1>3, <2>0, <2>1, DecisionLine
<1>5. CASE /\ Written(k, route, id) /\ route' = route
           /\ hs' = [hs EXCEPT ![h] = [pc |-> IF IsOpen(route) THEN "forward" ELSE "done",
                                       id |-> id, route |-> route]]
  <2>1. /\ hs'[h].pc = (IF IsOpen(route) THEN "forward" ELSE "done")
        /\ hs'[h].id = id /\ hs'[h].route = route
        /\ \A x \in Handlers \ {h} : hs'[x] = hs[x]
    BY <1>5 DEF TypeOK
  <2>2. hs'[h].pc \notin Deciding \cup {"complete"}  BY <2>1 DEF Deciding
  <2>3. hs[h].pc \in Deciding  BY <1>2 DEF Deciding
  <2>4. RouteKept  BY <1>2, <1>5 DEF RouteKept
  <2>5. hs'[h].pc = "forward" => k = "admit"  BY <2>1
  <2> HIDE DEF k, id
  <2>6. QED  BY <1>2, <1>4, <1>5, <2>1, <2>2, <2>3, <2>4, <2>5 DEF Decides
<1>6. CASE Lost(k, route, id) /\ route' = Closed /\ Step(h, "done")
  <2>1. hs'[h].pc = "done" /\ \A x \in Handlers \ {h} : hs'[x] = hs[x]
    BY <1>6, StepType DEF HandlerPcs
  <2>2. hs'[h].pc \notin Deciding \cup {"complete", "forward"}  BY <2>1 DEF Deciding
  <2>3. hs[h].pc \in Deciding  BY <1>2 DEF Deciding
  <2>4. RouteKept  BY <1>6, ClosedRoute DEF RouteKept
  <2> HIDE DEF k, id
  <2>5. QED  BY <1>2, <1>4, <2>1, <2>2, <2>3, <2>4 DEF Decides
<1>7. QED  BY <1>5, <1>6 DEF Admit

LEMMA RefuseShape == ASSUME TypeOK, NEW h \in Handlers, Refuse(h) PROVE Decides(h)
<1>1. hs[h].pc = "refuse" /\ seen' = seen /\ admin' = admin  BY DEF Refuse, Pc
<1>2. "reject" \in Decisions  BY DEF Decisions
<1>3. Written("reject", route, hs[h].id) \/ Lost("reject", route, hs[h].id)  BY DEF Refuse
<1>4. \/ journal' = journal
      \/ Entry("reject", route, hs[h].id) \in Line /\ Says(h, Entry("reject", route, hs[h].id))
  BY <1>2, <1>3, DecisionLine
<1>5. hs'[h].pc = "done" /\ \A x \in Handlers \ {h} : hs'[x] = hs[x]
  BY StepType DEF Refuse, HandlerPcs
<1>6. RouteKept  BY <1>1, ClosedRoute DEF Refuse, RouteKept
<1>7. hs[h].pc \in Deciding /\ hs'[h].pc \notin Deciding \cup {"complete", "forward"}
  BY <1>1, <1>5 DEF Deciding
<1>8. QED  BY <1>1, <1>4, <1>5, <1>6, <1>7 DEF Decides

LEMMA HandlerShape ==
  ASSUME TypeOK, NEW h \in Handlers, Arrive(h) \/ Handle(h)
  PROVE  Quiet \/ Decides(h) \/ Claims(h)
<1>0. route \in Routes /\ hs[h].id \in RequestIds \cup {NoId} /\ hs[h].route \in Routes
  BY DEF TypeOK, Handler
<1>a. {"fresh", "refuse", "complete", "done", "broken", "unroute"} \subseteq HandlerPcs
  BY DEF HandlerPcs
<1>1. ASSUME NEW id \in RequestIds, Identify(h, id) PROVE Claims(h)
  <2>1. hs'[h].pc = "fresh" /\ hs'[h].id = id /\ \A k \in Handlers \ {h} : hs'[k] = hs[k]
    BY <1>1 DEF Identify, TypeOK
  <2>2. Silent  BY <1>1 DEF Identify, disk, Silent, RouteKept
  <2>3. id \in RequestIds \ seen /\ seen' = seen \cup {id}  BY <1>1 DEF Identify, Repeated
  <2>4. QED  BY <2>1, <2>2, <2>3 DEF Claims, Deciding
<1>2. ASSUME NEW id \in RequestIds, Duplicate(h, id) PROVE Quiet
  <2>1. RouteKept  BY <1>2, ClosedRoute DEF Duplicate, RouteKept
  <2>2. QuietLine  BY <1>0, <1>2, <2>1, OtherLine DEF Duplicate
  <2>3. \A k \in Handlers : Stays(k)
    BY <1>2, <1>a, StayShape DEF Duplicate, Deciding, Forwarding
  <2>4. QED  BY <1>2, <2>2, <2>3 DEF Quiet, Duplicate
<1>3. CASE Admit(h)  BY <1>3, AdmitShape
<1>4. CASE Revoke(h)
  <2>1. "close_all" \in RouteKinds  BY DEF RouteKinds
  <2>2. QuietLine  BY <1>4, <2>1, ClosedRoute, SaysRouteShape DEF Revoke
  <2>3. \A k \in Handlers : Stays(k)
    BY <1>4, <1>a, StayShape DEF Revoke, Pc, Deciding, Forwarding
  <2>4. QED  BY <1>4, <2>2, <2>3 DEF Quiet, Revoke
<1>5. CASE Refuse(h)  BY <1>5, RefuseShape
<1>6. CASE Forward(h)
  <2>1. QuietLine  BY <1>6 DEF Forward, QuietLine, Silent, RouteKept
  <2>2. \A k \in Handlers : Stays(k)
    BY <1>6, <1>a, StayShape DEF Forward, Pc, Deciding, Forwarding
  <2>3. QED  BY <1>6, <2>1, <2>2 DEF Quiet, Forward
<1>7. CASE Complete(h)
  <2>1. RouteKept  BY <1>7 DEF Complete, RouteKept
  <2>2. QuietLine  BY <1>0, <1>7, <2>1, OtherLine DEF Complete
  <2>3. \A k \in Handlers : Stays(k)
    BY <1>7, <1>a, StayShape DEF Complete, Pc, Deciding, Forwarding
  <2>4. QED  BY <1>7, <2>2, <2>3 DEF Quiet, Complete
<1>8. CASE Unroute(h)
  <2>1. QuietLine  BY <1>8, ClosedRoute DEF Unroute, disk, QuietLine, Silent, RouteKept
  <2>2. \A k \in Handlers : Stays(k)
    BY <1>8, <1>a, StayShape DEF Unroute, Deciding, Forwarding
  <2>3. QED  BY <1>8, <2>1, <2>2 DEF Quiet, Unroute
<1>9. QED  BY <1>1, <1>2, <1>3, <1>4, <1>5, <1>6, <1>7, <1>8 DEF Arrive, Handle

-----------------------------------------------------------------------------
(* The inductive invariant. *)
Lines == 1..Len(journal)
Decision(i) == journal[i].kind \in Decisions

(* A decided identity is used up, and a handler about to decide is alone with *)
(* an identity that has no decision yet.                                      *)
Identities ==
  /\ \A i \in Lines : Decision(i) => journal[i].id \in seen
  /\ \A h \in Handlers : hs[h].pc \in Deciding =>
       hs[h].id \in seen /\ \A i \in Lines : Decision(i) => journal[i].id # hs[h].id
  /\ \A h, k \in Handlers :
       hs[h].pc \in Deciding /\ hs[k].pc \in Deciding /\ hs[h].id = hs[k].id => h = k
  /\ OneDecisionPerIdentity

RouteLine(j, i) ==
  /\ j \in 1..i /\ journal[j].kind \in RouteKinds
  /\ \A k \in j+1..i : journal[k].kind \notin RouteKinds

(* The last route line is of the route, unless its record is still to come.   *)
Explained ==
  \E j \in Lines : /\ RouteLine(j, Len(journal))
                   /\ IsOpen(route) /\ admin.pc \notin Unsaid => journal[j].route = route

Follow ==
  \A i \in Lines : journal[i].kind = "admit" =>
    (\E j \in Lines : RouteLine(j, i) /\ journal[j].route = journal[i].route) \/ CutOff(i)

(* The intent of the operation in progress, and nothing of a route behind it. *)
Word == IF admin.pc \in {"open.intent", "open.route"} THEN "open.intent" ELSE "restore.intent"
Intent(c) == /\ c \in Lines /\ journal[c].kind = Word
             /\ \A k \in c+1..Len(journal) : journal[k].kind \notin RouteKinds \cup Applying

(* A route whose applied record is missing is the one its intent announced:   *)
(* that intent is still the last word, unless the signal let the record reach *)
(* the file.                                                                  *)
Announced ==
  /\ life = "up" /\ admin.pc # "idle" => \E c \in Lines : Intent(c)
  /\ admin.pc \in Unsaid /\ IsOpen(route) =>
       /\ route = admin.target
       /\ \/ \E c \in Lines : Intent(c)
          \/ \E j \in Lines : RouteLine(j, Len(journal)) /\ journal[j].route = route

(* Behind the finally clause's locked section the route is closed.            *)
Ended == {"closing", "down"}
Stopped == life \in Ended => ~IsOpen(route)

Inv == /\ TypeOK /\ Identities /\ ForwardedIsAdmitted
       /\ Explained /\ Announced /\ Follow /\ Stopped

LEMMA InitInv == Init => Inv
<1> SUFFICES ASSUME Init PROVE Inv  OBVIOUS
<1>1. TypeOK  BY InitType
<1>2. Len(journal) = 1 /\ journal[1].kind = "start" /\ journal[1].route = route
  BY DEF Init
<1>3. \A h \in Handlers : hs[h].pc = "idle"  BY DEF Init, Resting
<1>4. "start" \in RouteKinds /\ "start" \notin Decisions  BY DEF RouteKinds, Decisions
<1>5. Lines = {1}  BY <1>2 DEF Lines
<1>6. Identities
  BY <1>2, <1>3, <1>4, <1>5 DEF Identities, OneDecisionPerIdentity, Decision, Deciding, Decisions
<1>7. ForwardedIsAdmitted  BY <1>3 DEF ForwardedIsAdmitted
<1>8. Explained
  <2>1. RouteLine(1, Len(journal))  BY <1>2, <1>4 DEF RouteLine
  <2>2. QED  BY <1>2, <1>5, <2>1 DEF Explained
<1>9. Follow  BY <1>2, <1>5 DEF Follow
<1>10. Stopped /\ Announced  BY DEF Init, Stopped, Ended, Announced, Idle, Unsaid
<1>11. QED  BY <1>1, <1>6, <1>7, <1>8, <1>9, <1>10 DEF Inv

(* Lines already written stay where they are.                                 *)
LEMMA Grown ==
  ASSUME TypeOK, journal' = journal \/ \E e \in Line : journal' = Append(journal, e)
  PROVE  /\ Len(journal) \in Nat /\ Len(journal') \in {Len(journal), Len(journal) + 1}
         /\ \A i \in Lines : i \in Lines' /\ journal'[i] = journal[i]
<1>1. journal \in Seq(Line)  BY DEF TypeOK
<1>2. CASE journal' = journal  BY <1>1, <1>2 DEF Lines
<1>3. ASSUME NEW e \in Line, journal' = Append(journal, e)
      PROVE  /\ Len(journal) \in Nat /\ Len(journal') \in {Len(journal), Len(journal) + 1}
             /\ \A i \in Lines : i \in Lines' /\ journal'[i] = journal[i]
  BY <1>1, <1>3, AppendFacts DEF Lines
<1>4. QED  BY <1>2, <1>3

LEMMA NewLine ==
  ASSUME TypeOK, NEW e \in Line, journal' = Append(journal, e)
  PROVE  /\ Len(journal) \in Nat /\ Len(journal') = Len(journal) + 1
         /\ Lines' = Lines \cup {Len(journal) + 1} /\ Len(journal) + 1 \notin Lines
         /\ \A i \in Lines : journal'[i] = journal[i]
         /\ journal'[Len(journal) + 1] = e
  BY AppendFacts DEF TypeOK, Lines

(* Identities.                                                                *)
LEMMA QuietIdentities == TypeOK /\ Identities /\ Quiet => Identities'
<1> SUFFICES ASSUME TypeOK, Identities, Quiet PROVE Identities'  OBVIOUS
<1>1. \A i \in Lines' : Decision(i)' => i \in Lines /\ journal'[i] = journal[i] /\ Decision(i)
  <2>1. CASE journal' = journal  BY <2>1 DEF Lines, Decision
  <2>2. ASSUME NEW e \in Line, journal' = Append(journal, e), e.kind \notin Decisions
        PROVE  \A i \in Lines' : Decision(i)' => i \in Lines /\ journal'[i] = journal[i] /\ Decision(i)
    BY <2>2, NewLine DEF Decision
  <2>3. \A e : e \in RouteKinds => e \notin Decisions  BY DEF RouteKinds, Decisions
  <2>4. QED  BY <2>1, <2>2, <2>3 DEF Quiet, QuietLine, Silent, SaysOther, SaysRoute
<1>2. seen' = seen /\ \A h \in Handlers : hs'[h].pc \in Deciding =>
        hs[h].pc \in Deciding /\ hs'[h].id = hs[h].id
  BY DEF Quiet, Stays
<1>3. OneDecisionPerIdentity'
  <2>1. \A i, j \in Lines : Decision(i) /\ Decision(j) /\ journal[i].id = journal[j].id => i = j
    BY DEF Identities, OneDecisionPerIdentity, Decision, Decisions, Lines
  <2>2. \A i, j \in Lines' : Decision(i)' /\ Decision(j)' /\ journal'[i].id = journal'[j].id => i = j
    BY <1>1, <2>1
  <2>3. QED  BY <2>2 DEF OneDecisionPerIdentity, Decision, Decisions, Lines
<1>4. QED  BY <1>1, <1>2, <1>3 DEF Identities

LEMMA DecideIdentities ==
  ASSUME TypeOK, Identities, NEW h \in Handlers, Decides(h) PROVE Identities'
<1>1. hs[h].pc \in Deciding /\ seen' = seen  BY DEF Decides
<1>2. \A k \in Handlers : hs'[k].pc \in Deciding => k # h /\ hs'[k] = hs[k]  BY DEF Decides
<1>3. \A i, j \in Lines : Decision(i) /\ Decision(j) /\ journal[i].id = journal[j].id => i = j
  BY DEF Identities, OneDecisionPerIdentity, Decision, Decisions, Lines
<1>4. hs[h].id \in seen /\ \A i \in Lines : Decision(i) => journal[i].id # hs[h].id
  BY <1>1 DEF Identities
<1>5. CASE journal' = journal
  BY <1>1, <1>2, <1>5 DEF Identities, OneDecisionPerIdentity, Decision, Lines
<1>6. ASSUME NEW e \in Line, Says(h, e) PROVE Identities'
  <2>1. /\ Lines' = Lines \cup {Len(journal) + 1} /\ Len(journal) + 1 \notin Lines
        /\ \A i \in Lines : journal'[i] = journal[i]
        /\ journal'[Len(journal) + 1] = e /\ e.id = hs[h].id
    BY <1>6, NewLine DEF Says
  <2>2. \A i \in Lines : Decision(i)' = Decision(i)  BY <2>1 DEF Decision
  <2>3. \A i \in Lines' : Decision(i)' => journal'[i].id \in seen'
    BY <1>1, <1>4, <2>1, <2>2 DEF Identities
  <2>4. \A k \in Handlers : hs'[k].pc \in Deciding =>
          hs'[k].id \in seen' /\ \A i \in Lines' : Decision(i)' => journal'[i].id # hs'[k].id
    <3> SUFFICES ASSUME NEW k \in Handlers, hs'[k].pc \in Deciding
                 PROVE  hs'[k].id \in seen' /\ \A i \in Lines' : Decision(i)' => journal'[i].id # hs'[k].id
      OBVIOUS
    <3>1. k # h /\ hs'[k] = hs[k]  BY <1>2
    <3>2. hs[k].id # hs[h].id  BY <1>1, <3>1 DEF Identities
    <3>3. hs[k].id \in seen /\ \A i \in Lines : Decision(i) => journal[i].id # hs[k].id
      BY <3>1 DEF Identities
    <3>4. QED  BY <1>1, <2>1, <2>2, <3>1, <3>2, <3>3
  <2>5. OneDecisionPerIdentity'
    <3>1. \A i, j \in Lines' : Decision(i)' /\ Decision(j)' /\ journal'[i].id = journal'[j].id => i = j
      BY <1>3, <1>4, <2>1, <2>2
    <3>2. QED  BY <3>1 DEF OneDecisionPerIdentity, Decision, Decisions, Lines
  <2>6. \A x, y \in Handlers : hs'[x].pc \in Deciding /\ hs'[y].pc \in Deciding
          /\ hs'[x].id = hs'[y].id => x = y
    BY <1>2 DEF Identities
  <2>7. QED  BY <2>3, <2>4, <2>5, <2>6 DEF Identities
<1>7. QED  BY <1>5, <1>6 DEF Decides

LEMMA ClaimIdentities ==
  ASSUME TypeOK, Identities, NEW h \in Handlers, Claims(h) PROVE Identities'
<1>1. PICK id \in RequestIds \ seen :
        /\ seen' = seen \cup {id}
        /\ hs'[h].pc \in Deciding /\ hs'[h].id = id
  BY DEF Claims
<1>2. journal' = journal  BY DEF Claims, Silent
<1>3. \A k \in Handlers \ {h} : hs'[k] = hs[k]  BY DEF Claims
<1>4. OneDecisionPerIdentity'  BY <1>2 DEF Identities, OneDecisionPerIdentity
<1>5. \A i \in Lines' : Decision(i)' => journal'[i].id \in seen /\ i \in Lines /\ Decision(i)
  BY <1>2 DEF Identities, Lines, Decision
<1>6. \A k \in Handlers : hs'[k].pc \in Deciding =>
        hs'[k].id \in seen' /\ \A i \in Lines' : Decision(i)' => journal'[i].id # hs'[k].id
  BY <1>1, <1>2, <1>3, <1>5 DEF Identities
<1>7. \A x, y \in Handlers : hs'[x].pc \in Deciding /\ hs'[y].pc \in Deciding
        /\ hs'[x].id = hs'[y].id => x = y
  BY <1>1, <1>3 DEF Identities
<1>8. QED  BY <1>1, <1>4, <1>5, <1>6, <1>7 DEF Identities

(* Forwarded requests.                                                        *)
Admitted(h) ==
  \E i \in Lines : /\ journal[i].kind = "admit" /\ journal[i].id = hs[h].id
                   /\ journal[i].route = hs[h].route /\ IsOpen(journal[i].route)

LEMMA ForwardFacts == ForwardedIsAdmitted <=> \A h \in Handlers : hs[h].pc \in Forwarding => Admitted(h)
  BY DEF ForwardedIsAdmitted, Forwarding, Admitted, Lines

LEMMA ForwardStep ==
  ASSUME TypeOK, ForwardedIsAdmitted, Quiet \/ \E h \in Handlers : Decides(h) \/ Claims(h)
  PROVE  ForwardedIsAdmitted'
<1>1. journal' = journal \/ \E e \in Line : journal' = Append(journal, e)
  BY DEF Quiet, QuietLine, Silent, SaysOther, SaysRoute, Decides, Says, Claims
<1>2. \A i \in Lines : i \in Lines' /\ journal'[i] = journal[i]  BY <1>1, Grown
<1>3. ASSUME NEW k \in Handlers, hs[k].pc \in Forwarding,
             hs'[k].id = hs[k].id, hs'[k].route = hs[k].route
      PROVE  Admitted(k)'
  BY <1>2, <1>3, ForwardFacts DEF Admitted
<1>4. CASE Quiet
  <2>1. \A k \in Handlers : hs'[k].pc \in Forwarding => Admitted(k)'
    BY <1>3, <1>4 DEF Quiet, Stays
  <2>2. QED  BY <2>1, ForwardFacts DEF ForwardedIsAdmitted, Forwarding, Admitted, Lines
<1>5. ASSUME NEW h \in Handlers, Decides(h) PROVE ForwardedIsAdmitted'
  <2>1. \A k \in Handlers \ {h} : hs'[k].pc \in Forwarding => Admitted(k)'
    BY <1>3, <1>5 DEF Decides
  <2>2. hs'[h].pc \in Forwarding => Admitted(h)'
    <3> SUFFICES ASSUME hs'[h].pc \in Forwarding PROVE Admitted(h)'  OBVIOUS
    <3>1. hs'[h].pc = "forward"  BY <1>5 DEF Decides, Forwarding
    <3>2. PICK e \in Line : Says(h, e) /\ e.kind = "admit" /\ hs'[h].id = e.id /\ hs'[h].route = e.route
      BY <1>5, <3>1 DEF Decides
    <3>3. Len(journal) + 1 \in Lines' /\ journal'[Len(journal) + 1] = e
      BY <3>2, NewLine DEF Says
    <3>4. IsOpen(e.route)  BY <3>2 DEF Says
    <3>5. QED  BY <3>2, <3>3, <3>4 DEF Admitted
  <2>3. \A k \in Handlers : hs'[k].pc \in Forwarding => Admitted(k)'  BY <2>1, <2>2
  <2>4. QED  BY <2>3, ForwardFacts DEF ForwardedIsAdmitted, Forwarding, Admitted, Lines
<1>6. ASSUME NEW h \in Handlers, Claims(h) PROVE ForwardedIsAdmitted'
  <2>1. hs'[h].pc \notin Forwarding  BY <1>6 DEF Claims, Deciding, Forwarding
  <2>2. \A k \in Handlers : hs'[k].pc \in Forwarding => Admitted(k)'
    BY <1>3, <1>6, <2>1 DEF Claims
  <2>3. QED  BY <2>2, ForwardFacts DEF ForwardedIsAdmitted, Forwarding, Admitted, Lines
<1>7. QED  BY <1>4, <1>5, <1>6

-----------------------------------------------------------------------------
(* Route lines. *)
LEMMA SameRouteLine ==
  ASSUME TypeOK, NEW i \in Lines, NEW j,
         journal' = journal \/ \E e \in Line : journal' = Append(journal, e)
  PROVE  RouteLine(j, i) <=> RouteLine(j, i)'
<1>1. \A k \in Lines : k \in Lines' /\ journal'[k] = journal[k]  BY Grown
<1>2. Len(journal) \in Nat  BY Grown
<1>3. \A k \in 1..i : k \in Lines  BY <1>2 DEF Lines
<1>4. j \in 1..i => \A k \in j+1..i : k \in 1..i  BY <1>2 DEF Lines
<1>5. QED  BY <1>1, <1>3, <1>4 DEF RouteLine

(* A line that is not of a route leaves the last route line the last one.     *)
LEMMA LaterLine ==
  ASSUME TypeOK, NEW e \in Line, journal' = Append(journal, e), e.kind \notin RouteKinds,
         NEW j \in Lines, RouteLine(j, Len(journal))
  PROVE  RouteLine(j, Len(journal))' /\ journal'[j] = journal[j] /\ j \in Lines'
<1>1. /\ Len(journal) \in Nat /\ Len(journal') = Len(journal) + 1
      /\ Lines' = Lines \cup {Len(journal) + 1}
      /\ \A i \in Lines : journal'[i] = journal[i]
      /\ journal'[Len(journal) + 1] = e
  BY NewLine
<1>2. j \in 1..Len(journal') /\ journal'[j].kind \in RouteKinds
  BY <1>1 DEF RouteLine, Lines
<1>3. \A k \in j+1..Len(journal') : journal'[k].kind \notin RouteKinds
  <2> SUFFICES ASSUME NEW k \in j+1..Len(journal') PROVE journal'[k].kind \notin RouteKinds
    OBVIOUS
  <2>1. CASE k = Len(journal) + 1  BY <1>1, <2>1
  <2>2. CASE k # Len(journal) + 1
    <3>1. k \in j+1..Len(journal) /\ k \in Lines  BY <1>1, <2>2 DEF Lines
    <3>2. QED  BY <1>1, <3>1 DEF RouteLine
  <2>3. QED  BY <2>1, <2>2
<1>4. QED  BY <1>1, <1>2, <1>3 DEF RouteLine

LEMMA RouteLineWritten ==
  ASSUME TypeOK, NEW e \in Line, journal' = Append(journal, e), e.kind \in RouteKinds
  PROVE  \E j \in Lines' : RouteLine(j, Len(journal))' /\ journal'[j] = e
<1>1. /\ Len(journal) \in Nat /\ Len(journal') = Len(journal) + 1
      /\ Lines' = Lines \cup {Len(journal) + 1}
      /\ journal'[Len(journal) + 1] = e
  BY NewLine
<1>2. PICK n \in Nat : n = Len(journal')  BY <1>1
<1>3. n \in Lines' /\ journal'[n] = e  BY <1>1, <1>2
<1>4. n \in 1..n /\ n+1..n = {}  BY <1>1, <1>2
<1>5. RouteLine(n, n)'  BY <1>3, <1>4 DEF RouteLine
<1>6. RouteLine(n, Len(journal))'  BY <1>2, <1>5 DEF RouteLine
<1>7. QED  BY <1>3, <1>6

(* The route at hand stays explained, whatever line is written.               *)
LEMMA ExplainedStep ==
  ASSUME TypeOK, Explained, QuietLine \/ \E h \in Handlers : Decides(h) \/ Claims(h)
  PROVE  Explained'
<1>1. PICK j \in Lines : /\ RouteLine(j, Len(journal))
                         /\ IsOpen(route) /\ admin.pc \notin Unsaid => journal[j].route = route
  BY DEF Explained
<1>2. CASE Silent
  <2>1. RouteLine(j, Len(journal))' /\ journal'[j] = journal[j] /\ j \in Lines'
    BY <1>1, <1>2 DEF Silent, RouteLine, Lines
  <2>2. QED  BY <1>1, <1>2, <2>1 DEF Silent, RouteKept, Explained
<1>3. ASSUME NEW e \in Line, journal' = Append(journal, e), e.kind \notin RouteKinds, RouteKept
      PROVE  Explained'
  <2>1. RouteLine(j, Len(journal))' /\ journal'[j] = journal[j] /\ j \in Lines'
    BY <1>1, <1>3, LaterLine
  <2>2. QED  BY <1>1, <1>3, <2>1 DEF RouteKept, Explained
<1>4. CASE SaysRoute
  <2>1. PICK e \in Line : /\ journal' = Append(journal, e)
                          /\ e.kind \in RouteKinds
                          /\ IsOpen(route') => e.route = route'
    BY <1>4 DEF SaysRoute
  <2>2. \E x \in Lines' : RouteLine(x, Len(journal))' /\ journal'[x] = e
    BY <2>1, RouteLineWritten
  <2>3. QED  BY <2>1, <2>2 DEF Explained
<1>5. \A k \in Decisions : k \notin RouteKinds  BY DEF Decisions, RouteKinds
<1>6. ASSUME NEW h \in Handlers, Decides(h) PROVE Explained'
  <2>1. CASE journal' = journal  BY <1>2, <1>6, <2>1 DEF Decides, Silent
  <2>2. ASSUME NEW e \in Line, Says(h, e) PROVE Explained'
    BY <1>3, <1>5, <1>6, <2>2 DEF Decides, Says
  <2>3. QED  BY <1>6, <2>1, <2>2 DEF Decides
<1>7. QED  BY <1>2, <1>3, <1>4, <1>6 DEF QuietLine, SaysOther, Claims

-----------------------------------------------------------------------------
(* Every step but those of apply(): the operation and its intent stay as they *)
(* are, the route stays or is closed.                                         *)
AsideLine(e) ==
  /\ journal' = Append(journal, e) /\ e.kind \notin Applying
  /\ e.kind \in RouteKinds => ~IsOpen(route') /\ (admin.pc = "idle" \/ life # "up")

Aside ==
  /\ admin' = admin /\ (life' = "up" => life = "up")
  /\ route' = route \/ route' = Closed
  /\ journal' = journal \/ \E e \in Line : AsideLine(e)

LEMMA PlainAside ==
  ASSUME TypeOK, NEW k \in {"duplicate", "admit", "reject", "complete", "stop"},
         NEW r \in Routes, NEW id \in RequestIds \cup {NoId}, Written(k, r, id) \/ Lost(k, r, id),
         admin' = admin, life' = "up" => life = "up", route' = route \/ route' = Closed
  PROVE  Aside
<1>1. k \in Kinds /\ k \notin RouteKinds /\ k \notin Applying  BY DEF Kinds, RouteKinds, Applying
<1>2. Entry(k, r, id) \in Line /\ Adds(Entry(k, r, id))  BY <1>1, EntryType, WriteType
<1>3. Entry(k, r, id).kind = k  BY DEF Entry
<1>4. QED  BY <1>1, <1>2, <1>3 DEF Adds, Aside, AsideLine

LEMMA HandlerAside == ASSUME TypeOK, NEW h \in Handlers, Arrive(h) \/ Handle(h) PROVE Aside
<1>0. route \in Routes /\ hs[h].id \in RequestIds \cup {NoId} /\ hs[h].route \in Routes
  BY DEF TypeOK, Handler
<1>1. CASE \E id \in RequestIds : Identify(h, id)  BY <1>1 DEF Identify, disk, Aside
<1>2. CASE \E id \in RequestIds : Duplicate(h, id)  BY <1>0, <1>2, PlainAside DEF Duplicate
<1>3. CASE Admit(h)
  <2>1. \E k \in {"admit", "reject"} : Written(k, route, hs[h].id) \/ Lost(k, route, hs[h].id)
    BY <1>3 DEF Admit
  <2>2. admin' = admin /\ life' = life /\ (route' = route \/ route' = Closed)  BY <1>3 DEF Admit
  <2>3. QED  BY <1>0, <2>1, <2>2, PlainAside
<1>4. CASE Revoke(h)
  <2>1. Recorded("close_all", Closed) \/ FailedClosed("close_all", Closed)  BY <1>4 DEF Revoke
  <2>2. Adds(Entry("close_all", Closed, NoId)) /\ Entry("close_all", Closed, NoId) \in Line
    BY <2>1, KindsKnown, ClosedRoute, RecordType, EntryType
  <2>3. Entry("close_all", Closed, NoId).kind = "close_all" /\ "close_all" \notin Applying
    BY DEF Entry, Applying
  <2>4. route' = Closed  BY <2>1 DEF Recorded, FailedClosed
  <2>5. admin' = admin /\ life' = life /\ (admin.pc = "idle" \/ life # "up")
    BY <1>4 DEF Revoke, Unlocked
  <2>6. QED  BY <2>2, <2>3, <2>4, <2>5, ClosedRoute DEF Adds, Aside, AsideLine
<1>5. CASE Refuse(h)  BY <1>0, <1>5, PlainAside DEF Refuse
<1>6. CASE Forward(h) \/ Unroute(h)  BY <1>6 DEF Forward, Unroute, disk, Aside
<1>7. CASE Complete(h)  BY <1>0, <1>7, PlainAside DEF Complete
<1>8. QED  BY <1>1, <1>2, <1>3, <1>4, <1>5, <1>6, <1>7 DEF Arrive, Handle

LEMMA OtherAside ==
  ASSUME TypeOK, Stop \/ ShutRoute \/ Down \/ LeaseExpires \/ ObservationChanges \/ UNCHANGED vars
  PROVE  Aside
<1>1. CASE Stop \/ ShutRoute \/ LeaseExpires \/ ObservationChanges \/ UNCHANGED vars
  BY <1>1 DEF Stop, ShutRoute, LeaseExpires, ObservationChanges, vars, disk, Aside
<1>2. CASE Down
  <2>1. route \in Routes /\ NoId \in RequestIds \cup {NoId}  BY DEF TypeOK
  <2>2. Written("stop", route, NoId) \/ Lost("stop", route, NoId)
    BY <1>2 DEF Down, Recorded, FailedClosed
  <2>3. admin' = admin /\ life' = "down" /\ (route' = route \/ route' = Closed)
    BY <1>2 DEF Down, Recorded, FailedClosed
  <2>4. QED  BY <2>1, <2>2, <2>3, PlainAside
<1>3. QED  BY <1>1, <1>2

(* apply() is served only before the signal.                                  *)
LEMMA AfterSignal == TypeOK /\ [Next]_vars /\ life # "up" => Aside /\ life' # "up"
<1> SUFFICES ASSUME TypeOK, [Next]_vars, life # "up" PROVE Aside /\ life' # "up"  OBVIOUS
<1>1. ~Control
  BY DEF Control, Query, CloseAll, AssignRoute, Applied, CloseChecked, OpenIntent, RestoreIntent,
         Serving
<1>2. Aside  BY <1>1, HandlerAside, OtherAside DEF Next
<1>3. QED  BY <1>2 DEF Aside

(* The intent stays the last word under a line that is of no route.           *)
LEMMA IntentKept ==
  ASSUME TypeOK, NEW e \in Line, journal' = Append(journal, e),
         e.kind \notin RouteKinds \cup Applying, Word' = Word, NEW c \in Lines, Intent(c)
  PROVE  c \in Lines' /\ Intent(c)'
<1>1. /\ Len(journal) \in Nat /\ Len(journal') = Len(journal) + 1
      /\ Lines' = Lines \cup {Len(journal) + 1}
      /\ \A i \in Lines : journal'[i] = journal[i]
      /\ journal'[Len(journal) + 1] = e
  BY NewLine
<1>2. c \in Lines' /\ journal'[c].kind = Word'  BY <1>1 DEF Intent
<1>3. \A k \in c+1..Len(journal') : journal'[k].kind \notin RouteKinds \cup Applying
  <2> SUFFICES ASSUME NEW k \in c+1..Len(journal')
               PROVE  journal'[k].kind \notin RouteKinds \cup Applying
    OBVIOUS
  <2>1. CASE k = Len(journal) + 1  BY <1>1, <2>1
  <2>2. CASE k # Len(journal) + 1
    <3>1. k \in c+1..Len(journal) /\ k \in Lines  BY <1>1, <2>2 DEF Lines
    <3>2. QED  BY <1>1, <3>1 DEF Intent
  <2>3. QED  BY <2>1, <2>2
<1>4. QED  BY <1>2, <1>3 DEF Intent

LEMMA AsideAnnounced == TypeOK /\ Announced /\ Aside => Announced'
<1> SUFFICES ASSUME TypeOK, Announced, Aside PROVE Announced'  OBVIOUS
<1>1. Word' = Word /\ admin' = admin  BY DEF Aside, Word
<1>2. IsOpen(route') => route' = route /\ IsOpen(route)  BY ClosedRoute DEF Aside
<1>3. CASE journal' = journal
  BY <1>1, <1>2, <1>3 DEF Announced, Aside, Intent, RouteLine, Lines
<1>4. ASSUME NEW e \in Line, AsideLine(e) PROVE Announced'
  <2>1. life' = "up" /\ admin'.pc # "idle" => \E c \in Lines' : Intent(c)'
    <3> SUFFICES ASSUME life' = "up", admin'.pc # "idle" PROVE \E c \in Lines' : Intent(c)'
      OBVIOUS
    <3>1. life = "up" /\ admin.pc # "idle"  BY <1>1 DEF Aside
    <3>2. PICK c \in Lines : Intent(c)  BY <3>1 DEF Announced
    <3>3. e.kind \notin RouteKinds \cup Applying  BY <1>4, <3>1 DEF AsideLine
    <3>4. QED  BY <1>1, <1>4, <3>2, <3>3, IntentKept DEF AsideLine
  <2>2. ASSUME admin'.pc \in Unsaid, IsOpen(route')
        PROVE  /\ route' = admin'.target
               /\ \/ \E c \in Lines' : Intent(c)'
                  \/ \E j \in Lines' : RouteLine(j, Len(journal))' /\ journal'[j].route = route'
    <3>1. admin.pc \in Unsaid /\ IsOpen(route) /\ route' = route  BY <1>1, <1>2, <2>2
    <3>2. e.kind \notin RouteKinds \cup Applying  BY <1>4, <2>2 DEF AsideLine
    <3>3. route' = admin'.target  BY <1>1, <3>1 DEF Announced
    <3>4. ASSUME NEW c \in Lines, Intent(c) PROVE \E x \in Lines' : Intent(x)'
      BY <1>1, <1>4, <3>2, <3>4, IntentKept DEF AsideLine
    <3>5. ASSUME NEW j \in Lines, RouteLine(j, Len(journal)), journal[j].route = route
          PROVE  \E x \in Lines' : RouteLine(x, Len(journal))' /\ journal'[x].route = route'
      BY <1>4, <3>1, <3>2, <3>5, LaterLine DEF AsideLine
    <3>6. QED  BY <3>1, <3>3, <3>4, <3>5 DEF Announced
  <2>3. QED  BY <2>1, <2>2 DEF Announced
<1>5. QED  BY <1>3, <1>4 DEF Aside

(* An operation of apply() starts with its intent and ends idle or cut off.   *)
LEMMA ControlAnnounced == TypeOK /\ Announced /\ Control => Announced'
<1> SUFFICES ASSUME TypeOK, Announced, Control PROVE Announced'  OBVIOUS
<1>0. Serving => admin.pc = "idle"  BY DEF Serving, Unlocked
<1>1. admin'.pc = "idle" => Announced'  BY DEF Announced, Unsaid
<1>2. CASE Query \/ CloseAll \/ \E g \in Gens : CloseChecked(g)
  BY <1>0, <1>1, <1>2 DEF Query, CloseAll, CloseChecked
<1>3. ASSUME NEW w \in {"open.intent", "restore.intent"}, NEW t, Serving, Intends(w, t)
      PROVE  Announced'
  <2>1. CASE admin' = admin  BY <1>0, <1>1, <1>3, <2>1
  <2>2. CASE Recorded(w, route) /\ admin' = [pc |-> w, target |-> t]
    <3>1. w \in Kinds /\ route \in Routes  BY DEF Kinds, TypeOK
    <3>2. /\ Entry(w, route, NoId) \in Line /\ Entry(w, route, NoId).kind = w
          /\ journal' = Append(journal, Entry(w, route, NoId))
      BY <2>2, <3>1, EntryType DEF Entry, Recorded, Written
    <3>3. /\ Len(journal) \in Nat /\ Len(journal') = Len(journal) + 1
          /\ Lines' = Lines \cup {Len(journal) + 1}
          /\ journal'[Len(journal) + 1] = Entry(w, route, NoId)
      BY <3>2, NewLine
    <3>4. PICK n \in Nat : n = Len(journal')  BY <3>3
    <3>5. n \in Lines' /\ journal'[n].kind = w  BY <3>2, <3>3, <3>4
    <3>6. n+1..Len(journal') = {}  BY <3>4
    <3>7. admin'.pc = w /\ Word' = w  BY <2>2 DEF Word
    <3>8. Intent(n)'  BY <3>5, <3>6, <3>7 DEF Intent
    <3>9. admin'.pc \notin Unsaid  BY <3>7 DEF Unsaid
    <3>10. QED  BY <3>5, <3>8, <3>9 DEF Announced
  <2>3. QED  BY <1>3, <2>1, <2>2 DEF Intends
<1>4. CASE \E g \in Gens : OpenIntent(g)  BY <1>3, <1>4 DEF OpenIntent
<1>5. CASE \E g \in 1..PredGen : RestoreIntent(g)  BY <1>3, <1>5 DEF RestoreIntent
<1>6. CASE AssignRoute
  <2>1. life = "up" /\ admin.pc # "idle"  BY <1>6 DEF AssignRoute
  <2>2. PICK c \in Lines : Intent(c)  BY <2>1 DEF Announced
  <2>3. journal' = journal /\ route' = admin.target  BY <1>6 DEF AssignRoute, disk
  <2>4. admin'.target = admin.target /\ Word' = Word
    BY <1>6 DEF AssignRoute, Word, Admins, TypeOK
  <2>5. c \in Lines' /\ Intent(c)'  BY <2>2, <2>3, <2>4 DEF Intent, Lines
  <2>6. QED  BY <2>3, <2>4, <2>5 DEF Announced
<1>7. CASE Applied
  <2>1. PICK k \in {"open.applied", "restore.applied"} :
          \/ (Recorded(k, route) \/ FailedClosed(k, route)) /\ admin' = Idle
          \/ Struck(k, route) /\ admin' = admin
    BY <1>7 DEF Applied
  <2>2. CASE admin' = Idle  BY <1>1, <2>2 DEF Idle
  <2>3. CASE Struck(k, route) /\ admin' = admin
    <3>1. k \in Kinds /\ k \in RouteKinds /\ route \in Routes  BY DEF Kinds, RouteKinds, TypeOK
    <3>2. Entry(k, route, NoId) \in Line /\ Entry(k, route, NoId).kind = k
          /\ Entry(k, route, NoId).route = route
      BY <3>1, EntryType DEF Entry
    <3>3. route' = route /\ life' = "stopping" /\ Word' = Word  BY <2>3 DEF Struck, Word
    <3>4. CASE journal' = journal
      BY <2>3, <3>3, <3>4 DEF Announced, Intent, RouteLine, Lines
    <3>5. CASE journal' = Append(journal, Entry(k, route, NoId))
      <4>1. \E j \in Lines' : RouteLine(j, Len(journal))' /\ journal'[j] = Entry(k, route, NoId)
        BY <3>1, <3>2, <3>5, RouteLineWritten
      <4>2. \E j \in Lines' : RouteLine(j, Len(journal))' /\ journal'[j].route = route'
        BY <3>2, <3>3, <4>1
      <4>3. admin'.pc \in Unsaid /\ IsOpen(route') => route' = admin'.target
        BY <2>3, <3>3 DEF Announced
      <4>4. QED  BY <3>3, <4>2, <4>3 DEF Announced
    <3>6. QED  BY <2>3, <3>4, <3>5 DEF Struck
  <2>4. QED  BY <2>1, <2>2, <2>3
<1>8. QED  BY <1>2, <1>4, <1>5, <1>6, <1>7 DEF Control

(* An operation that was cut off stays the last one.                          *)
LEMMA CutOffKept ==
  ASSUME TypeOK, Aside, NEW i \in Lines, CutOff(i)
  PROVE  CutOff(i)'
<1>1. life' # "up" /\ admin' = admin  BY DEF CutOff, Aside
<1>2. CASE journal' = journal  BY <1>1, <1>2 DEF CutOff
<1>3. ASSUME NEW e \in Line, AsideLine(e) PROVE CutOff(i)'
  <2>1. /\ Len(journal) \in Nat /\ Len(journal') = Len(journal) + 1
        /\ \A k \in Lines : journal'[k] = journal[k]
        /\ journal'[Len(journal) + 1] = e /\ e.kind \notin Applying
    BY <1>3, NewLine DEF AsideLine
  <2>2. PICK c \in 1..i :
          /\ journal[c].kind = IF admin.pc = "open.route" THEN "open.intent" ELSE "restore.intent"
          /\ \A k \in c+1..i : journal[k].kind \notin RouteKinds
          /\ \A k \in c+1..Len(journal) : journal[k].kind \notin Applying
    BY DEF CutOff
  <2>3. c \in Lines /\ \A k \in c+1..i : k \in Lines  BY <2>1, <2>2 DEF Lines
  <2>4. \A k \in c+1..i : journal'[k].kind \notin RouteKinds  BY <2>1, <2>2, <2>3
  <2>5. \A k \in c+1..Len(journal') : journal'[k].kind \notin Applying
    <3> SUFFICES ASSUME NEW k \in c+1..Len(journal') PROVE journal'[k].kind \notin Applying
      OBVIOUS
    <3>1. CASE k = Len(journal) + 1  BY <2>1, <3>1
    <3>2. CASE k # Len(journal) + 1
      <4>1. k \in c+1..Len(journal) /\ k \in Lines  BY <2>1, <2>3, <3>2 DEF Lines
      <4>2. QED  BY <2>1, <2>2, <4>1
    <3>3. QED  BY <3>1, <3>2
  <2>6. journal'[c] = journal[c] /\ journal'[i] = journal[i]  BY <2>1, <2>3
  <2>7. QED  BY <1>1, <2>2, <2>4, <2>5, <2>6 DEF CutOff
<1>4. QED  BY <1>2, <1>3 DEF Aside

LEMMA FollowStep ==
  ASSUME TypeOK, Explained, Announced, Follow, life # "up" => Aside,
         QuietLine \/ \E h \in Handlers : (Decides(h) /\ Aside) \/ Claims(h)
  PROVE  Follow'
<1>1. journal' = journal \/ \E e \in Line : journal' = Append(journal, e)
  BY DEF QuietLine, Silent, SaysOther, SaysRoute, Decides, Says, Claims
<1>2. \A i \in Lines : i \in Lines' /\ journal'[i] = journal[i]  BY <1>1, Grown
<1> DEFINE Said(i) == \E j \in Lines : RouteLine(j, i) /\ journal[j].route = journal[i].route
<1>3. ASSUME NEW i \in Lines, journal'[i].kind = "admit"
      PROVE  Said(i)' \/ CutOff(i)'
  <2>1. CASE CutOff(i)
    <3>1. Aside  BY <2>1 DEF CutOff
    <3>2. QED  BY <2>1, <3>1, CutOffKept
  <2>2. CASE ~CutOff(i)
    <3>1. PICK j \in Lines : RouteLine(j, i) /\ journal[j].route = journal[i].route
      BY <1>2, <1>3, <2>2 DEF Follow
    <3>2. RouteLine(j, i)'  BY <1>1, <3>1, SameRouteLine
    <3>3. QED  BY <1>2, <3>1, <3>2
  <2>3. QED  BY <2>1, <2>2
<1>4. CASE journal' = journal
  <2>1. Lines' = Lines  BY <1>4 DEF Lines
  <2>2. QED  BY <1>3, <2>1 DEF Follow
<1>5. ASSUME NEW e \in Line, journal' = Append(journal, e),
             e.kind = "admit" => /\ e.route = route /\ IsOpen(route)
                                 /\ admin.pc = "idle" \/ life # "up"
                                 /\ Aside
      PROVE  Follow'
  <2>1. /\ Len(journal) \in Nat /\ Len(journal') = Len(journal) + 1
        /\ Lines' = Lines \cup {Len(journal) + 1} /\ journal'[Len(journal) + 1] = e
    BY <1>5, NewLine
  <2>a. PICK n \in Nat : n = Len(journal')  BY <2>1
  <2>b. journal'[n] = e  BY <2>1, <2>a
  <2>2. ASSUME e.kind = "admit" PROVE Said(n)' \/ CutOff(n)'
    <3>1. e.kind \notin RouteKinds \cup Applying  BY <2>2 DEF RouteKinds, Applying
    <3>2. ASSUME NEW j \in Lines, RouteLine(j, Len(journal)), journal[j].route = route
          PROVE  Said(n)'
      <4>1. RouteLine(j, Len(journal))' /\ journal'[j] = journal[j] /\ j \in Lines'
        BY <1>5, <3>1, <3>2, LaterLine
      <4>2. RouteLine(j, n)'  BY <2>a, <4>1 DEF RouteLine
      <4>3. QED  BY <1>5, <2>2, <2>b, <3>2, <4>1, <4>2
    <3>3. CASE admin.pc \notin Unsaid
      <4>1. PICK j \in Lines : RouteLine(j, Len(journal)) /\ journal[j].route = route
        BY <1>5, <2>2, <3>3 DEF Explained
      <4>2. QED  BY <3>2, <4>1
    <3>4. CASE admin.pc \in Unsaid
      <4>1. life # "up" /\ life' # "up" /\ admin' = admin
        BY <1>5, <2>2, <3>4 DEF Unsaid, Aside
      <4>2. route = admin.target  BY <1>5, <2>2, <3>4 DEF Announced
      <4>3. ASSUME NEW c \in Lines, Intent(c) PROVE CutOff(n)'
        <5>1. Word' = Word  BY <4>1 DEF Word
        <5>2. c \in Lines' /\ Intent(c)'  BY <1>5, <3>1, <4>3, <5>1, IntentKept
        <5>3. c \in 1..n  BY <2>a, <5>2 DEF Lines
        <5>4. \A k \in c+1..n : journal'[k].kind \notin RouteKinds \cup Applying
          BY <2>a, <5>2 DEF Intent
        <5>5. journal'[c].kind = IF admin'.pc = "open.route" THEN "open.intent" ELSE "restore.intent"
          BY <3>4, <4>1, <5>2 DEF Intent, Word, Unsaid
        <5>6. journal'[n].route = admin'.target  BY <1>5, <2>2, <2>b, <4>1, <4>2
        <5>7. admin'.pc \in {"open.route", "restore.route"}  BY <3>4, <4>1 DEF Unsaid
        <5>8. QED  BY <2>a, <4>1, <5>3, <5>4, <5>5, <5>6, <5>7 DEF CutOff
      <4>4. QED  BY <1>5, <2>2, <3>2, <3>4, <4>3 DEF Announced
    <3>5. QED  BY <3>3, <3>4
  <2>3. \A i \in Lines' : i \in Lines \/ i = n  BY <2>1, <2>a
  <2>5. QED  BY <1>3, <2>2, <2>3, <2>b DEF Follow
<1>6. \A k \in RouteKinds : k # "admit"  BY DEF RouteKinds
<1>7. "admit" \in Decisions  BY DEF Decisions
<1>8. QED
  BY <1>4, <1>5, <1>6, <1>7 DEF QuietLine, Silent, SaysOther, SaysRoute, Decides, Says, Claims

LEMMA FollowIsAdmits == TypeOK /\ Follow => AdmitsFollowJournal
<1> SUFFICES ASSUME TypeOK, Follow, NEW i \in Lines, journal[i].kind = "admit", ~CutOff(i)
             PROVE  journal[LastRouteLine(i)].route = journal[i].route
  BY DEF AdmitsFollowJournal, Lines
<1>1. PICK j \in Lines : RouteLine(j, i) /\ journal[j].route = journal[i].route  BY DEF Follow
<1> DEFINE c == LastRouteLine(i)
<1>2. RouteLine(c, i)  BY <1>1 DEF LastRouteLine, RouteLine
<1>3. i \in Nat /\ j \in 1..i /\ c \in 1..i  BY <1>1, <1>2 DEF RouteLine, Lines, TypeOK
<1>4. c = j
  <2> HIDE DEF c
  <2>1. ~(c < j)
    <3> SUFFICES ASSUME c < j PROVE FALSE  OBVIOUS
    <3>1. j \in c+1..i  BY <1>3
    <3>2. QED  BY <1>1, <1>2, <3>1 DEF RouteLine
  <2>2. ~(j < c)
    <3> SUFFICES ASSUME j < c PROVE FALSE  OBVIOUS
    <3>1. c \in j+1..i  BY <1>3
    <3>2. QED  BY <1>1, <1>2, <3>1 DEF RouteLine
  <2>3. QED  BY <1>3, <2>1, <2>2
<1>5. QED  BY <1>1, <1>4

-----------------------------------------------------------------------------
(* The end. *)
LEMMA StoppedStep == TypeOK /\ Stopped /\ [Next]_vars => Stopped'
<1> SUFFICES ASSUME TypeOK, Stopped, [Next]_vars, life' \in Ended PROVE ~IsOpen(route')
  BY DEF Stopped
<1>1. CASE life \in Ended
  <2>1. life # "up"  BY <1>1 DEF Ended
  <2>2. QED  BY <1>1, <2>1, AfterSignal, ClosedRoute DEF Aside, Stopped
<1>2. CASE life \notin Ended
  <2>1. ~Control
    BY <1>2 DEF Ended, Control, Query, CloseAll, AssignRoute, Applied, CloseChecked, OpenIntent,
                RestoreIntent, Ends, Intends, Struck
  <2>2. ~Stop /\ ~Down  BY <1>2 DEF Ended, Stop, Down
  <2>3. CASE ShutRoute  BY <2>3, ClosedRoute DEF ShutRoute
  <2>4. ~\E h \in Handlers : Arrive(h) \/ Handle(h)
    BY <1>2 DEF Arrive, Identify, Duplicate, Handle, Admit, Revoke, Refuse, Forward, Complete, Unroute
  <2>5. ~(LeaseExpires \/ ObservationChanges \/ UNCHANGED vars)
    BY <1>2 DEF LeaseExpires, ObservationChanges, vars
  <2>6. QED  BY <2>1, <2>2, <2>3, <2>4, <2>5 DEF Next
<1>3. QED  BY <1>1, <1>2

(* Behind the locked close no handler comes to hold an admitted request.      *)
LEMMA NoLateForward ==
  ASSUME Inv, [Next]_vars, life \in Ended, NEW h \in Handlers, hs'[h].pc = "forward"
  PROVE  hs[h].pc = "forward"
<1>0. TypeOK /\ Stopped  BY DEF Inv
<1>1. CASE Control \/ Stop \/ ShutRoute \/ Down
  BY <1>0, <1>1, ControlShape
<1>2. ASSUME NEW k \in Handlers, Arrive(k) \/ Handle(k) PROVE hs[h].pc = "forward"
  <2>1. CASE Quiet  BY <2>1 DEF Quiet, Stays
  <2>2. CASE Decides(k)
    <3>1. h = k => FALSE  BY <1>0, <2>2 DEF Decides, Says, Stopped
    <3>2. QED  BY <2>2, <3>1 DEF Decides
  <2>3. CASE Claims(k)  BY <2>3 DEF Claims, Deciding
  <2>4. QED  BY <1>0, <1>2, <2>1, <2>2, <2>3, HandlerShape
<1>3. CASE LeaseExpires \/ ObservationChanges \/ UNCHANGED vars
  BY <1>3 DEF LeaseExpires, ObservationChanges, vars
<1>4. QED  BY <1>1, <1>2, <1>3 DEF Next

-----------------------------------------------------------------------------
LEMMA NextInv == Inv /\ [Next]_vars => Inv'
<1> SUFFICES ASSUME Inv, [Next]_vars PROVE Inv'  OBVIOUS
<1>0. /\ TypeOK /\ Identities /\ ForwardedIsAdmitted
      /\ Explained /\ Announced /\ Follow /\ Stopped
  BY DEF Inv
<1>1. TypeOK' /\ Stopped'  BY <1>0, NextType, StoppedStep
<1>a. life # "up" => Aside  BY <1>0, AfterSignal
<1>2. ASSUME Quiet, Announced' PROVE Inv'
  <2>1. QuietLine  BY <1>2 DEF Quiet
  <2>2. Identities'  BY <1>0, <1>2, QuietIdentities
  <2>3. ForwardedIsAdmitted'  BY <1>0, <1>2, ForwardStep
  <2>4. Explained' /\ Follow'  BY <1>0, <1>a, <2>1, ExplainedStep, FollowStep
  <2>5. QED  BY <1>1, <1>2, <2>2, <2>3, <2>4 DEF Inv
<1>3. ASSUME NEW h \in Handlers, Decides(h) \/ Claims(h), Aside PROVE Inv'
  <2>1. Identities'  BY <1>0, <1>3, DecideIdentities, ClaimIdentities
  <2>2. ForwardedIsAdmitted'  BY <1>0, <1>3, ForwardStep
  <2>3. Explained' /\ Follow'  BY <1>0, <1>3, <1>a, ExplainedStep, FollowStep
  <2>4. Announced'  BY <1>0, <1>3, AsideAnnounced
  <2>5. QED  BY <1>1, <2>1, <2>2, <2>3, <2>4 DEF Inv
<1>4. CASE Control \/ Stop \/ ShutRoute \/ Down
  <2>1. QuietLine /\ hs' = hs /\ seen' = seen  BY <1>0, <1>4, ControlShape
  <2>2. Quiet  BY <2>1 DEF Quiet, Stays
  <2>3. Announced'  BY <1>0, <1>4, ControlAnnounced, OtherAside, AsideAnnounced
  <2>4. QED  BY <1>2, <2>2, <2>3
<1>5. ASSUME NEW h \in Handlers, Arrive(h) \/ Handle(h) PROVE Inv'
  <2>1. Aside  BY <1>0, <1>5, HandlerAside
  <2>2. Announced'  BY <1>0, <2>1, AsideAnnounced
  <2>3. QED  BY <1>0, <1>2, <1>3, <1>5, <2>1, <2>2, HandlerShape
<1>6. CASE LeaseExpires \/ ObservationChanges \/ UNCHANGED vars
  <2>1. journal' = journal /\ route' = route /\ admin' = admin /\ hs' = hs /\ seen' = seen
    BY <1>6 DEF LeaseExpires, ObservationChanges, vars, disk
  <2>2. Quiet  BY <2>1 DEF Quiet, Stays, QuietLine, Silent, RouteKept
  <2>3. Announced'  BY <1>0, <1>6, OtherAside, AsideAnnounced
  <2>4. QED  BY <1>2, <2>2, <2>3
<1>7. QED  BY <1>4, <1>5, <1>6 DEF Next

LEMMA InvHolds == Spec => []Inv
  BY InitInv, NextInv, PTL DEF Spec

(* The last route line before an admission is of the route that admitted it,  *)
(* whichever thread wrote between them and whichever writes failed, unless    *)
(* the signal cut off the operation that assigned the route: then its intent  *)
(* announces the route and is the last word of the control thread             *)
(* (_Authority._record, apply(), main()).                                     *)
THEOREM AdmitSafety == Spec => []AdmitsFollowJournal
<1>1. Inv => AdmitsFollowJournal  BY FollowIsAdmits DEF Inv
<1>2. QED  BY <1>1, InvHolds, PTL

(* Two decisions in the journal are about two requests, for any number of     *)
(* handlers that carry the same identity (_forward, seen_request_ids).        *)
THEOREM DecisionSafety == Spec => []OneDecisionPerIdentity
<1>1. Inv => OneDecisionPerIdentity  BY DEF Inv, Identities
<1>2. QED  BY <1>1, InvHolds, PTL

(* A request in a backend's hands was admitted under that route by a line of  *)
(* the journal (_forward).                                                    *)
THEOREM ForwardSafety == Spec => []ForwardedIsAdmitted
<1>1. Inv => ForwardedIsAdmitted  BY DEF Inv
<1>2. QED  BY <1>1, InvHolds, PTL

(* From the signal on the route only closes, and behind the locked section of *)
(* the finally clause it stays closed and nothing is admitted (stop(), main()).*)
THEOREM StopSafety == Spec => StopIsFinal
<1>1. Inv /\ [Next]_vars =>
        [/\ life # "up" => life' # "up" /\ route' \in {route, Closed}
         /\ life \in {"closing", "down"} =>
              /\ ~IsOpen(route')
              /\ \A h \in Handlers : hs'[h].pc = "forward" => hs[h].pc = "forward"]_vars
  <2> SUFFICES ASSUME Inv, [Next]_vars
               PROVE  /\ life # "up" => life' # "up" /\ route' \in {route, Closed}
                      /\ life \in {"closing", "down"} =>
                           /\ ~IsOpen(route')
                           /\ \A h \in Handlers : hs'[h].pc = "forward" => hs[h].pc = "forward"
    OBVIOUS
  <2>1. life # "up" => life' # "up" /\ route' \in {route, Closed}
    BY AfterSignal DEF Inv, Aside
  <2>2. ASSUME life \in Ended PROVE ~IsOpen(route')
    <3>1. life # "up" /\ ~IsOpen(route)  BY <2>2 DEF Inv, Stopped, Ended
    <3>2. QED  BY <2>1, <3>1, ClosedRoute
  <2>3. QED  BY <2>1, <2>2, NoLateForward DEF Ended
<1>2. QED  BY <1>1, InvHolds, PTL DEF Spec, StopIsFinal

=============================================================================
