----------------------- MODULE DynamicAuthorityProofs -----------------------
(* Proofs about the dynamic backend authority for any number of launches,    *)
(* generations, handlers, requests and faults.                               *)
EXTENDS DynamicAuthority, TLAPS

(* What the handler's place says about the journal and the API processes.     *)
Admitted(h) ==
  hs[h].pc \in {"connect", "deliver", "send", "await", "respond", "reply"} =>
    /\ hs[h].id \in RequestIds
    /\ hs[h].enr \in Generations /\ hs[h].enr <= generation
    /\ <<"admit", hs[h].id, hs[h].enr>> \in log

Bound(h) ==
  hs[h].pc \in {"send", "await", "respond", "reply"} =>
    /\ <<"bound", hs[h].id, hs[h].enr>> \in log
    /\ hs[h].peer = enrolled[hs[h].enr]

Delivered(h) ==
  hs[h].pc \in {"await", "respond", "reply"} => <<hs[h].id, enrolled[hs[h].enr]>> \in received

HInv(h) == Admitted(h) /\ Bound(h) /\ Delivered(h)

-----------------------------------------------------------------------------
(* Types. *)
LEMMA InitType == Init => TypeOK
<1> SUFFICES ASSUME Init PROVE TypeOK  OBVIOUS
<1>1. lease \in BOOLEAN /\ source \in BOOLEAN  BY DEF Init
<1>2. hs \in [Handlers -> Handler]  BY AuthorityConstants DEF Init, Resting, Handler, Pcs, None
<1>3. QED
  BY <1>1, <1>2, AuthorityConstants
  DEF Init, TypeOK, Launches, Generations, Closed, None, Free, Members

(* A step of one handler to another place keeps the handlers' types.          *)
LEMMA StepType ==
  ASSUME TypeOK, NEW h \in Handlers, NEW p \in Pcs, Step(h, p)
  PROVE  /\ hs' \in [Handlers -> Handler]
         /\ hs'[h] = [hs[h] EXCEPT !.pc = p]
         /\ \A k \in Handlers \ {h} : hs'[k] = hs[k]
  BY DEF TypeOK, Step, Handler

LEMMA CloseType ==
  ASSUME TypeOK, Close  PROVE route' \in 0..MaxGen /\ revoked' \subseteq Generations
  BY AuthorityConstants DEF TypeOK, Close, Closed, Generations

LEMMA SpendType == ASSUME TypeOK, Spend PROVE budget' \in Nat /\ budget' < budget
  BY DEF TypeOK, Spend

LEMMA RecordType ==
  ASSUME TypeOK, NEW g \in 0..MaxGen, NEW rs \in SUBSET Records,
         Recorded(rs, g) \/ RecordLost(rs, g)
  PROVE  route' \in 0..MaxGen /\ log' \subseteq Records /\ budget' \in Nat
  BY SpendType, AuthorityConstants DEF TypeOK, Recorded, RecordLost, Closed

LEMMA ControlType == TypeOK /\ Control => TypeOK'
<1> SUFFICES ASSUME TypeOK, Control PROVE TypeOK'  OBVIOUS
<1>1. CASE Query  BY <1>1, CloseType DEF Query, world, TypeOK
<1>2. CASE CloseGeneration  BY <1>2, CloseType DEF CloseGeneration, world, TypeOK
<1>3. CASE AdmitGeneration
  <2>1. CASE Recheck
    <3>0. {} \in SUBSET Records /\ generation \in 0..MaxGen  BY DEF TypeOK
    <3>1. route' \in 0..MaxGen /\ log' \subseteq Records /\ budget' \in Nat
      BY <1>3, <2>1, <3>0, RecordType DEF AdmitGeneration
    <3>2. revoked' = revoked  BY <1>3, <2>1 DEF AdmitGeneration
    <3>3. QED  BY <1>3, <3>1, <3>2 DEF AdmitGeneration, world, TypeOK
  <2>2. CASE ~Recheck  BY <1>3, <2>2, CloseType DEF AdmitGeneration, world, TypeOK
  <2>3. QED  BY <2>1, <2>2
<1>4. ASSUME NEW l \in Launches, Enroll(l) PROVE TypeOK'
  <2>1. route' \in 0..MaxGen /\ revoked' \subseteq Generations  BY <1>4, CloseType DEF Enroll
  <2>2. budget' \in Nat  BY <1>4, SpendType DEF Enroll, TypeOK
  <2>3. /\ generation' \in 0..MaxGen
        /\ enrolled' \in [Generations -> Launches \cup {None}]
    BY <1>4, AuthorityConstants DEF Enroll, TypeOK, Generations
  <2>4. QED  BY <1>4, <2>1, <2>2, <2>3 DEF Enroll, world, TypeOK
<1>5. QED  BY <1>1, <1>2, <1>3, <1>4 DEF Control

LEMMA HandlerType ==
  ASSUME TypeOK, NEW h \in Handlers, HInv(h), Arrive(h) \/ Handle(h)  PROVE TypeOK'
<1>1. ASSUME NEW id \in RequestIds, Refuse(h, id) PROVE TypeOK'
  <2>1. hs' \in [Handlers -> Handler]  BY <1>1, StepType DEF Refuse, Pcs
  <2>2. route' \in 0..MaxGen /\ revoked' \subseteq Generations
    BY <1>1, CloseType DEF Refuse, TypeOK
  <2>3. seen' \subseteq RequestIds  BY <1>1 DEF Refuse, TypeOK
  <2>4. QED  BY <1>1, <2>1, <2>2, <2>3 DEF Refuse, world, TypeOK
<1>2. ASSUME NEW id \in RequestIds, Admit(h, id) PROVE TypeOK'
  <2>1. generation \in Generations
    BY <1>2, AuthorityConstants DEF Admit, Recheck, TypeOK, Generations
  <2>2. hs' \in [Handlers -> Handler]
    <3>1. [pc |-> "connect", id |-> id, enr |-> generation, peer |-> None] \in Handler
      BY DEF Handler, Pcs, TypeOK
    <3>2. [pc |-> "error", id |-> id, enr |-> generation, peer |-> None] \in Handler
      BY DEF Handler, Pcs, TypeOK
    <3>3. QED  BY <1>2, <3>1, <3>2 DEF Admit, TypeOK
  <2>3. {<<"admit", id, generation>>} \in SUBSET Records  BY <2>1 DEF Records
  <2>4. route' \in 0..MaxGen /\ log' \subseteq Records /\ budget' \in Nat
    BY <1>2, <2>3, RecordType DEF Admit, TypeOK
  <2>5. QED  BY <1>2, <2>2, <2>4 DEF Admit, world, TypeOK
<1>3. CASE Connect(h)
  <2>1. hs' \in [Handlers -> Handler]
    <3>1. \A l \in Listening :
            [pc |-> "deliver", id |-> hs[h].id, enr |-> hs[h].enr, peer |-> l] \in Handler
      BY DEF TypeOK, Handler, Pcs, Listening
    <3>2. QED  BY <1>3, <3>1, StepType DEF Connect, Pcs, TypeOK
  <2>2. budget' \in Nat  BY <1>3, SpendType DEF Connect, TypeOK
  <2>3. QED  BY <1>3, <2>1, <2>2 DEF Connect, world, authority, TypeOK
<1>4. CASE Deliver(h)
  <2>1. hs' \in [Handlers -> Handler]  BY <1>4, StepType DEF Deliver, Pcs
  <2>2. {<<"bound", hs[h].id, hs[h].enr>>} \in SUBSET Records
    BY <1>4, AuthorityConstants DEF Deliver, Pc, HInv, Admitted, Records, TypeOK, Generations
  <2>3. route' \in 0..MaxGen /\ log' \subseteq Records /\ budget' \in Nat
    BY <1>4, <2>2, RecordType DEF Deliver, TypeOK
  <2>4. lock' \in Handlers \cup {Free}  BY <1>4 DEF Deliver, TypeOK
  <2>5. QED  BY <1>4, <2>1, <2>3, <2>4 DEF Deliver, world, TypeOK
<1>5. CASE Send(h)
  <2>1. hs' \in [Handlers -> Handler]  BY <1>5, StepType DEF Send, Pcs
  <2>2. received' \subseteq RequestIds \X Launches
    BY <1>5 DEF Send, Pc, HInv, Admitted, TypeOK, Listening
  <2>3. QED  BY <1>5, <2>1, <2>2 DEF Send, world, authority, TypeOK
<1>6. CASE Await(h)
  <2>1. hs' \in [Handlers -> Handler]  BY <1>6, StepType DEF Await, Pcs
  <2>2. budget' \in Nat  BY <1>6, SpendType DEF Await, TypeOK
  <2>3. QED  BY <1>6, <2>1, <2>2 DEF Await, world, authority, TypeOK
<1>7. CASE Respond(h)
  <2>1. hs' \in [Handlers -> Handler]  BY <1>7, StepType DEF Respond, Pcs
  <2>2. {<<"complete", hs[h].id, hs[h].enr>>} \in SUBSET Records
    BY <1>7, AuthorityConstants DEF Respond, Pc, HInv, Admitted, Records, TypeOK, Generations
  <2>3. route' \in 0..MaxGen /\ log' \subseteq Records /\ budget' \in Nat
    BY <1>7, <2>2, RecordType DEF Respond, TypeOK
  <2>4. QED  BY <1>7, <2>1, <2>3 DEF Respond, world, TypeOK
<1>8. CASE Reply(h)
  <2>1. hs' \in [Handlers -> Handler]  BY <1>8, StepType DEF Reply, Pcs
  <2>2. budget' \in Nat  BY <1>8, SpendType DEF Reply, TypeOK
  <2>3. QED  BY <1>8, <2>1, <2>2 DEF Reply, world, authority, TypeOK
<1>9. CASE Fail(h)
  <2>1. hs' \in [Handlers -> Handler]  BY <1>9, StepType DEF Fail, Pcs
  <2>2. route' \in 0..MaxGen /\ revoked' \subseteq Generations
    BY <1>9, CloseType DEF Fail, TypeOK
  <2>3. QED  BY <1>9, <2>1, <2>2 DEF Fail, world, TypeOK
<1>10. QED
  BY <1>1, <1>2, <1>3, <1>4, <1>5, <1>6, <1>7, <1>8, <1>9 DEF Arrive, Handle

LEMMA WorldType == TypeOK /\ World => TypeOK'
<1> SUFFICES ASSUME TypeOK, World PROVE TypeOK'  OBVIOUS
<1>1. CASE Launch
  BY <1>1, AuthorityConstants DEF Launch, authority, TypeOK, Launches, Members
<1>2. ASSUME NEW l \in Launches, Invoke(l) PROVE TypeOK'
  BY <1>2 DEF Invoke, authority, TypeOK
<1>3. ASSUME NEW l \in Launches, NEW m \in Members, Die(l, m) PROVE TypeOK'
  BY <1>3 DEF Die, authority, TypeOK
<1>4. CASE LeaseExpires
  <2>1. lease' \in BOOLEAN  BY <1>4 DEF LeaseExpires
  <2>2. QED  BY <1>4, <2>1, SpendType DEF LeaseExpires, authority, TypeOK
<1>5. CASE SourceChanges
  <2>1. source' \in BOOLEAN  BY <1>5 DEF SourceChanges
  <2>2. QED  BY <1>5, <2>1, SpendType DEF SourceChanges, authority, TypeOK
<1>6. QED  BY <1>1, <1>2, <1>3, <1>4, <1>5 DEF World

-----------------------------------------------------------------------------
(* What may only grow. *)
Grows ==
  /\ log \subseteq log' /\ received \subseteq received' /\ seen \subseteq seen'
  /\ generation' \in {generation, generation + 1}
  /\ \A g \in Generations : g <= generation => enrolled'[g] = enrolled[g]

LEMMA Monotone == TypeOK /\ [Next]_vars => Grows
<1> SUFFICES ASSUME TypeOK, [Next]_vars PROVE Grows  OBVIOUS
<1> USE DEF Grows
<1>1. CASE Control
  <2>1. CASE Query \/ CloseGeneration  BY <2>1 DEF Query, CloseGeneration
  <2>2. CASE AdmitGeneration  BY <2>2 DEF AdmitGeneration, Recorded, RecordLost
  <2>3. ASSUME NEW l \in Launches, Enroll(l) PROVE Grows
    <3>1. /\ UNCHANGED <<log, received, seen>>
          /\ \/ UNCHANGED <<generation, enrolled>>
             \/ generation' = generation + 1 /\ enrolled' = [enrolled EXCEPT ![generation + 1] = l]
      BY <2>3 DEF Enroll
    <3>2. QED  BY <3>1, AuthorityConstants DEF TypeOK, Generations
  <2>4. QED  BY <1>1, <2>1, <2>2, <2>3 DEF Control
<1>2. CASE World
  BY <1>2 DEF World, Launch, Invoke, Die, LeaseExpires, SourceChanges, authority
<1>3. ASSUME NEW h \in Handlers, Arrive(h) PROVE Grows
  BY <1>3 DEF Arrive, Refuse, Admit, Recorded, RecordLost
<1>4. ASSUME NEW h \in Handlers, Handle(h) PROVE Grows
  BY <1>4 DEF Handle, Connect, Deliver, Send, Await, Respond, Reply, Fail, Recorded, RecordLost,
              authority
<1>5. CASE UNCHANGED vars  BY <1>5 DEF vars, authority
<1>6. QED  BY <1>1, <1>2, <1>3, <1>4, <1>5 DEF Next


-----------------------------------------------------------------------------
(* Generations. *)

(* Launches and generations are used in order, and a generation that was      *)
(* replaced is dead for good.                                                 *)
Enrollment ==
  /\ \A l \in Launches : l > launched => alive[l] = {}
  /\ \A g \in Generations : g > generation => enrolled[g] = None
  /\ \A g \in Generations : g <= generation => enrolled[g] \in 1..launched
  /\ GenerationsDisjoint

LEMMA EnrollmentInit == Init => Enrollment
  BY AuthorityConstants DEF Init, Enrollment, GenerationsDisjoint, Generations

LEMMA EnrollmentStep == TypeOK /\ Enrollment /\ [Next]_vars => Enrollment'
<1> SUFFICES ASSUME TypeOK, Enrollment, [Next]_vars PROVE Enrollment'  OBVIOUS
<1> USE AuthorityConstants
<1>1. ASSUME UNCHANGED <<alive, launched, generation, enrolled>> PROVE Enrollment'
  BY <1>1 DEF Enrollment, GenerationsDisjoint
<1>2. ASSUME NEW l \in Launches, Enroll(l), Enrollable(l),
             generation' = generation + 1,
             enrolled' = [enrolled EXCEPT ![generation + 1] = l]
      PROVE  Enrollment'
  <2>1. generation + 1 \in Generations /\ generation \in Nat
    BY <1>2 DEF Enroll, TypeOK, Generations
  <2>2. UNCHANGED <<alive, launched>>  BY <1>2 DEF Enroll, world
  <2>3. \A g \in Generations : enrolled'[g] = IF g = generation + 1 THEN l ELSE enrolled[g]
    BY <1>2, <2>1 DEF TypeOK
  <2>4. l \in 1..launched /\ \A g \in Generations : g <= generation => enrolled[g] # l
    BY <1>2 DEF Enrollable, MembersObserved, Used, Enrollment, None, TypeOK
  <2>5. generation # 0 => alive[enrolled[generation]] = {}
    BY <1>2 DEF Enrollable, PreviousGone
  <2>6. \A g \in Generations : g > generation' => enrolled'[g] = None
    BY <1>2, <2>1, <2>3 DEF Enrollment, Generations
  <2>7. \A g \in Generations : g <= generation' => enrolled'[g] \in 1..launched'
    BY <1>2, <2>1, <2>2, <2>3, <2>4 DEF Enrollment, Generations
  <2>8. ASSUME NEW g \in Generations, g < generation'
        PROVE  /\ alive'[enrolled'[g]] = {}
               /\ \A k \in Generations : k # g => enrolled'[k] # enrolled'[g]
    <3>1. g <= generation /\ enrolled'[g] = enrolled[g]
      BY <1>2, <2>1, <2>3, <2>8 DEF Generations
    <3>2. alive[enrolled[g]] = {}
      BY <2>1, <2>5, <3>1 DEF Enrollment, GenerationsDisjoint, Generations
    <3>3. ASSUME NEW k \in Generations, k # g PROVE enrolled'[k] # enrolled'[g]
      <4>1. CASE k = generation + 1  BY <2>3, <2>4, <3>1, <4>1
      <4>2. CASE k > generation + 1
        BY <2>1, <2>3, <3>1, <4>2 DEF Enrollment, Generations, None, TypeOK
      <4>3. CASE k <= generation
        <5>1. enrolled'[k] = enrolled[k]  BY <2>1, <2>3, <4>3 DEF Generations
        <5>2. g < generation \/ k < generation  BY <2>1, <3>1, <3>3, <4>3 DEF Generations
        <5>3. QED  BY <3>1, <3>3, <5>1, <5>2 DEF Enrollment, GenerationsDisjoint
      <4>4. QED  BY <2>1, <4>1, <4>2, <4>3 DEF Generations
    <3>4. QED  BY <2>2, <3>1, <3>2, <3>3
  <2>9. QED  BY <2>2, <2>6, <2>7, <2>8 DEF Enrollment, GenerationsDisjoint
<1>3. CASE Launch
  <2>1. /\ launched' = launched + 1 /\ launched + 1 \in Launches
        /\ UNCHANGED <<generation, enrolled>>
        /\ \A l \in Launches : l # launched + 1 => alive'[l] = alive[l]
    BY <1>3 DEF Launch, TypeOK, Launches, authority
  <2>2. \A g \in Generations : g <= generation =>
          enrolled[g] \in Launches /\ enrolled[g] # launched + 1
    BY DEF Enrollment, TypeOK, Launches
  <2>3. QED  BY <2>1, <2>2 DEF Enrollment, GenerationsDisjoint, TypeOK, Launches, Generations
<1>4. ASSUME NEW l \in Launches, NEW m \in Members, Die(l, m) PROVE Enrollment'
  <2>1. /\ UNCHANGED <<launched, generation, enrolled>>
        /\ \A k \in Launches : alive[k] = {} => alive'[k] = {}
    BY <1>4 DEF Die, authority, TypeOK
  <2>2. \A g \in Generations : g <= generation => enrolled[g] \in Launches
    BY DEF Enrollment, TypeOK, Launches
  <2>3. QED  BY <2>1, <2>2 DEF Enrollment, GenerationsDisjoint, TypeOK, Generations
<1>5. CASE Control
  <2>1. ASSUME NEW l \in Launches, Enroll(l) PROVE Enrollment'
    BY <1>1, <1>2, <2>1 DEF Enroll, world
  <2>2. CASE Query \/ CloseGeneration \/ AdmitGeneration
    BY <1>1, <2>2 DEF Query, CloseGeneration, AdmitGeneration, world
  <2>3. QED  BY <1>5, <2>1, <2>2 DEF Control
<1>6. ASSUME NEW h \in Handlers, Arrive(h) \/ Handle(h) PROVE Enrollment'
  BY <1>1, <1>6
  DEF Arrive, Handle, Refuse, Admit, Connect, Deliver, Send, Await, Respond, Reply, Fail, world,
      authority
<1>7. CASE World
  BY <1>1, <1>3, <1>4, <1>7 DEF World, Invoke, LeaseExpires, SourceChanges, authority
<1>8. CASE UNCHANGED vars  BY <1>1, <1>8 DEF vars, world, authority
<1>9. QED  BY <1>5, <1>6, <1>7, <1>8 DEF Next

-----------------------------------------------------------------------------
(* The route. *)
LEMMA RouteStep == TypeOK /\ OpenIsCurrent /\ [Next]_vars => OpenIsCurrent'
<1> SUFFICES ASSUME TypeOK, OpenIsCurrent, [Next]_vars PROVE OpenIsCurrent'  OBVIOUS
<1> USE DEF OpenIsCurrent
<1>1. ASSUME Close PROVE OpenIsCurrent'  BY <1>1 DEF Close
<1>2. ASSUME route' \in {route, Closed}, UNCHANGED <<generation, revoked>> PROVE OpenIsCurrent'
  BY <1>2
<1>3. CASE Control
  <2>1. CASE Query \/ CloseGeneration  BY <1>1, <2>1 DEF Query, CloseGeneration
  <2>2. ASSUME NEW l \in Launches, Enroll(l) PROVE OpenIsCurrent'  BY <1>1, <2>2 DEF Enroll
  <2>3. CASE AdmitGeneration
    BY <1>1, <2>3 DEF AdmitGeneration, Recheck, Recorded, RecordLost
  <2>4. QED  BY <1>3, <2>1, <2>2, <2>3 DEF Control
<1>4. CASE World
  BY <1>2, <1>4 DEF World, Launch, Invoke, Die, LeaseExpires, SourceChanges, authority
<1>5. ASSUME NEW h \in Handlers, Arrive(h) PROVE OpenIsCurrent'
  BY <1>1, <1>2, <1>5 DEF Arrive, Refuse, Admit, Recorded, RecordLost
<1>6. ASSUME NEW h \in Handlers, Handle(h) PROVE OpenIsCurrent'
  BY <1>1, <1>2, <1>6
  DEF Handle, Connect, Deliver, Send, Await, Respond, Reply, Fail, Recorded, RecordLost, authority
<1>7. CASE UNCHANGED vars  BY <1>2, <1>7 DEF vars, authority
<1>8. QED  BY <1>3, <1>4, <1>5, <1>6, <1>7 DEF Next

-----------------------------------------------------------------------------
(* Handlers. *)

(* A handler that does not move keeps what its place says, because journal,   *)
(* receipts and old enrollments only grow.                                    *)
LEMMA HandlerKept ==
  ASSUME TypeOK, Grows, NEW h \in Handlers, HInv(h), hs'[h] = hs[h]
  PROVE  HInv(h)'
<1>1. hs[h].enr <= generation => hs[h].enr <= generation'
  BY DEF Grows, TypeOK, Handler
<1>2. Admitted(h)'  BY <1>1 DEF Grows, HInv, Admitted
<1>3. Bound(h)'  BY DEF Grows, HInv, Bound, Admitted
<1>4. Delivered(h)'  BY DEF Grows, HInv, Delivered, Admitted
<1>5. QED  BY <1>2, <1>3, <1>4 DEF HInv

(* The same for a handler that goes on to a place with no new claim.          *)
LEMMA HandlerEnds ==
  ASSUME NEW h \in Handlers, hs'[h].pc \in {"idle", "error", "done", "failed"}
  PROVE  HInv(h)'
  BY DEF HInv, Admitted, Bound, Delivered

LEMMA HandlerStep ==
  ASSUME TypeOK, TypeOK', Grows, NEW h \in Handlers, HInv(h), Arrive(h) \/ Handle(h)
  PROVE  HInv(h)' /\ \A k \in Handlers \ {h} : hs'[k] = hs[k]
<1>1. ASSUME NEW p \in Pcs, Step(h, p)
      PROVE  /\ hs'[h].pc = p /\ hs'[h].id = hs[h].id
             /\ hs'[h].enr = hs[h].enr /\ hs'[h].peer = hs[h].peer
             /\ \A k \in Handlers \ {h} : hs'[k] = hs[k]
  BY <1>1 DEF Step, TypeOK, Handler
<1>2. ASSUME Step(h, "error") \/ Step(h, "done") \/ Step(h, "failed")
      PROVE  HInv(h)' /\ \A k \in Handlers \ {h} : hs'[k] = hs[k]
  BY <1>1, <1>2, HandlerEnds DEF Pcs
<1>3. hs[h].enr <= generation => hs[h].enr <= generation'
  BY DEF Grows, TypeOK, Handler
<1>4. ASSUME NEW id \in RequestIds, Refuse(h, id)
      PROVE  HInv(h)' /\ \A k \in Handlers \ {h} : hs'[k] = hs[k]
  BY <1>2, <1>4 DEF Refuse
<1>5. ASSUME NEW id \in RequestIds, Admit(h, id)
      PROVE  HInv(h)' /\ \A k \in Handlers \ {h} : hs'[k] = hs[k]
  <2>1. generation' = generation /\ generation \in Generations
    BY <1>5, AuthorityConstants DEF Admit, Recheck, TypeOK, Generations
  <2>2. \A k \in Handlers \ {h} : hs'[k] = hs[k]  BY <1>5 DEF Admit, TypeOK
  <2>3. CASE hs'[h].pc = "error"  BY <2>2, <2>3, HandlerEnds
  <2>4. CASE hs'[h].pc # "error"
    <3>1. /\ hs'[h] = [pc |-> "connect", id |-> id, enr |-> generation, peer |-> None]
          /\ <<"admit", id, generation>> \in log'
      BY <1>5, <2>4 DEF Admit, Recorded, TypeOK
    <3>2. QED  BY <2>1, <2>2, <3>1 DEF HInv, Admitted, Bound, Delivered, TypeOK, Generations
  <2>5. QED  BY <2>3, <2>4
<1>6. CASE Connect(h)
  <2>1. CASE Step(h, "error")  BY <1>2, <2>1
  <2>2. CASE ~Step(h, "error")
    <3>1. PICK l \in Listening :
            hs' = [hs EXCEPT ![h] = [pc |-> "deliver", id |-> hs[h].id, enr |-> hs[h].enr,
                                     peer |-> l]]
      BY <1>6, <2>2 DEF Connect
    <3>2. /\ hs'[h].pc = "deliver" /\ hs'[h].id = hs[h].id /\ hs'[h].enr = hs[h].enr
          /\ \A k \in Handlers \ {h} : hs'[k] = hs[k]
      BY <3>1 DEF TypeOK
    <3>3. Admitted(h)'
      BY <1>3, <1>6, <3>2 DEF Connect, Pc, HInv, Admitted, Grows
    <3>4. QED  BY <3>2, <3>3 DEF HInv, Bound, Delivered
  <2>3. QED  BY <2>1, <2>2
<1>7. CASE Deliver(h)
  <2>1. CASE Step(h, "error")  BY <1>2, <2>1
  <2>2. CASE ~Step(h, "error")
    <3>1. /\ Deliverable(h) /\ Step(h, "send") /\ UNCHANGED <<generation, enrolled>>
          /\ <<"bound", hs[h].id, hs[h].enr>> \in log'
      BY <1>7, <2>2 DEF Deliver, Recorded
    <3>2. Admitted(h)'  BY <1>1, <1>3, <1>7, <3>1 DEF Deliver, Pc, Pcs, HInv, Admitted, Grows
    <3>3. Bound(h)'  BY <1>1, <3>1 DEF Deliverable, PeerBound, Pcs, Bound
    <3>4. Delivered(h)'  BY <1>1, <3>1 DEF Pcs, Delivered
    <3>5. QED  BY <1>1, <3>1, <3>2, <3>3, <3>4 DEF HInv, Pcs
  <2>3. QED  BY <2>1, <2>2
<1>8. CASE Send(h)
  <2>1. CASE Step(h, "error")  BY <1>2, <2>1
  <2>2. CASE ~Step(h, "error")
    <3>1. /\ Step(h, "await") /\ UNCHANGED <<generation, enrolled, log>>
          /\ <<hs[h].id, hs[h].peer>> \in received'
      BY <1>8, <2>2 DEF Send, authority
    <3>2. Admitted(h)'  BY <1>1, <1>3, <1>8, <3>1 DEF Send, Pc, Pcs, HInv, Admitted, Grows
    <3>3. Bound(h)' /\ Delivered(h)'
      BY <1>1, <1>8, <3>1 DEF Send, Pc, Pcs, HInv, Bound, Delivered
    <3>4. QED  BY <1>1, <3>1, <3>2, <3>3 DEF HInv, Pcs
  <2>3. QED  BY <2>1, <2>2
<1>9. CASE Await(h)
  <2>1. CASE Step(h, "error")  BY <1>2, <2>1
  <2>2. CASE ~Step(h, "error")
    <3>1. Step(h, "respond") /\ UNCHANGED <<generation, enrolled, log, received>>
      BY <1>9, <2>2 DEF Await, authority
    <3>2. Admitted(h)' /\ Bound(h)' /\ Delivered(h)'
      BY <1>1, <1>3, <1>9, <3>1 DEF Await, Pc, Pcs, HInv, Admitted, Bound, Delivered
    <3>3. QED  BY <1>1, <3>1, <3>2 DEF HInv, Pcs
  <2>3. QED  BY <2>1, <2>2
<1>10. CASE Respond(h)
  <2>1. CASE Step(h, "error")  BY <1>2, <2>1
  <2>2. CASE ~Step(h, "error")
    <3>1. Step(h, "reply") /\ UNCHANGED <<generation, enrolled, received>> /\ log \subseteq log'
      BY <1>10, <2>2 DEF Respond, Recorded
    <3>2. Admitted(h)' /\ Bound(h)' /\ Delivered(h)'
      BY <1>1, <1>3, <1>10, <3>1 DEF Respond, Pc, Pcs, HInv, Admitted, Bound, Delivered
    <3>3. QED  BY <1>1, <3>1, <3>2 DEF HInv, Pcs
  <2>3. QED  BY <2>1, <2>2
<1>11. CASE Reply(h)  BY <1>2, <1>11 DEF Reply
<1>12. CASE Fail(h)  BY <1>2, <1>12 DEF Fail
<1>13. QED
  BY <1>4, <1>5, <1>6, <1>7, <1>8, <1>9, <1>10, <1>11, <1>12 DEF Arrive, Handle

-----------------------------------------------------------------------------
(* Identities. *)
Undelivered == {"connect", "deliver", "send"}

(* An identity belongs to one handler until its body is delivered, and to no  *)
(* handler that could deliver it again afterwards.                            *)
Identity ==
  /\ \A d \in received : d[1] \in seen
  /\ \A h \in Handlers : hs[h].pc \in Undelivered =>
       hs[h].id \in seen /\ \A d \in received : d[1] # hs[h].id
  /\ \A h, k \in Handlers :
       hs[h].pc \in Undelivered /\ hs[k].pc \in Undelivered /\ hs[h].id = hs[k].id => h = k
  /\ \A d, e \in received : d[1] = e[1] => d = e

LEMMA IdentityStep == TypeOK /\ TypeOK' /\ Identity /\ [Next]_vars => Identity'
<1> SUFFICES ASSUME TypeOK, TypeOK', Identity, [Next]_vars PROVE Identity'  OBVIOUS
<1>1. ASSUME NEW h \in Handlers, NEW p \in Pcs, Step(h, p)
      PROVE  /\ hs'[h].pc = p /\ hs'[h].id = hs[h].id
             /\ \A k \in Handlers \ {h} : hs'[k] = hs[k]
  BY <1>1 DEF Step, TypeOK, Handler
<1>2. ASSUME NEW h \in Handlers, NEW p \in Pcs \ Undelivered, Step(h, p),
             seen \subseteq seen', received' = received
      PROVE  Identity'
  BY <1>1, <1>2 DEF Identity, Undelivered
<1>3. ASSUME UNCHANGED <<hs, received, seen>> PROVE Identity'
  BY <1>3 DEF Identity
<1>4. CASE Control
  BY <1>3, <1>4 DEF Control, Query, CloseGeneration, AdmitGeneration, Enroll
<1>5. CASE World
  BY <1>3, <1>5 DEF World, Launch, Invoke, Die, LeaseExpires, SourceChanges
<1>6. ASSUME NEW h \in Handlers, NEW id \in RequestIds, Refuse(h, id) PROVE Identity'
  BY <1>2, <1>6 DEF Refuse, Pcs, Undelivered
<1>7. ASSUME NEW h \in Handlers, NEW id \in RequestIds, Admit(h, id) PROVE Identity'
  <2>1. /\ seen' = seen \cup {id} /\ id \notin seen /\ received' = received
        /\ hs'[h].id = id
        /\ \A k \in Handlers \ {h} : hs'[k] = hs[k]
    BY <1>7 DEF Admit, TypeOK
  <2>2. QED  BY <2>1 DEF Identity
<1>8. ASSUME NEW h \in Handlers, Connect(h) PROVE Identity'
  <2>1. CASE Step(h, "error")  BY <1>2, <1>8, <2>1 DEF Connect, Pcs, Undelivered
  <2>2. CASE ~Step(h, "error")
    <3>1. PICK l \in Listening :
            hs' = [hs EXCEPT ![h] = [pc |-> "deliver", id |-> hs[h].id, enr |-> hs[h].enr,
                                     peer |-> l]]
      BY <1>8, <2>2 DEF Connect
    <3>2. /\ hs'[h].pc = "deliver" /\ hs'[h].id = hs[h].id /\ hs[h].pc = "connect"
          /\ \A k \in Handlers \ {h} : hs'[k] = hs[k]
          /\ UNCHANGED <<seen, received>>
      BY <1>8, <3>1 DEF TypeOK, Connect, Pc
    <3>3. QED  BY <3>2 DEF Identity, Undelivered
  <2>3. QED  BY <2>1, <2>2
<1>9. ASSUME NEW h \in Handlers, Deliver(h) PROVE Identity'
  <2>1. CASE Step(h, "error")  BY <1>2, <1>9, <2>1 DEF Deliver, Pcs, Undelivered
  <2>2. CASE Step(h, "send")
    <3>1. /\ hs'[h].pc = "send" /\ hs'[h].id = hs[h].id /\ hs[h].pc = "deliver"
          /\ \A k \in Handlers \ {h} : hs'[k] = hs[k]
          /\ UNCHANGED <<seen, received>>
      BY <1>1, <1>9, <2>2 DEF Deliver, Pc, Pcs
    <3>2. QED  BY <3>1 DEF Identity, Undelivered
  <2>3. QED  BY <1>9, <2>1, <2>2 DEF Deliver
<1>10. ASSUME NEW h \in Handlers, Send(h) PROVE Identity'
  <2>1. CASE received' = received
    BY <1>2, <1>10, <2>1 DEF Send, Pcs, Undelivered
  <2>2. CASE received' # received
    <3> DEFINE n == <<hs[h].id, hs[h].peer>>
    <3>1. /\ received' = received \cup {n} /\ seen' = seen
          /\ hs[h].pc = "send" /\ hs'[h].pc = "await"
          /\ \A k \in Handlers \ {h} : hs'[k] = hs[k]
      BY <1>1, <1>10, <2>2 DEF Send, Pc, Pcs
    <3>2. n[1] = hs[h].id /\ n[1] \in seen /\ \A d \in received : d[1] # n[1]
      BY <3>1 DEF Identity, Undelivered
    <3>3. \A k \in Handlers : hs'[k].pc \in Undelivered => k # h /\ hs[k].id # hs[h].id
      BY <3>1 DEF Identity, Undelivered
    <3>4. \A d \in received' : d[1] \in seen'  BY <3>1, <3>2 DEF Identity
    <3>5. \A d, e \in received' : d[1] = e[1] => d = e  BY <3>1, <3>2 DEF Identity
    <3>6. \A k \in Handlers : hs'[k].pc \in Undelivered =>
            hs'[k].id \in seen' /\ \A d \in received' : d[1] # hs'[k].id
      BY <3>1, <3>2, <3>3 DEF Identity
    <3>7. \A j, k \in Handlers :
            hs'[j].pc \in Undelivered /\ hs'[k].pc \in Undelivered /\ hs'[j].id = hs'[k].id
            => j = k
      BY <3>1, <3>3 DEF Identity
    <3>8. QED  BY <3>4, <3>5, <3>6, <3>7 DEF Identity
  <2>3. QED  BY <2>1, <2>2
<1>11. ASSUME NEW h \in Handlers, Await(h) \/ Respond(h) \/ Reply(h) \/ Fail(h) PROVE Identity'
  BY <1>2, <1>11 DEF Await, Respond, Reply, Fail, Pcs, Undelivered
<1>12. CASE UNCHANGED vars  BY <1>3, <1>12 DEF vars
<1>13. QED
  BY <1>4, <1>5, <1>6, <1>7, <1>8, <1>9, <1>10, <1>11, <1>12 DEF Next, Arrive, Handle

-----------------------------------------------------------------------------
(* The journal. *)
Journal ==
  /\ \A k \in {"admit", "bound", "complete"}, id \in RequestIds, g \in Generations :
       <<k, id, g>> \in log => g <= generation
  /\ \A d \in received : \E g \in Generations :
       <<"bound", d[1], g>> \in log /\ <<"admit", d[1], g>> \in log /\ enrolled[g] = d[2]
  /\ CompletedInOneGeneration

(* Which step writes which record.                                            *)
Writes(h) ==
  \/ log' = log
  \/ hs[h].pc = "idle" /\ log' = log \cup {<<"admit", hs'[h].id, generation>>}
  \/ hs[h].pc = "deliver" /\ log' = log \cup {<<"bound", hs[h].id, hs[h].enr>>}
  \/ hs[h].pc = "respond" /\ log' = log \cup {<<"complete", hs[h].id, hs[h].enr>>}

LEMMA HandlerWrites ==
  ASSUME TypeOK, NEW h \in Handlers, Arrive(h) \/ Handle(h)
  PROVE  /\ Writes(h)
         /\ \/ received' = received
            \/ hs[h].pc = "send" /\ received' = received \cup {<<hs[h].id, hs[h].peer>>}
         /\ UNCHANGED <<generation, enrolled>>
<1>1. ASSUME NEW id \in RequestIds, Refuse(h, id) PROVE Writes(h)
  BY <1>1 DEF Refuse, Writes
<1>2. ASSUME NEW id \in RequestIds, Admit(h, id) PROVE Writes(h)
  <2>1. hs[h].pc = "idle" /\ hs'[h].id = id  BY <1>2 DEF Admit, Pc, TypeOK
  <2>2. log' \in {log, log \cup {<<"admit", id, generation>>}}
    BY <1>2 DEF Admit, Recorded, RecordLost
  <2>3. QED  BY <2>1, <2>2 DEF Writes
<1>3. ASSUME Handle(h) PROVE Writes(h)
  <2>1. CASE Connect(h) \/ Send(h) \/ Await(h) \/ Reply(h) \/ Fail(h)
    BY <2>1 DEF Connect, Send, Await, Reply, Fail, Writes
  <2>2. CASE Deliver(h)  BY <2>2 DEF Deliver, Recorded, RecordLost, Pc, Writes
  <2>3. CASE Respond(h)  BY <2>3 DEF Respond, Recorded, RecordLost, Pc, Writes
  <2>4. QED  BY <1>3, <2>1, <2>2, <2>3 DEF Handle
<1>4. Writes(h)  BY <1>1, <1>2, <1>3 DEF Arrive
<1>5. UNCHANGED <<generation, enrolled>>
  BY DEF Arrive, Handle, Refuse, Admit, Connect, Deliver, Send, Await, Respond, Reply, Fail,
         authority
<1>6. \/ received' = received
      \/ hs[h].pc = "send" /\ received' = received \cup {<<hs[h].id, hs[h].peer>>}
  BY DEF Arrive, Handle, Refuse, Admit, Connect, Deliver, Send, Await, Respond, Reply, Fail, Pc
<1>7. QED  BY <1>4, <1>5, <1>6

LEMMA JournalStep ==
  ASSUME TypeOK, TypeOK', Grows, [Next]_vars, Journal, \A h \in Handlers : HInv(h)
  PROVE  Journal'
<1>0. generation' \in Nat /\ generation <= generation'  BY DEF Grows, TypeOK
<1>1. ASSUME log' = log, received' = received PROVE Journal'
  <2>1. \A k \in {"admit", "bound", "complete"}, id \in RequestIds, g \in Generations :
          <<k, id, g>> \in log => g <= generation'
    BY <1>0 DEF Journal, TypeOK, Generations
  <2>2. \A g \in Generations, id \in RequestIds :
          <<"bound", id, g>> \in log => enrolled'[g] = enrolled[g]
    BY DEF Journal, Grows
  <2>3. \A d \in received : d[1] \in RequestIds  BY DEF TypeOK
  <2>4. \A d \in received : \E g \in Generations :
          <<"bound", d[1], g>> \in log /\ <<"admit", d[1], g>> \in log /\ enrolled'[g] = d[2]
    BY <2>2, <2>3 DEF Journal
  <2>5. CompletedInOneGeneration'
    BY <1>1, <2>2 DEF Journal, CompletedInOneGeneration
  <2>6. QED  BY <1>1, <2>1, <2>4, <2>5 DEF Journal
<1>2. ASSUME NEW h \in Handlers, Arrive(h) \/ Handle(h) PROVE Journal'
  <2>1. /\ Writes(h)
        /\ \/ received' = received
           \/ hs[h].pc = "send" /\ received' = received \cup {<<hs[h].id, hs[h].peer>>}
        /\ UNCHANGED <<generation, enrolled>>
    BY <1>2, HandlerWrites
  <2>2. HInv(h)  OBVIOUS
  <2>3. log \subseteq log' /\ received \subseteq received'  BY DEF Grows
  <2>4. ASSUME NEW k \in {"admit", "bound", "complete"}, NEW id \in RequestIds,
               NEW g \in Generations, <<k, id, g>> \in log'
        PROVE  g <= generation'
    <3>1. CASE <<k, id, g>> \in log  BY <2>1, <3>1 DEF Journal
    <3>2. CASE <<k, id, g>> \notin log
      <4>1. g = generation \/ (g = hs[h].enr /\ hs[h].pc \in {"deliver", "respond"})
        BY <2>1, <2>4, <3>2 DEF Writes
      <4>2. QED  BY <2>1, <2>2, <4>1 DEF HInv, Admitted, TypeOK
    <3>3. QED  BY <3>1, <3>2
  <2>5. ASSUME NEW d \in received'
        PROVE  \E g \in Generations :
                 <<"bound", d[1], g>> \in log' /\ <<"admit", d[1], g>> \in log' /\ enrolled'[g] = d[2]
    <3>1. CASE d \in received  BY <2>1, <2>3, <3>1 DEF Journal
    <3>2. CASE d \notin received
      <4>1. hs[h].pc = "send" /\ d = <<hs[h].id, hs[h].peer>>  BY <2>1, <2>5, <3>2
      <4>2. d[1] = hs[h].id /\ d[2] = hs[h].peer  BY <4>1
      <4>3. QED  BY <2>1, <2>2, <2>3, <4>1, <4>2 DEF HInv, Admitted, Bound
    <3>3. QED  BY <3>1, <3>2
  <2>6. ASSUME NEW id \in RequestIds, NEW g \in Generations, <<"complete", id, g>> \in log'
        PROVE  /\ <<"admit", id, g>> \in log' /\ <<"bound", id, g>> \in log'
               /\ <<id, enrolled'[g]>> \in received'
    <3>1. CASE <<"complete", id, g>> \in log
      BY <2>1, <2>3, <3>1 DEF Journal, CompletedInOneGeneration
    <3>2. CASE <<"complete", id, g>> \notin log
      <4>1. hs[h].pc = "respond" /\ id = hs[h].id /\ g = hs[h].enr
        BY <2>1, <2>6, <3>2 DEF Writes
      <4>2. QED  BY <2>1, <2>2, <2>3, <4>1 DEF HInv, Admitted, Bound, Delivered
    <3>3. QED  BY <3>1, <3>2
  <2>7. QED  BY <2>4, <2>5, <2>6 DEF Journal, CompletedInOneGeneration
<1>3. CASE Control
  BY <1>1, <1>3 DEF Control, Query, CloseGeneration, AdmitGeneration, Enroll, Recorded, RecordLost
<1>4. CASE World
  BY <1>1, <1>4 DEF World, Launch, Invoke, Die, LeaseExpires, SourceChanges
<1>5. CASE UNCHANGED vars  BY <1>1, <1>5 DEF vars
<1>6. QED  BY <1>2, <1>3, <1>4, <1>5 DEF Next

-----------------------------------------------------------------------------
(* The inductive invariant. *)
Inv ==
  /\ TypeOK
  /\ Enrollment
  /\ OpenIsCurrent
  /\ \A h \in Handlers : HInv(h)
  /\ Identity
  /\ Journal

LEMMA InitInv == Init => Inv
<1> SUFFICES ASSUME Init PROVE Inv  OBVIOUS
<1>1. TypeOK /\ Enrollment  BY InitType, EnrollmentInit
<1>2. OpenIsCurrent  BY DEF Init, OpenIsCurrent
<1>3. \A h \in Handlers : hs[h].pc = "idle"  BY DEF Init, Resting
<1>4. \A h \in Handlers : HInv(h)  BY <1>3 DEF HInv, Admitted, Bound, Delivered
<1>5. Identity  BY <1>3 DEF Init, Identity, Undelivered
<1>6. Journal  BY DEF Init, Journal, CompletedInOneGeneration
<1>7. QED  BY <1>1, <1>2, <1>4, <1>5, <1>6 DEF Inv

LEMMA NextInv == Inv /\ [Next]_vars => Inv'
<1> SUFFICES ASSUME Inv, [Next]_vars PROVE Inv'  OBVIOUS
<1>0. TypeOK /\ \A h \in Handlers : HInv(h)  BY DEF Inv
<1>1. TypeOK'
  <2>1. CASE UNCHANGED vars  BY <1>0, <2>1 DEF vars, world, authority, TypeOK
  <2>2. QED  BY <1>0, <2>1, ControlType, WorldType, HandlerType DEF Next
<1>2. Grows  BY <1>0, Monotone
<1>3. Enrollment' /\ OpenIsCurrent' /\ Identity'
  BY <1>1, EnrollmentStep, RouteStep, IdentityStep DEF Inv
<1>4. Journal'  BY <1>0, <1>1, <1>2, JournalStep DEF Inv
<1>5. \A h \in Handlers : HInv(h)'
  <2>1. ASSUME hs' = hs PROVE \A h \in Handlers : HInv(h)'
    BY <1>0, <1>2, <2>1, HandlerKept
  <2>2. ASSUME NEW k \in Handlers, Arrive(k) \/ Handle(k) PROVE \A h \in Handlers : HInv(h)'
    <3>1. HInv(k)' /\ \A h \in Handlers \ {k} : hs'[h] = hs[h]
      BY <1>0, <1>1, <1>2, <2>2, HandlerStep
    <3>2. QED  BY <1>0, <1>2, <3>1, HandlerKept
  <2>3. CASE Control  BY <2>1, <2>3 DEF Control, Query, CloseGeneration, AdmitGeneration, Enroll
  <2>4. CASE World
    BY <2>1, <2>4 DEF World, Launch, Invoke, Die, LeaseExpires, SourceChanges
  <2>5. CASE UNCHANGED vars  BY <2>1, <2>5 DEF vars
  <2>6. QED  BY <2>2, <2>3, <2>4, <2>5 DEF Next
<1>6. QED  BY <1>1, <1>3, <1>4, <1>5 DEF Inv

LEMMA Invariance == Spec => []Inv
  BY InitInv, NextInv, PTL DEF Spec

(* Every variable of the authority keeps its type.                            *)
THEOREM TypeCorrect == Spec => []TypeOK
<1>1. Inv => TypeOK  BY DEF Inv
<1>2. QED  BY <1>1, Invariance, PTL

(* The open route is the current generation's, and a generation that was      *)
(* closed by any thread is never open again.                                  *)
THEOREM RouteSafety == Spec => []OpenIsCurrent
<1>1. Inv => OpenIsCurrent  BY DEF Inv
<1>2. QED  BY <1>1, Invariance, PTL

(* A generation is enrolled only when its predecessors are dead for good.     *)
THEOREM GenerationSafety == Spec => []GenerationsDisjoint
<1>1. Inv => GenerationsDisjoint  BY DEF Inv, Enrollment
<1>2. QED  BY <1>1, Invariance, PTL

(* A body reaches only the API process of the generation the journal bound    *)
(* the request to, once.                                                      *)
THEOREM DeliverySafety == Spec => []DeliveredToBound
<1>1. Inv => DeliveredToBound  BY DEF Inv, Journal, Identity, DeliveredToBound
<1>2. QED  BY <1>1, Invariance, PTL

(* A completed request was admitted, bound and delivered under the generation *)
(* that answered it.                                                          *)
THEOREM CompletionSafety == Spec => []CompletedInOneGeneration
<1>1. Inv => CompletedInOneGeneration  BY DEF Inv, Journal
<1>2. QED  BY <1>1, Invariance, PTL

(* A response is released only by the current, unrevoked generation, while    *)
(* its processes are alive.                                                   *)
THEOREM ReleaseSafety == Spec => ReleasedByCurrent
<1> DEFINE Release ==
      \A h \in Handlers : hs[h].pc # "reply" /\ hs'[h].pc = "reply" =>
        /\ hs[h].enr = generation /\ generation \notin revoked
        /\ hs[h].peer = enrolled[generation] /\ alive[enrolled[generation]] = Members
<1>1. ASSUME Inv, [Next]_vars PROVE [Release]_vars
  <2>1. TypeOK /\ TypeOK' /\ Grows /\ \A h \in Handlers : HInv(h)
    BY <1>1, NextInv, Monotone DEF Inv
  <2>2. CASE hs' = hs  BY <2>2
  <2>3. ASSUME NEW k \in Handlers, Arrive(k) \/ Handle(k) PROVE Release
    <3>1. \A h \in Handlers \ {k} : hs'[h] = hs[h]  BY <2>1, <2>3, HandlerStep
    <3>2. ASSUME NEW p \in Pcs, Step(k, p) PROVE hs'[k].pc = p
      BY <2>1, <3>2 DEF Step, TypeOK, Handler
    <3>3. CASE Respond(k)
      <4>1. CASE Step(k, "error")  BY <3>1, <3>2, <4>1 DEF Pcs
      <4>2. CASE ~Step(k, "error")
        BY <2>1, <3>1, <3>3, <4>2
        DEF Respond, Respondable, Recheck, MembersObserved, Pc, HInv, Bound
      <4>3. QED  BY <4>1, <4>2
    <3>4. CASE ~Respond(k)
      <4>1. hs'[k].pc # "reply"
        <5>1. ASSUME NEW id \in RequestIds, Refuse(k, id) PROVE hs'[k].pc # "reply"
          BY <3>2, <5>1 DEF Refuse, Pcs
        <5>2. ASSUME NEW id \in RequestIds, Admit(k, id) PROVE hs'[k].pc # "reply"
          BY <2>1, <5>2 DEF Admit, TypeOK
        <5>3. CASE Connect(k)
          BY <2>1, <3>2, <5>3 DEF Connect, TypeOK, Pcs
        <5>4. CASE Deliver(k) \/ Send(k) \/ Await(k) \/ Reply(k) \/ Fail(k)
          BY <3>2, <5>4 DEF Deliver, Send, Await, Reply, Fail, Pcs
        <5>5. QED  BY <2>3, <3>4, <5>1, <5>2, <5>3, <5>4 DEF Arrive, Handle
      <4>2. QED  BY <3>1, <4>1
    <3>5. QED  BY <3>3, <3>4
  <2>4. CASE Control
    BY <2>2, <2>4 DEF Control, Query, CloseGeneration, AdmitGeneration, Enroll
  <2>5. CASE World
    BY <2>2, <2>5 DEF World, Launch, Invoke, Die, LeaseExpires, SourceChanges
  <2>6. QED  BY <1>1, <2>3, <2>4, <2>5 DEF Next
<1>2. QED  BY <1>1, Invariance, PTL DEF Spec, ReleasedByCurrent

(* A generation loses its route only to an operator, to the loss of its own   *)
(* grounds, to a lost record, or to a request it admitted itself.             *)
THEOREM RouteLossSafety == Spec => RouteLossJustified
<1> DEFINE Loss ==
      route # Closed /\ route' # route =>
        \/ ~Recheck
        \/ budget' < budget
        \/ \E h \in Handlers : hs[h].pc = "error" /\ hs[h].enr = route /\ hs'[h].pc = "failed"
        \/ hs' = hs /\ lease
<1>1. ASSUME Inv, [Next]_vars PROVE [Loss]_vars
  <2>1. TypeOK /\ OpenIsCurrent  BY <1>1 DEF Inv
  <2>2. CASE Control
    BY <2>2 DEF Control, Query, CloseGeneration, AdmitGeneration, Enroll, LeaseCurrent
  <2>3. CASE World
    BY <2>3 DEF World, Launch, Invoke, Die, LeaseExpires, SourceChanges, authority
  <2>4. ASSUME NEW h \in Handlers, Arrive(h) PROVE Loss
    BY <2>1, <2>4, SpendType DEF Arrive, Refuse, Admit, Recorded, RecordLost
  <2>5. ASSUME NEW h \in Handlers, Handle(h) PROVE Loss
    <3>1. CASE Connect(h) \/ Send(h) \/ Await(h) \/ Reply(h)
      BY <3>1 DEF Connect, Send, Await, Reply, authority
    <3>2. CASE Deliver(h) \/ Respond(h)
      BY <2>1, <3>2, SpendType DEF Deliver, Respond, Recorded, RecordLost
    <3>3. CASE Fail(h)
      <4>1. hs'[h].pc = "failed" /\ hs[h].pc = "error"
        BY <2>1, <3>3 DEF Fail, Pc, Step, TypeOK, Handler
      <4>2. QED  BY <2>1, <3>3, <4>1 DEF Fail, OwnFault, OpenIsCurrent
    <3>4. QED  BY <2>5, <3>1, <3>2, <3>3 DEF Handle
  <2>6. QED  BY <1>1, <2>2, <2>3, <2>4, <2>5 DEF Next
<1>2. QED  BY <1>1, Invariance, PTL DEF Spec, RouteLossJustified

=============================================================================
