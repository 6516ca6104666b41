-------------------------- MODULE DynamicAuthority --------------------------
(***************************************************************************)
(* The dynamic backend authority and its proxy                              *)
(* (experiments/formal_campaign/h3_dynamic_authority.py): a control socket  *)
(* enrolls, admits and closes generations of a backend that is relaunched   *)
(* on one fixed loopback port, while one handler thread per request admits, *)
(* connects, delivers and answers.                                          *)
(*                                                                         *)
(* Control operations run under authority.lock and are one step each.  A    *)
(* handler takes the lock three times (admit, deliver, respond) and a       *)
(* fourth time when it fails; processes die at any moment, locked or not.   *)
(* Operations refused before they change anything are stuttering steps.     *)
(***************************************************************************)
EXTENDS Naturals

CONSTANTS
  MaxLaunch,    \* bound: Host launches; each has its own API kernel and workers
  Handlers,     \* handler threads of the proxy
  RequestIds,   \* X-ECPA-Request-ID values
  MaxGen,       \* bound: generations enrolled
  MaxFaults     \* bound: expired leases, changed sources, journal and socket failures

ASSUME AuthorityConstants ==
  /\ MaxLaunch \in Nat
  /\ MaxGen \in Nat
  /\ MaxFaults \in Nat

VARIABLES
  alive,        \* launch -> its live members
  launched,     \* the last launch; launches are numbered as they start
  invoked,      \* launches whose Host journal covers the Plan's obligations
  lease,        \* the grant has not expired
  source,       \* the registered source and Plan bytes are the actual ones
  route,        \* self.route: the open generation, or Closed
  generation,   \* self.generation, also the generation of self.enrollment
  enrolled,     \* generation -> the launch it enrolled (the used_* sets)
  revoked,      \* revoked_enrollments, by generation
  seen,         \* seen_request_ids
  log,          \* the request records of the authority journal
  hs,           \* handler -> its place and local variables
  lock,         \* authority.lock: the handler that holds it across steps
  received,     \* bodies that reached an API process
  budget        \* faults still to come

world == <<alive, launched, invoked, lease, source>>
authority == <<route, generation, enrolled, revoked>>
vars == <<world, authority, seen, log, hs, lock, received, budget>>

-----------------------------------------------------------------------------
Members == {"api", "worker"}
Closed == 0
None == 0
Launches == 1..MaxLaunch
Free == "free"
Generations == 1..MaxGen

Pcs == {"idle", "connect", "deliver", "send", "await", "respond", "reply",
        "error", "done", "failed"}
Handler == [pc: Pcs, id: RequestIds \cup {None}, enr: 0..MaxGen,
            peer: Launches \cup {None}]
Resting == [pc |-> "idle", id |-> None, enr |-> 0, peer |-> None]

Records == {"admit", "bound", "complete"} \X RequestIds \X Generations

Spend == budget > 0 /\ budget' = budget - 1
Unlocked == lock = Free
Used == {enrolled[g] : g \in Generations} \ {None}
Listening == {l \in Launches : "api" \in alive[l]}

(* _lease: the writer's fence is right and the grant has not expired.         *)
LeaseCurrent == lease

(* _source_current: registered bytes and installed bindings are unchanged.     *)
SourceCurrent == source

(* _observe_members: the supplied members are the live kernel processes they   *)
(* were, distinct, of one launch and named by its Host journal.                *)
MembersObserved(l) == l \in 1..launched /\ alive[l] = Members

(* observe_backend: the launch's API owns the listening socket.                *)
ListenerObserved(l) == l \in Listening

(* _plan_and_obligations: every obligation of the Plan was invoked.            *)
ObligationsCovered(l) == l \in invoked

(* _recheck: everything an open route rests on.                                *)
RecheckUnrevoked ==                                        \* mutant
  /\ LeaseCurrent /\ SourceCurrent
  /\ generation # 0
  /\ MembersObserved(enrolled[generation])
  /\ ListenerObserved(enrolled[generation])
  /\ ObligationsCovered(enrolled[generation])

Recheck ==
  /\ LeaseCurrent /\ SourceCurrent
  /\ generation # 0
  /\ generation \notin revoked
  /\ MembersObserved(enrolled[generation])
  /\ ListenerObserved(enrolled[generation])
  /\ ObligationsCovered(enrolled[generation])

(* _close: the route closes and the current enrollment, if any, is revoked.    *)
Close ==
  /\ route' = Closed
  /\ revoked' = revoked \cup ({generation} \ {0})

(* _record of the records rs next to a route that is about to become g.  An   *)
(* OSError closes the route, and when fsync raised it the line may be in the  *)
(* file all the same; a full journal raises GateError, which _record does not *)
(* catch.                                                                     *)
Recorded(rs, g) == route' = g /\ log' = log \cup rs /\ budget' = budget
RecordLost(rs, g) == route' \in {g, Closed} /\ log' \in {log, log \cup rs} /\ Spend

-----------------------------------------------------------------------------
(* apply(): the control socket. *)

(* query: _refresh_candidate closes a route that lost its grounds.            *)
Query ==
  /\ Unlocked
  /\ route # Closed /\ ~Recheck
  /\ Close
  /\ UNCHANGED <<world, generation, enrolled, seen, log, hs, lock, received, budget>>

(* close_generation with the expected generation.                             *)
CloseGeneration ==
  /\ Unlocked /\ LeaseCurrent
  /\ Close
  /\ UNCHANGED <<world, generation, enrolled, seen, log, hs, lock, received, budget>>

(* enroll_generation: the old generation is closed first, whatever follows;   *)
(* then every check, and the new enrollment with its record.                  *)
PreviousApiGone == generation # 0 => "api" \notin alive[enrolled[generation]]   \* mutant
PreviousGone == generation # 0 => alive[enrolled[generation]] = {}

Enrollable(l) ==
  /\ SourceCurrent
  /\ PreviousGone
  /\ MembersObserved(l) /\ ListenerObserved(l)
  /\ l \notin Used

Enroll(l) ==
  /\ Unlocked /\ LeaseCurrent
  /\ generation < MaxGen
  /\ Close
  /\ \/ /\ Enrollable(l)
        /\ generation' = generation + 1
        /\ enrolled' = [enrolled EXCEPT ![generation + 1] = l]
        /\ budget' = budget \/ Spend            \* its record may be lost
     \/ /\ \/ ~Enrollable(l) /\ budget' = budget
           \/ Spend                            \* the record of the close is lost
        /\ UNCHANGED <<generation, enrolled>>
  /\ UNCHANGED <<world, seen, log, hs, lock, received>>

(* admit_generation for the current generation and membership.                *)
AdmitGeneration ==
  /\ Unlocked /\ LeaseCurrent
  /\ generation # 0
  /\ \/ /\ Recheck
        /\ Recorded({}, generation) \/ RecordLost({}, generation)
        /\ revoked' = revoked
     \/ ~Recheck /\ Close /\ UNCHANGED <<log, budget>>
  /\ UNCHANGED <<world, generation, enrolled, seen, hs, lock, received>>

-----------------------------------------------------------------------------
(* _forward: one request. *)
Pc(h, p) == hs[h].pc = p
Step(h, p) == hs' = [hs EXCEPT ![h].pc = p]

(* The first locked section: the identity is new, the route is refreshed and  *)
(* still open, the admission is recorded.  A request that is not admitted     *)
(* fails without an enrollment, so it revokes nothing.                        *)
Refuse(h, id) ==
  /\ Pc(h, "idle") /\ Unlocked
  /\ \/ id \in seen /\ UNCHANGED <<route, revoked, seen>>
     \/ /\ id \notin seen
        /\ seen' = seen \cup {id}
        /\ \/ route = Closed /\ UNCHANGED <<route, revoked>>
           \/ route # Closed /\ ~Recheck /\ Close
  /\ Step(h, "failed")
  /\ UNCHANGED <<world, generation, enrolled, log, lock, received, budget>>

Admit(h, id) ==
  /\ Pc(h, "idle") /\ Unlocked
  /\ id \notin seen
  /\ seen' = seen \cup {id}
  /\ route # Closed /\ Recheck
  /\ \/ /\ Recorded({<<"admit", id, generation>>}, route)
        /\ hs' = [hs EXCEPT ![h] = [pc |-> "connect", id |-> id, enr |-> generation,
                                    peer |-> None]]
     \/ /\ RecordLost({<<"admit", id, generation>>}, route)
        /\ hs' = [hs EXCEPT ![h] = [pc |-> "error", id |-> id, enr |-> generation,
                                    peer |-> None]]
  /\ UNCHANGED <<world, generation, enrolled, revoked, lock, received>>

(* connect(): whichever process accepts on the port, without the lock.        *)
Connect(h) ==
  /\ Pc(h, "connect")
  /\ \/ /\ \E l \in Listening :
             hs' = [hs EXCEPT ![h] = [pc |-> "deliver", id |-> hs[h].id, enr |-> hs[h].enr,
                                      peer |-> l]]
        /\ budget' = budget
     \/ Listening = {} /\ Step(h, "error") /\ budget' = budget
     \/ Step(h, "error") /\ Spend
  /\ UNCHANGED <<world, authority, seen, log, lock, received>>

(* accepted_api_socket: the peer's socket belongs to the admitted API kernel. *)
PeerAssumed(h) == hs[h].peer \in Launches                  \* mutant
PeerBound(h) == hs[h].peer = enrolled[hs[h].enr]

Deliverable(h) ==
  /\ generation = hs[h].enr
  /\ route = hs[h].enr
  /\ Recheck
  /\ PeerBound(h)

(* mutant: the handler goes on when the peer-bound record is lost.             *)
DeliverUnrecorded(h) ==
  /\ Pc(h, "deliver") /\ Unlocked
  /\ \/ /\ Deliverable(h)
        /\ \/ Recorded({<<"bound", hs[h].id, hs[h].enr>>}, route)
           \/ RecordLost({<<"bound", hs[h].id, hs[h].enr>>}, route)
        /\ Step(h, "send")
        /\ lock' = h
     \/ /\ ~Deliverable(h)
        /\ Step(h, "error")
        /\ UNCHANGED <<route, log, lock, budget>>
  /\ UNCHANGED <<world, generation, enrolled, revoked, seen, received>>

(* The second locked section: every check, the peer-bound record, the write.  *)
Deliver(h) ==
  /\ Pc(h, "deliver") /\ Unlocked
  /\ \/ /\ Deliverable(h)
        /\ Recorded({<<"bound", hs[h].id, hs[h].enr>>}, route)
        /\ Step(h, "send")
        /\ lock' = h
     \/ /\ Deliverable(h)
        /\ RecordLost({<<"bound", hs[h].id, hs[h].enr>>}, route)
        /\ Step(h, "error")
        /\ UNCHANGED lock
     \/ /\ ~Deliverable(h)
        /\ Step(h, "error")
        /\ UNCHANGED <<route, log, lock, budget>>
  /\ UNCHANGED <<world, generation, enrolled, revoked, seen, received>>

(* mutant: a failed write leaves the lock taken.                               *)
SendKeepsLock(h) ==
  /\ Pc(h, "send")
  /\ \/ /\ hs[h].peer \in Listening
        /\ lock' = Free
        /\ received' = received \cup {<<hs[h].id, hs[h].peer>>}
        /\ Step(h, "await")
     \/ /\ hs[h].peer \notin Listening
        /\ UNCHANGED <<lock, received>>
        /\ Step(h, "error")
  /\ UNCHANGED <<world, authority, seen, log, budget>>

Send(h) ==
  /\ Pc(h, "send")
  /\ lock' = Free
  /\ \/ /\ hs[h].peer \in Listening
        /\ received' = received \cup {<<hs[h].id, hs[h].peer>>}
        /\ Step(h, "await")
     \/ /\ hs[h].peer \notin Listening
        /\ received' = received
        /\ Step(h, "error")
  /\ UNCHANGED <<world, authority, seen, log, budget>>

(* getresponse(): an answer, or a dead peer, or the timeout.                  *)
Await(h) ==
  /\ Pc(h, "await")
  /\ \/ hs[h].peer \in Listening /\ Step(h, "respond") /\ budget' = budget
     \/ hs[h].peer \notin Listening /\ Step(h, "error") /\ budget' = budget
     \/ Step(h, "error") /\ Spend
  /\ UNCHANGED <<world, authority, seen, log, lock, received>>

(* The third locked section: the response is released only if the enrollment  *)
(* is still the one that admitted the request and still has its grounds.      *)
RespondAny(h) == hs[h].enr # 0 /\ Recheck                 \* mutant
Respondable(h) == generation = hs[h].enr /\ Recheck

Respond(h) ==
  /\ Pc(h, "respond") /\ Unlocked
  /\ \/ /\ Respondable(h)
        /\ Recorded({<<"complete", hs[h].id, hs[h].enr>>}, route)
        /\ Step(h, "reply")
     \/ /\ Respondable(h)
        /\ RecordLost({<<"complete", hs[h].id, hs[h].enr>>}, route)
        /\ Step(h, "error")
     \/ /\ ~Respondable(h)
        /\ Step(h, "error")
        /\ UNCHANGED <<route, log, budget>>
  /\ UNCHANGED <<world, generation, enrolled, revoked, seen, lock, received>>

(* The answer is written to the client without the lock; a client that went   *)
(* away raises into the same except clause as a backend that failed.          *)
Reply(h) ==
  /\ Pc(h, "reply")
  /\ \/ Step(h, "done") /\ budget' = budget
     \/ Step(h, "error") /\ Spend
  /\ UNCHANGED <<world, authority, seen, log, lock, received>>

(* The except clause: a failed request revokes the enrollment that admitted   *)
(* it, and no other.                                                          *)
OwnFault(h) == hs[h].enr = generation

Fail(h) ==
  /\ Pc(h, "error") /\ Unlocked
  /\ IF OwnFault(h) THEN Close ELSE UNCHANGED <<route, revoked>>
  /\ Step(h, "failed")
  /\ UNCHANGED <<world, generation, enrolled, seen, log, lock, received, budget>>

-----------------------------------------------------------------------------
(* The world outside the authority. *)
(* Nothing in the authority keeps a second launch from listening on the port  *)
(* beside the first.                                                          *)
Launch ==
  /\ launched < MaxLaunch
  /\ launched' = launched + 1
  /\ alive' = [alive EXCEPT ![launched + 1] = Members]
  /\ UNCHANGED <<invoked, lease, source, authority, seen, log, hs, lock, received, budget>>

Invoke(l) ==
  /\ alive[l] # {} /\ l \notin invoked
  /\ invoked' = invoked \cup {l}
  /\ UNCHANGED <<alive, launched, lease, source, authority, seen, log, hs, lock, received, budget>>

Die(l, m) ==
  /\ m \in alive[l]
  /\ alive' = [alive EXCEPT ![l] = @ \ {m}]
  /\ UNCHANGED <<launched, invoked, lease, source, authority, seen, log, hs, lock, received, budget>>

LeaseExpires ==
  /\ lease /\ Spend
  /\ lease' = FALSE
  /\ UNCHANGED <<alive, launched, invoked, source, authority, seen, log, hs, lock, received>>

SourceChanges ==
  /\ Spend
  /\ source' = ~source
  /\ UNCHANGED <<alive, launched, invoked, lease, authority, seen, log, hs, lock, received>>

-----------------------------------------------------------------------------
Init ==
  /\ alive = [l \in Launches |-> {}]
  /\ launched = 0
  /\ invoked = {}
  /\ lease = TRUE
  /\ source = TRUE
  /\ route = Closed
  /\ generation = 0
  /\ enrolled = [g \in Generations |-> None]
  /\ revoked = {}
  /\ seen = {}
  /\ log = {}
  /\ hs = [h \in Handlers |-> Resting]
  /\ lock = Free
  /\ received = {}
  /\ budget = MaxFaults

Control == Query \/ CloseGeneration \/ AdmitGeneration \/ \E l \in Launches : Enroll(l)

Arrive(h) == \E id \in RequestIds : Refuse(h, id) \/ Admit(h, id)
Handle(h) == Connect(h) \/ Deliver(h) \/ Send(h) \/ Await(h) \/ Respond(h)
             \/ Reply(h) \/ Fail(h)

World ==
  \/ Launch
  \/ \E l \in Launches : Invoke(l) \/ \E m \in Members : Die(l, m)
  \/ LeaseExpires \/ SourceChanges

Next == Control \/ World \/ \E h \in Handlers : Arrive(h) \/ Handle(h)

Spec == Init /\ [][Next]_vars

(* Fairness: a handler thread that was admitted keeps running; every wait of  *)
(* it is bounded by a socket timeout.                                         *)
FairSpec == Spec /\ \A h \in Handlers : WF_vars(Handle(h))

-----------------------------------------------------------------------------
(* Properties. *)

(* Every variable holds a value of its type.                                  *)
TypeOK ==
  /\ alive \in [Launches -> SUBSET Members]
  /\ launched \in 0..MaxLaunch
  /\ invoked \subseteq Launches
  /\ lease \in BOOLEAN
  /\ source \in BOOLEAN
  /\ route \in 0..MaxGen
  /\ generation \in 0..MaxGen
  /\ enrolled \in [Generations -> Launches \cup {None}]
  /\ revoked \subseteq Generations
  /\ seen \subseteq RequestIds
  /\ log \subseteq Records
  /\ hs \in [Handlers -> Handler]
  /\ lock \in Handlers \cup {Free}
  /\ received \subseteq RequestIds \X Launches
  /\ budget \in Nat

(* An open route is the current generation's, and a generation that was ever  *)
(* closed, by whichever thread, is not open and is never opened again.        *)
OpenIsCurrent == route # Closed => route = generation /\ route \notin revoked

(* Generations do not overlap: when one is enrolled every process of every    *)
(* earlier one is dead, stays dead, and its launch is not enrolled again.     *)
GenerationsDisjoint ==
  \A g \in Generations : g < generation =>
    /\ alive[enrolled[g]] = {}
    /\ \A k \in Generations : k # g => enrolled[k] # enrolled[g]

(* A body reaches at most one process, and only the API of the generation the *)
(* journal bound the request to, whoever listens on the port meanwhile.       *)
DeliveredToBound ==
  \A d \in received :
    /\ \E g \in Generations :
         <<"bound", d[1], g>> \in log /\ <<"admit", d[1], g>> \in log /\ enrolled[g] = d[2]
    /\ \A e \in received : e[1] = d[1] => e = d

(* The journal tells one story of a completed request: it was admitted, bound *)
(* and delivered under the generation that answered it.                       *)
CompletedInOneGeneration ==
  \A id \in RequestIds, g \in Generations :
    <<"complete", id, g>> \in log =>
      /\ <<"admit", id, g>> \in log /\ <<"bound", id, g>> \in log
      /\ <<id, enrolled[g]>> \in received

(* A response is released only by a generation that is current, unrevoked and *)
(* whose processes the recheck found alive, and its peer is that generation's. *)
ReleasedByCurrent ==
  [][\A h \in Handlers : hs[h].pc # "reply" /\ hs'[h].pc = "reply" =>
       /\ hs[h].enr = generation /\ generation \notin revoked
       /\ hs[h].peer = enrolled[generation] /\ alive[enrolled[generation]] = Members]_vars

(* A generation loses its route only to an operator's close or enrollment     *)
(* under a valid lease, to the loss of its own grounds, to a lost journal     *)
(* record, or to the failure of a request it admitted itself: no leftover of  *)
(* an older generation closes a replacement.                                  *)
RouteLossJustified ==
  [][route # Closed /\ route' # route =>
       \/ ~Recheck
       \/ budget' < budget
       \/ \E h \in Handlers : hs[h].pc = "error" /\ hs[h].enr = route /\ hs'[h].pc = "failed"
       \/ hs' = hs /\ lease]_vars

(* Every admitted request comes to an end, answered or failed: no handler     *)
(* keeps the lock or waits for it for ever.                                   *)
RequestsEnd == \A h \in Handlers : hs[h].pc = "connect" ~> hs[h].pc \in {"done", "failed"}

=============================================================================
