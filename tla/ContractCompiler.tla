--------------------------- MODULE ContractCompiler ---------------------------
(***************************************************************************)
(* compile_contracts() of contract_compiler.py: declarative contracts are   *)
(* resolved into one plan, stage by stage, the topological sort one pop at a *)
(* time.  Every stage may reject; a rejected input has no plan.  A plan is   *)
(* compiled once more from its own contracts, without the taxonomy, before   *)
(* it is used (compile_native_semantic_plan of semantic_obligations.py).     *)
(*                                                                         *)
(* Extension ids, capability and resource names are numbers in the order the *)
(* code sorts them; a version range is the set of versions it admits.  Of an *)
(* obligation the columns are kept that authority and binding look at.       *)
(***************************************************************************)
EXTENDS Naturals, Sequences, FiniteSets

CONSTANTS
  Inputs,        \* sequences of parsed contracts, in the order they are listed
  Canonical,     \* taxonomy: known resource name -> canonical name
  AllowedModes   \* taxonomy: canonical name -> modes

VARIABLES
  input,         \* contracts: what this pass compiles
  strict,        \* resource_taxonomy is not None
  pass,          \* 1, or 2 for the check of a compiled plan
  stage,         \* the function compile_contracts is in
  verdict,       \* the error code, "accepted", or none yet
  claims,        \* the resource claims of all contracts, normalized
  bindings,      \* CapabilityBindings
  indegree,      \* _order_contracts: requirements not ordered yet
  ready,         \* _order_contracts: the heap
  ordered,       \* _order_contracts: the ids placed so far
  ownership,     \* ResourceOwnership
  duties,        \* ObligationBindings
  plan           \* the plan of the first pass

work == <<claims, bindings, indegree, ready, ordered, ownership, duties>>
vars == <<input, strict, pass, stage, verdict, work, plan>>

-----------------------------------------------------------------------------
Pending == "pending"
Accepted == "accepted"
Stages == {"check", "normalize", "authority", "resolve", "order", "resources", "bind", "done"}
None == 0

Contracts == {input[i] : i \in 1..Len(input)}
Ids == {c.id : c \in Contracts}
ById(e) == CHOOSE c \in Contracts : c.id = e

(* ExtensionContract, and what parse_contract knows of one.                     *)
RuntimeEvents == {"loaded", "invoked", "selected-kv-native-arguments-completed"}
ResourceModes == {"exclusive", "shared-read", "mediated"}

Capability == [name: Nat, version: Nat]
Need == [name: Nat, range: SUBSET Nat]
Resource == [name: Nat, mode: ResourceModes, mediator: Nat]
Obligation == [event: STRING, authority: STRING, direction: {"provides", "requires"},
               capability: Nat]
Contract == [id: Nat \ {None}, host: BOOLEAN, provides: SUBSET Capability, requires: SUBSET Need,
             resources: SUBSET Resource, obligations: SUBSET Obligation, grants: SUBSET Obligation]

UniqueNames(S) == \A x, y \in S : x.name = y.name => x = y
RuntimeOnly(O) == \A o \in O : o.event \in RuntimeEvents => o.authority = "runtime"
OfDeclared(c, o) ==
  o.capability \in {x.name : x \in IF o.direction = "provides" THEN c.provides ELSE c.requires}

Parsed(c) ==
  /\ c \in Contract
  /\ IsFiniteSet(c.provides) /\ IsFiniteSet(c.requires) /\ IsFiniteSet(c.resources)
  /\ UniqueNames(c.provides) /\ UniqueNames(c.requires) /\ UniqueNames(c.resources)
  /\ \A x \in c.resources : x.mode = "mediated" <=> x.mediator # None
  /\ c.obligations # {}
  /\ RuntimeOnly(c.obligations) /\ RuntimeOnly(c.grants)
  /\ \A o \in c.obligations \cup c.grants : OfDeclared(c, o)

(* parse_contract_taxonomy: names are unique, so that a canonical name is its   *)
(* own; every resource has modes.                                             *)
TaxonomyParsed ==
  /\ DOMAIN Canonical \subseteq Nat
  /\ \A n \in DOMAIN Canonical : Canonical[n] \in DOMAIN Canonical /\ Canonical[Canonical[n]] = Canonical[n]
  /\ \A n \in DOMAIN Canonical : Canonical[n] \in DOMAIN AllowedModes
  /\ \A n \in DOMAIN AllowedModes : AllowedModes[n] # {} /\ AllowedModes[n] \subseteq ResourceModes

ASSUME CompilerConstants ==
  /\ TaxonomyParsed
  /\ Inputs \subseteq Seq(Contract)
  /\ \A s \in Inputs : \A i \in 1..Len(s) : Parsed(s[i])

Reject(code) ==
  /\ verdict' = code
  /\ stage' = "done"
  /\ UNCHANGED <<input, strict, pass, work, plan>>

Goto(s) ==
  /\ stage' = s
  /\ UNCHANGED <<input, strict, pass, verdict, plan>>

-----------------------------------------------------------------------------
(* compile_contracts, the checks of the input as a whole.                      *)
Duplicated == \E i, j \in 1..Len(input) : i # j /\ input[i].id = input[j].id
HostFits == \A c \in Contracts : c.host

Check ==
  /\ stage = "check"
  /\ \/ Len(input) = 0 /\ Reject("INVALID_CONTRACT")
     \/ Len(input) # 0 /\ Duplicated /\ Reject("DUPLICATE_PLUGIN")
     \/ Len(input) # 0 /\ ~Duplicated /\ ~HostFits /\ Reject("INCOMPATIBLE_HOST")
     \/ Len(input) # 0 /\ ~Duplicated /\ HostFits /\ Goto("normalize") /\ UNCHANGED work

(* _normalize_taxonomy_resources: aliases become canonical names.              *)
Claim(c, x) ==
  [owner |-> c.id, declared |-> x.name, name |-> x.name, mode |-> x.mode, mediator |-> x.mediator]
Declared == UNION {{Claim(c, x) : x \in c.resources} : c \in Contracts}

Known(n) == n \in DOMAIN Canonical
Normalized(x) == [x EXCEPT !.name = Canonical[x.declared]]

Normalize ==
  /\ stage = "normalize"
  /\ \/ /\ strict /\ \E x \in Declared : ~Known(x.name)
        /\ Reject("UNKNOWN_RESOURCE")
     \/ /\ strict /\ \A x \in Declared : Known(x.name)
        /\ \E x \in Declared : x.mode \notin AllowedModes[Canonical[x.name]]
        /\ Reject("INVALID_RESOURCE_MODE")
     \/ /\ strict /\ \A x \in Declared : Known(x.name) /\ x.mode \in AllowedModes[Canonical[x.name]]
        /\ claims' = {Normalized(x) : x \in Declared}
        /\ Goto("authority")
        /\ UNCHANGED <<bindings, indegree, ready, ordered, ownership, duties>>
     \/ /\ ~strict
        /\ claims' = Declared
        /\ Goto("authority")
        /\ UNCHANGED <<bindings, indegree, ready, ordered, ownership, duties>>

(* _validate_obligation_authority: a contract grants what it obliges.          *)
Authority ==
  /\ stage = "authority"
  /\ LET granted == \A c \in Contracts : c.obligations \subseteq c.grants IN
       \/ ~granted /\ Reject("AUTHORITY_VIOLATION")
       \/ granted /\ Goto("resolve") /\ UNCHANGED work

-----------------------------------------------------------------------------
(* _resolve_capabilities: each requirement, by consumer and name, must match   *)
(* exactly one provision; the first that does not decides the error.           *)
Requirements == UNION {{[consumer |-> c.id, name |-> r.name, range |-> r.range] : r \in c.requires} :
                         c \in Contracts}
Provisions == UNION {{[provider |-> c.id, name |-> p.name, version |-> p.version] : p \in c.provides} :
                       c \in Contracts}

Candidates(r) == {p \in Provisions : p.name = r.name}
Compatible(r) == {p \in Candidates(r) : p.version \in r.range}
Bad(r) == Cardinality(Compatible(r)) # 1

Before(r, s) == r.consumer < s.consumer \/ (r.consumer = s.consumer /\ r.name < s.name)
FirstBad == CHOOSE r \in Requirements :
              Bad(r) /\ \A s \in Requirements : Bad(s) /\ s # r => Before(r, s)
CodeOf(r) == IF Compatible(r) # {} THEN "AMBIGUOUS_CAPABILITY"
             ELSE IF Candidates(r) # {} THEN "INCOMPATIBLE_CAPABILITY" ELSE "MISSING_CAPABILITY"

Bind(r) == LET p == CHOOSE p \in Compatible(r) : TRUE IN
             [consumer |-> r.consumer, name |-> r.name, provider |-> p.provider, version |-> p.version]

(* The dependencies: an extension that needs its own capability needs nobody.  *)
Dependencies(e) == {b.provider : b \in {x \in bindings : x.consumer = e /\ x.provider # e}}

Resolve ==
  /\ stage = "resolve"
  /\ \/ /\ \E r \in Requirements : Bad(r)
        /\ Reject(CodeOf(FirstBad))
     \/ /\ \A r \in Requirements : ~Bad(r)
        /\ bindings' = {Bind(r) : r \in Requirements}
        /\ indegree' = [e \in Ids |-> Cardinality(Dependencies(e)')]
        /\ ready' = {e \in Ids : indegree'[e] = 0}
        /\ Goto("order")
        /\ UNCHANGED <<claims, ordered, ownership, duties>>

(* _order_contracts: the smallest id that waits for nobody comes next.         *)
HeapPopLast(S) == CHOOSE e \in S : \A f \in S : f <= e      \* mutant
HeapPop(S) == CHOOSE e \in S : \A f \in S : e <= f

Pop ==
  /\ stage = "order" /\ ready # {}
  /\ LET e == HeapPop(ready)
         dependents == {d \in Ids : e \in Dependencies(d)}
     IN /\ ordered' = Append(ordered, e)
        /\ indegree' = [d \in Ids |-> IF d \in dependents THEN indegree[d] - 1 ELSE indegree[d]]
        /\ ready' = (ready \ {e}) \cup {d \in dependents : indegree'[d] = 0}
  /\ UNCHANGED <<input, strict, pass, stage, verdict, claims, bindings, ownership, duties, plan>>

OrderEnds ==
  /\ stage = "order" /\ ready = {}
  /\ \/ Len(ordered) # Len(input) /\ Reject("DEPENDENCY_CYCLE")
     \/ Len(ordered) = Len(input) /\ Goto("resources") /\ UNCHANGED work

-----------------------------------------------------------------------------
(* _resolve_resources: all modes first, then the mediators.                    *)
On(n) == {x \in claims : x.name = n}
Names == {x.name : x \in claims}
Owners(n) == {x.owner : x \in On(n)}
Modes(n) == {x.mode : x \in On(n)}
Mediators(n) == {x.mediator : x \in On(n)}

ModeErrorByMode(n) ==                                      \* mutant
  Cardinality(On(n)) > 1 /\ Modes(n) \notin {{"shared-read"}, {"mediated"}}
ModeError(n) ==
  \/ Cardinality(On(n)) # Cardinality(Owners(n))
  \/ Cardinality(On(n)) > 1 /\ Modes(n) \notin {{"shared-read"}, {"mediated"}}
Inconsistent(n) == Modes(n) = {"mediated"} /\ Cardinality(Mediators(n)) # 1
Unattended(n) == Modes(n) = {"mediated"} /\ \E m \in Mediators(n) : m \notin Owners(n)

Owned(n) == [resource |-> n, mode |-> CHOOSE m \in Modes(n) : TRUE, owners |-> Owners(n),
             mediator |-> CHOOSE m \in Mediators(n) : TRUE]

Resources ==
  /\ stage = "resources"
  /\ \/ /\ \E n \in Names : ModeError(n) \/ Inconsistent(n)
        /\ Reject("RESOURCE_CONFLICT")
     \/ /\ \A n \in Names : ~ModeError(n) /\ ~Inconsistent(n)
        /\ \E n \in Names : Unattended(n)
        /\ Reject("AUTHORITY_VIOLATION")
     \/ /\ \A n \in Names : ~ModeError(n) /\ ~Inconsistent(n) /\ ~Unattended(n)
        /\ ownership' = {Owned(n) : n \in Names}
        /\ Goto("bind")
        /\ UNCHANGED <<claims, bindings, indegree, ready, ordered, duties>>

(* _bind_obligations, and the plan.                                            *)
Provider(c, o) ==
  IF o.direction = "provides" THEN c.id
  ELSE (CHOOSE b \in bindings : b.consumer = c.id /\ b.name = o.capability).provider

Compiled == [claims |-> {[owner |-> x.owner, name |-> x.name, mode |-> x.mode,
                          mediator |-> x.mediator] : x \in claims},
             order |-> ordered, bindings |-> bindings, ownership |-> ownership, duties |-> duties]
NoPlan == [order |-> << >>]

BindObligations ==
  /\ stage = "bind"
  /\ duties' = UNION {{[id |-> c.id, obligation |-> o, provider |-> Provider(c, o)] :
                         o \in c.obligations} : c \in Contracts}
  /\ verdict' = Accepted
  /\ stage' = "done"
  /\ UNCHANGED <<input, strict, pass, claims, bindings, indegree, ready, ordered, ownership, plan>>

-----------------------------------------------------------------------------
(* compile_native_semantic_plan compiles the ordered contracts of a plan again, *)
(* with the resource names the first pass gave them and without a taxonomy.     *)
RenamedNot(c) == c                                         \* mutant
Renamed(c) ==
  [c EXCEPT !.resources = {[name |-> x.name, mode |-> x.mode, mediator |-> x.mediator] :
                             x \in {y \in claims : y.owner = c.id}}]

Recompile ==
  /\ stage = "done" /\ verdict = Accepted /\ pass = 1
  /\ plan' = Compiled
  /\ input' = [i \in 1..Len(ordered) |-> Renamed(ById(ordered[i]))]
  /\ strict' = FALSE
  /\ pass' = 2
  /\ stage' = "check"
  /\ verdict' = Pending
  /\ claims' = {} /\ bindings' = {} /\ indegree' = << >> /\ ready' = {}
  /\ ordered' = << >> /\ ownership' = {} /\ duties' = {}

-----------------------------------------------------------------------------
Init ==
  /\ input \in Inputs
  /\ strict \in BOOLEAN
  /\ pass = 1
  /\ stage = "check"
  /\ verdict = Pending
  /\ claims = {} /\ bindings = {} /\ indegree = << >> /\ ready = {}
  /\ ordered = << >> /\ ownership = {} /\ duties = {}
  /\ plan = NoPlan

Next ==
  \/ Check \/ Normalize \/ Authority \/ Resolve \/ Pop \/ OrderEnds \/ Resources
  \/ BindObligations \/ Recompile

Spec == Init /\ [][Next]_vars

-----------------------------------------------------------------------------
(* Properties: what a compilation means, stated on the contracts alone.        *)

(* Every variable holds a value of its type.                                  *)
TypeOK ==
  /\ strict \in BOOLEAN /\ pass \in {1, 2} /\ stage \in Stages
  /\ ready \subseteq Ids
  /\ ordered \in Seq(Ids)
  /\ stage = "done" <=> verdict # Pending

Canon(n) == IF strict /\ Known(n) THEN Canonical[n] ELSE n
ClaimPairs == UNION {{<<c, x>> : x \in c.resources} : c \in Contracts}

(* e needs something that f brings, in a version it takes.                    *)
Meets(f, r) == \E p \in f.provides : p.name = r.name /\ p.version \in r.range
DependsOn(e, f) == e # f /\ \E r \in ById(e).requires : Meets(ById(f), r)

Unmet(r) == \/ \A f \in Contracts : ~Meets(f, r)
            \/ \E f, g \in Contracts : f # g /\ Meets(f, r) /\ Meets(g, r)
UnmetCode(r) ==
  IF \E f \in Contracts : Meets(f, r) THEN "AMBIGUOUS_CAPABILITY"
  ELSE IF \E f \in Contracts : \E p \in f.provides : p.name = r.name THEN "INCOMPATIBLE_CAPABILITY"
  ELSE "MISSING_CAPABILITY"
UnmetRequirements == {r \in UNION {c.requires : c \in Contracts} : Unmet(r)}

(* Some extensions can only wait for each other.                              *)
Cyclic == \E S \in SUBSET Ids : S # {} /\ \A e \in S : \E f \in S : DependsOn(e, f)

(* Two claims of one resource go together if both only read, or both leave it  *)
(* to the same mediator, and they are not of one extension.                   *)
Clash ==
  \E a, b \in ClaimPairs :
    /\ a # b /\ Canon(a[2].name) = Canon(b[2].name)
    /\ \/ a[1] = b[1]
       \/ a[2].mode # b[2].mode \/ a[2].mediator # b[2].mediator \/ a[2].mode = "exclusive"

NoMediator ==
  \E a \in ClaimPairs : a[2].mode = "mediated" /\
    ~\E b \in ClaimPairs : b[1].id = a[2].mediator /\ Canon(b[2].name) = Canon(a[2].name)

(* What speaks against an input, in the order the taxonomy's                   *)
(* decision_precedence fixes: the codes that may be reported for it, none when *)
(* it does not apply.                                                         *)
When(applies, code) == IF applies THEN {code} ELSE {}
Reasons ==
  << When(Len(input) = 0, "INVALID_CONTRACT"),
     When(Cardinality(Ids) # Len(input), "DUPLICATE_PLUGIN"),
     When(\E c \in Contracts : ~c.host, "INCOMPATIBLE_HOST"),
     When(strict /\ \E a \in ClaimPairs : ~Known(a[2].name), "UNKNOWN_RESOURCE"),
     When(strict /\ \E a \in ClaimPairs :
            Known(a[2].name) /\ a[2].mode \notin AllowedModes[Canonical[a[2].name]],
          "INVALID_RESOURCE_MODE"),
     When(\E c \in Contracts : \E o \in c.obligations : o \notin c.grants, "AUTHORITY_VIOLATION"),
     {UnmetCode(r) : r \in UnmetRequirements},
     When(Cyclic, "DEPENDENCY_CYCLE"),
     When(Clash, "RESOURCE_CONFLICT"),
     When(NoMediator, "AUTHORITY_VIOLATION"),
     {Accepted} >>
FirstReason ==
  CHOOSE i \in DOMAIN Reasons : Reasons[i] # {} /\ \A j \in 1..i-1 : Reasons[j] = {}

(* An input is accepted exactly when nothing speaks against it, and rejected   *)
(* for the first thing that does, however its contracts were listed.          *)
VerdictIsReference == stage = "done" => verdict \in Reasons[FirstReason]

Positions == 1..Cardinality(Ids)
Topological(o) ==
  /\ \A i, j \in Positions : i # j => o[i] # o[j]
  /\ \A i, j \in Positions : DependsOn(o[i], o[j]) => j < i
LexLeq(o, u) ==
  o = u \/ \E i \in Positions : o[i] < u[i] /\ \A j \in 1..i-1 : o[j] = u[j]

(* The order is the least of the orders in which providers come first.        *)
Least(o) ==
  /\ DOMAIN o = Positions /\ Topological(o)
  /\ \A u \in [Positions -> Ids] : Topological(u) => LexLeq(o, u)

(* Every claim is owned under one name, an exclusive one by its owner alone,   *)
(* a mediated one under a mediator that owns it too.                          *)
OwnershipMeets ==
  /\ \A a \in ClaimPairs : \E o \in ownership :
       /\ o.resource = Canon(a[2].name) /\ a[1].id \in o.owners /\ o.mode = a[2].mode
       /\ o.mode = "exclusive" => o.owners = {a[1].id}
       /\ o.mode = "mediated" => o.mediator = a[2].mediator /\ o.mediator \in o.owners
  /\ \A o, u \in ownership : o.resource = u.resource => o = u

(* Every requirement is bound to the extension that meets it, and every       *)
(* obligation to one that brings its capability.                              *)
BindingsMeet ==
  /\ \A c \in Contracts : \A r \in c.requires : \E b \in bindings :
       b.consumer = c.id /\ b.name = r.name /\ Meets(ById(b.provider), r) /\ b.version \in r.range
  /\ \A d \in duties :
       \E p \in ById(d.provider).provides : p.name = d.obligation.capability

(* A plan is what its contracts mean: the order, owners and bindings of an     *)
(* accepted input are those of the definitions above.                         *)
PlanIsReference ==
  stage = "done" /\ verdict = Accepted => Least(ordered) /\ OwnershipMeets /\ BindingsMeet

(* A plan compiled from its own contracts is the same plan: the check of       *)
(* compile_native_semantic_plan, which knows no taxonomy, accepts every plan   *)
(* compile_contracts made with one.                                           *)
RecompileAgrees == pass = 2 /\ stage = "done" => verdict = Accepted /\ Compiled = plan

=============================================================================
