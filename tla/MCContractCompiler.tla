-------------------------- MODULE MCContractCompiler --------------------------
(* Inputs for the compiler: contracts that differ in their capabilities, and  *)
(* contracts that differ in their resources, in every order of listing.       *)
EXTENDS ContractCompiler

Base == [id |-> 1, host |-> TRUE, provides |-> {}, requires |-> {}, resources |-> {},
         obligations |-> {}, grants |-> {}]
Duty(d, n) == [event |-> "invoked", authority |-> "runtime", direction |-> d, capability |-> n]

(* Capabilities 1 and 2 in versions 1 and 2. *)
Brings == {{}, {[name |-> 1, version |-> 1]}, {[name |-> 1, version |-> 2]},
           {[name |-> 2, version |-> 1]}}
Needs == {{}, {[name |-> 1, range |-> {1}]},
          {[name |-> 2, range |-> {1}]}, {[name |-> 1, range |-> {2}], [name |-> 2, range |-> {1}]}}

Owes(b, n) == {Duty("provides", x.name) : x \in b} \cup {Duty("requires", x.name) : x \in n}
Service(e, b, n) == [Base EXCEPT !.id = e, !.provides = b, !.requires = n,
                                 !.obligations = Owes(b, n), !.grants = Owes(b, n)]
Services == {Service(e, b, n) : e \in 1..3, b \in Brings, n \in Needs}

(* Resource 1 with its alias 2, resource 3, which the taxonomy does not know.  *)
Claimed(n) == {{}} \cup {{[name |-> n, mode |-> m, mediator |-> None]} : m \in {"exclusive", "shared-read"}}
                   \cup {{[name |-> n, mode |-> "mediated", mediator |-> e]} : e \in 1..2}
Own == {[name |-> 1, version |-> 1]}
Holder(e, R) == [Service(e, {[name |-> e, version |-> 1]}, {}) EXCEPT !.resources = R]
Holders == {Holder(e, x \cup y) : e \in 1..2, x \in Claimed(1), y \in Claimed(2)}
           \cup {Holder(e, x) : e \in 1..2, x \in Claimed(3)}

Odd == {[Service(1, Own, {}) EXCEPT !.host = FALSE], [Service(1, Own, {}) EXCEPT !.grants = {}]}

(* Three services in a given order of listing. *)
Listed(o) == LET S(e) == {c \in Services : c.id = e /\ Parsed(c)} IN
  {<<a, b, c>> : a \in S(o[1]), b \in S(o[2]), c \in S(o[3])}

MCInputs ==
  UNION {Listed(o) : o \in {<<1, 2, 3>>, <<3, 1, 2>>}}
  \cup [1..2 -> {c \in Holders \cup Odd : Parsed(c)}] \cup {<< >>}
  \cup [1..1 -> {c \in Services \cup Holders : Parsed(c)}]
MCCanonical == [n \in 1..2 |-> 1]
MCAllowedModes == [n \in {1} |-> {"shared-read", "mediated"}]

=============================================================================
