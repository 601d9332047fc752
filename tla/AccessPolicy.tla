----------------------------- MODULE AccessPolicy -----------------------------
(***************************************************************************)
(* What the approval workflow of a node promises about the work it starts  *)
(* for its peers (docs/configuration.md, Local Approval Workflow): a       *)
(* message is worked on only while its resource is enabled, and only under *)
(* a standing grant of its pair of peer and resource, under a temporary    *)
(* permit of that pair, by using up the permit of its own operation, or to *)
(* resume what such a use began.  A grant takes the temporary permits of   *)
(* its pair with it; a permit that was spent or closed never opens again.  *)
(***************************************************************************)
CONSTANTS
    Message, Operation, Resource, Pair, Consumer,
    OperationOf,     \* the operation a message asks for
    ResourceOf,      \* the resource an operation names
    PairOf,          \* the pair of peer and resource of an operation
    None

VARIABLES
    enabled,    \* resources that are registered and enabled
    granted,    \* pairs with a persistent grant
    permit,     \* permit[o]: the permit of an operation
    holder,     \* holder[o]: the message that asked for it
    begun,      \* messages whose work left a durable trace
    running     \* pairs <<c, m>>: consumer c works on m

policyvars == <<enabled, granted, permit, holder, begun, running>>

Permit == {"none", "waiting", "once", "temporary", "spent", "closed"}

Init ==
    /\ enabled = {} /\ granted = {}
    /\ permit = [o \in Operation |-> "none"]
    /\ holder = [o \in Operation |-> None]
    /\ begun = {}
    /\ running = {}

(* What the operator and the time may do to a permit.                      *)
Course ==
    {<<p, p>> : p \in Permit}
        \cup {<<"waiting", p>> : p \in {"once", "temporary", "closed"}}
        \cup {<<p, "closed">> : p \in {"once", "temporary"}}

Lapse == {<<p, p>> : p \in Permit} \cup {<<"temporary", "closed">>}

Administer ==
    /\ enabled' \in SUBSET Resource /\ granted' \in SUBSET Pair
    /\ permit' \in [Operation -> Permit]
    /\ \A o \in Operation :
           /\ <<permit[o], permit'[o]>> \in Course
           /\ PairOf[o] \in granted \ granted' => permit'[o] # "temporary"
    /\ UNCHANGED <<holder, begun, running>>

(* A message without a permit asks for one; it is not worked on.           *)
Ask(m) ==
    LET o == OperationOf[m] IN
    /\ ResourceOf[o] \in enabled
    /\ permit[o] = "none" /\ permit'[o] = "waiting"
    /\ permit' \in [Operation -> Permit]
    /\ \A p \in Operation \ {o} : <<permit[p], permit'[p]>> \in Lapse
    /\ holder' = [holder EXCEPT ![o] = m]
    /\ UNCHANGED <<enabled, granted, begun, running>>

UnderStandingGrant(m) == PairOf[OperationOf[m]] \in granted

UnderTemporaryPermit(m) ==
    \E o \in Operation :
        permit'[o] = "temporary" /\ PairOf[o] = PairOf[OperationOf[m]]

SpendsItsPermit(m) ==
    LET o == OperationOf[m] IN
    holder[o] = m /\ permit[o] = "once" /\ permit'[o] = "spent"

Resumes(m) ==
    LET o == OperationOf[m] IN
    holder[o] = m /\ permit[o] = "spent" /\ m \in begun

Begin(c, m) ==
    /\ ResourceOf[OperationOf[m]] \in enabled
    /\ permit' \in [Operation -> Permit]
    /\ \A o \in Operation :
           <<permit[o], permit'[o]>> \in Lapse \/ (o = OperationOf[m] /\ SpendsItsPermit(m))
    /\ \/ UnderStandingGrant(m) \/ UnderTemporaryPermit(m)
       \/ SpendsItsPermit(m) \/ Resumes(m)
    /\ running' = running \cup {<<c, m>>}
    /\ UNCHANGED <<enabled, granted, holder, begun>>

(* Only work that was allowed to start leaves a trace.                     *)
Record(c, m) ==
    /\ <<c, m>> \in running
    /\ begun' = begun \cup {m}
    /\ UNCHANGED <<enabled, granted, permit, holder, running>>

End(c) ==
    /\ running' = {w \in running : w[1] # c}
    /\ UNCHANGED <<enabled, granted, permit, holder, begun>>

Next ==
    \/ Administer
    \/ \E m \in Message : Ask(m)
    \/ \E c \in Consumer, m \in Message : Begin(c, m) \/ Record(c, m)
    \/ \E c \in Consumer : End(c)

Spec == Init /\ [][Next]_policyvars
=============================================================================
