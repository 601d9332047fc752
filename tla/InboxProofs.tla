---------------------------- MODULE InboxProofs -----------------------------
(* Theorems about Inbox, for every value of its constants.                 *)
EXTENDS Inbox, TLAPS

USE DEF InboxState, Settled

-----------------------------------------------------------------------------
(* The disjuncts of Next, one by one.                                      *)
Step ==
    \/ \E m \in Id, p \in Peer, v \in Version, life \in Lifetime : Persist(m, p, v, life)
    \/ \E c \in Consumer, at \in ClockReading, chosen \in SUBSET Id :
           \E fresh \in [chosen -> Token \ UsedTokens] : Claim(c, chosen, fresh, at)
    \/ \E c \in Consumer, m \in Id, at \in ClockReading : RenewClaim(c, m, at)
    \/ \E c \in Consumer, m \in Id, at \in ClockReading :
           \E outcome \in {"processed", "rejected", "available"} :
               Acknowledge(c, m, outcome, at)
    \/ \E c \in Consumer, m \in Id, at \in ClockReading :
           \E outcome \in Settled, k \in Key, offered \in Content \ OtherKind :
               SettleWithReply(c, m, outcome, k, offered, at)
    \/ \E c \in Consumer, m \in Id, at \in ClockReading, ended \in Ends :
           Park(c, m, ended, at) \/ Consume(c, m, ended, at)
    \/ \E m \in Id, ended \in Ends :
           \E decision \in {"approved_once", "approved_temporary", "closed"} :
               Decide(m, decision, ended)
    \/ \E m \in Id, ended \in Ends : Revoke(m, ended)
    \/ \E ended \in Ends : TemporaryEnds(ended)
    \/ \E m \in Id, k \in Key, content \in Content : Reply(m, k, content)
    \/ \E m \in Id, k \in Key, outcome \in {"sent", "dead"} : ReplyLeaves(m, k, outcome)
    \/ \E c \in Consumer : Forget(c)
    \/ Tick
    \/ UNCHANGED vars

LEMMA StepCases == [Next]_vars => Step
  BY DEF Next, ConsumerStep, Operator, Step

-----------------------------------------------------------------------------
(* The operators on rows and on the clock.                                 *)

LEMMA ClockType ==
    ASSUME TypeOK, NEW at \in ClockReading
    PROVE  at \in Nat /\ at + LeaseSeconds \in Nat
  BY InboxAssumption DEF ClockReading, TypeOK

LEMMA RowUpdates ==
    ASSUME NEW r \in Row
    PROVE  /\ \A res \in Result, t \in Token \cup {None} :
                  [r EXCEPT !.result = res, !.accepted = t] \in Row
           /\ \A t \in Token \cup {None} : [r EXCEPT !.accepted = t] \in Row
           /\ \A n \in Nat, t \in Token \cup {None} :
                  [r EXCEPT !.until = n, !.accepted = t] \in Row
           /\ [r EXCEPT !.state = "quarantined"] \in Row
           /\ \A c \in Consumer, t \in Token, n \in Nat :
                  [r EXCEPT !.state = "claimed", !.owner = c, !.token = t,
                            !.until = n] \in Row
  <1>1. \A res \in Result, t \in Token \cup {None} :
           [r EXCEPT !.result = res, !.accepted = t] \in Row
    BY DEF Row
  <1>2. \A t \in Token \cup {None} : [r EXCEPT !.accepted = t] \in Row
    BY DEF Row
  <1>3. \A n \in Nat, t \in Token \cup {None} :
           [r EXCEPT !.until = n, !.accepted = t] \in Row
    BY DEF Row
  <1>4. [r EXCEPT !.state = "quarantined"] \in Row
    BY DEF Row, InboxState
  <1>5. ASSUME NEW c \in Consumer, NEW t \in Token, NEW n \in Nat
        PROVE  [r EXCEPT !.state = "claimed", !.owner = c, !.token = t, !.until = n] \in Row
    BY DEF Row, InboxState
  <1>6. QED BY <1>1, <1>2, <1>3, <1>4, <1>5

LEMMA UnclaimedType ==
    ASSUME NEW r \in Row, NEW s \in InboxState
    PROVE  /\ Unclaimed(r, s) \in Row
           /\ Unclaimed(r, s).state = s
           /\ Unclaimed(r, s).result = r.result
           /\ Unclaimed(r, s).accepted = r.accepted
           /\ Unclaimed(r, s).origin = r.origin
           /\ Unclaimed(r, s).version = r.version
  BY DEF Unclaimed, Row

(* A sweep only makes a claimed message available; it never touches what   *)
(* the message is or how it was settled.                                   *)
LEMMA SweptFacts ==
    ASSUME NEW r \in Row, NEW at \in Nat
    PROVE  /\ Swept(r, at) \in Row
           /\ Swept(r, at) # r => r.state = "claimed" /\ Swept(r, at).state = "available"
           /\ Swept(r, at).result = r.result
           /\ Swept(r, at).accepted = r.accepted
           /\ Swept(r, at).origin = r.origin
           /\ Swept(r, at).version = r.version
  BY UnclaimedType DEF Swept

(* A decision only makes a quarantined message available.                  *)
LEMMA RequeuedFacts ==
    ASSUME TypeOK, NEW n \in Id, NEW m \in Id
    PROVE  /\ Requeued(n) \in [Id -> Row]
           /\ Requeued(n)[m] # inbox[m] =>
                  /\ m = n
                  /\ inbox[m].state = "quarantined" /\ Requeued(n)[m].state = "available"
           /\ m = n => Requeued(n)[m].state # "quarantined"
           /\ Requeued(n)[m].result = inbox[m].result
           /\ Requeued(n)[m].accepted = inbox[m].accepted
           /\ Requeued(n)[m].origin = inbox[m].origin
           /\ Requeued(n)[m].version = inbox[m].version
  <1>1. inbox \in [Id -> Row]
    BY DEF TypeOK
  <1>2. CASE inbox[n].state = "quarantined"
    <2>1. Requeued(n) = [inbox EXCEPT ![n] = Unclaimed(inbox[n], "available")]
      BY <1>2 DEF Requeued
    <2>2. /\ Unclaimed(inbox[n], "available") \in Row
          /\ Unclaimed(inbox[n], "available").state = "available"
          /\ Unclaimed(inbox[n], "available").result = inbox[n].result
          /\ Unclaimed(inbox[n], "available").accepted = inbox[n].accepted
          /\ Unclaimed(inbox[n], "available").origin = inbox[n].origin
          /\ Unclaimed(inbox[n], "available").version = inbox[n].version
      BY <1>1, UnclaimedType
    <2>3. QED BY <1>1, <1>2, <2>1, <2>2
  <1>3. CASE inbox[n].state # "quarantined"
    BY <1>1, <1>3 DEF Requeued
  <1>4. QED BY <1>2, <1>3

(* The content a settlement ends with is the one under its key.            *)
LEMMA AuthoritativeFacts ==
    ASSUME TypeOK, NEW m \in Id, NEW k \in Key, NEW offered \in Content,
           NEW content \in Authoritative(m, k, offered)
    PROVE  /\ content \in Content
           /\ reply[m][k].content \in {None, content}
  BY InboxAssumption DEF Authoritative, TypeOK, ReplyRow

-----------------------------------------------------------------------------
(* Type correctness.                                                       *)

LEMMA PersistType ==
    ASSUME TypeOK, NEW m \in Id, NEW p \in Peer, NEW v \in Version, NEW life \in Lifetime,
           Persist(m, p, v, life)
    PROVE  TypeOK'
  <1>1. now + life \in Nat
    BY InboxAssumption DEF TypeOK
  <1>2. [NoRow EXCEPT !.state = "available", !.origin = p, !.version = v,
                      !.received = now, !.expires = now + life] \in Row
    BY <1>1 DEF NoRow, Row, Result, TypeOK
  <1>3. inbox' \in [Id -> Row]
    <2>1. CASE inbox' = inbox
      BY <2>1 DEF TypeOK
    <2>2. CASE inbox' = [inbox EXCEPT ![m].state = "quarantined"]
      BY <2>2, RowUpdates DEF TypeOK
    <2>3. QED BY <1>2, <2>1, <2>2 DEF Persist, TypeOK
  <1>4. delivered' \subseteq Id \X Peer \X Version
    BY DEF Persist, TypeOK
  <1>5. QED BY <1>3, <1>4 DEF Persist, TypeOK

LEMMA ClaimType ==
    ASSUME TypeOK, NEW c \in Consumer, NEW at \in ClockReading, NEW chosen \in SUBSET Id,
           NEW fresh \in [chosen -> Token \ UsedTokens], Claim(c, chosen, fresh, at)
    PROVE  TypeOK'
  <1>1. at \in Nat /\ at + LeaseSeconds \in Nat
    BY ClockType
  <1>2. \A m \in Id : Swept(inbox[m], at) \in Row
    BY <1>1, SweptFacts DEF TypeOK
  <1>3. \A m \in Id : inbox'[m] \in Row
    BY <1>1, <1>2, RowUpdates DEF Claim
  <1>4. held' \in [Consumer -> [Id -> Token \cup {None}]]
    BY DEF Claim, TypeOK
  <1>5. inbox' \in [Id -> Row]
    BY <1>3 DEF Claim
  <1>6. QED BY <1>4, <1>5 DEF Claim, TypeOK

LEMMA SettleType ==
    ASSUME TypeOK, NEW c \in Consumer, NEW m \in Id, NEW at \in ClockReading,
           NEW outcome \in Settled, NEW k \in Key, NEW offered \in Content \ OtherKind,
           SettleWithReply(c, m, outcome, k, offered, at)
    PROVE  TypeOK'
  <1>1. PICK content \in Authoritative(m, k, offered) :
            /\ reply' = Published(m, k, content)
            /\ inbox' = [inbox EXCEPT ![m] =
                  [Unclaimed(@, outcome) EXCEPT !.result = <<k, content>>,
                                                !.accepted = held[c][m]]]
    BY DEF SettleWithReply
  <1>2. content \in Content
    BY AuthoritativeFacts
  <1>3. Unclaimed(inbox[m], outcome) \in Row
    BY UnclaimedType DEF TypeOK
  <1>4. held[c][m] \in Token \cup {None} /\ <<k, content>> \in Result
    BY <1>2 DEF TypeOK, Result
  <1>5. [Unclaimed(inbox[m], outcome) EXCEPT !.result = <<k, content>>,
                                             !.accepted = held[c][m]] \in Row
    BY <1>3, <1>4, RowUpdates
  <1>6. inbox' \in [Id -> Row]
    BY <1>1, <1>5 DEF TypeOK
  <1>7. reply' \in [Id -> [Key -> ReplyRow]]
    BY <1>1, <1>2 DEF Published, TypeOK, ReplyRow
  <1>8. QED BY <1>6, <1>7 DEF SettleWithReply, TypeOK

LEMMA InitType == Init => TypeOK
  <1>1. NoRow \in Row /\ NoReply \in ReplyRow
    BY DEF NoRow, Row, Result, NoReply, ReplyRow
  <1>2. QED BY <1>1 DEF Init, TypeOK, RequestState

LEMMA ExpiredType ==
    ASSUME TypeOK, NEW ended \in Ends
    PROVE  Expired(ended) \in [Id -> RequestState]
  BY DEF Expired, TypeOK, RequestState

LEMMA NextType == TypeOK /\ [Next]_vars => TypeOK'
  <1> SUFFICES ASSUME TypeOK, Step PROVE TypeOK'
    BY StepCases
  <1>1. ASSUME NEW c \in Consumer, NEW m \in Id, NEW at \in ClockReading,
               RenewClaim(c, m, at)
        PROVE  TypeOK'
    <2>1. at + LeaseSeconds \in Nat /\ inbox[m] \in Row /\ held[c][m] \in Token \cup {None}
      BY ClockType DEF TypeOK
    <2>2. [inbox[m] EXCEPT !.until = at + LeaseSeconds, !.accepted = held[c][m]] \in Row
      BY <2>1, RowUpdates
    <2>3. inbox' = [inbox EXCEPT ![m] =
             [inbox[m] EXCEPT !.until = at + LeaseSeconds, !.accepted = held[c][m]]]
      BY <1>1 DEF RenewClaim, TypeOK
    <2>4. inbox' \in [Id -> Row]
      BY <2>2, <2>3 DEF TypeOK
    <2>5. QED BY <1>1, <2>4 DEF RenewClaim, TypeOK
  <1>2. ASSUME NEW c \in Consumer, NEW m \in Id, NEW at \in ClockReading,
               NEW outcome \in {"processed", "rejected", "available"},
               Acknowledge(c, m, outcome, at)
        PROVE  TypeOK'
    <2>1. Unclaimed(inbox[m], outcome) \in Row
      BY UnclaimedType DEF TypeOK
    <2>2. \A t \in Token \cup {None} :
              [Unclaimed(inbox[m], outcome) EXCEPT !.accepted = t] \in Row
      BY <2>1, RowUpdates
    <2>3. QED BY <1>2, <2>2 DEF Acknowledge, TypeOK
  <1>3. ASSUME NEW m \in Id, NEW k \in Key, NEW content \in Content, Reply(m, k, content)
        PROVE  TypeOK'
    BY <1>3 DEF Reply, TypeOK, ReplyRow
  <1>4. ASSUME NEW m \in Id, NEW k \in Key, NEW outcome \in {"sent", "dead"},
               ReplyLeaves(m, k, outcome)
        PROVE  TypeOK'
    <2>1. \A r \in ReplyRow : [r EXCEPT !.state = outcome] \in ReplyRow
      BY DEF ReplyRow
    <2>2. \A n \in Id, j \in Key : reply'[n][j] \in ReplyRow
      BY <1>4, <2>1 DEF ReplyLeaves, TypeOK
    <2>3. reply' \in [Id -> [Key -> ReplyRow]]
      BY <1>4, <2>1, <2>2 DEF ReplyLeaves, TypeOK
    <2>4. QED BY <1>4, <2>3 DEF ReplyLeaves, TypeOK
  <1>5. ASSUME NEW c \in Consumer, Forget(c) PROVE TypeOK'
    BY <1>5 DEF Forget, TypeOK
  <1>6. CASE Tick
    BY <1>6 DEF Tick, TypeOK
  <1>7. CASE UNCHANGED vars
    BY <1>7 DEF vars, TypeOK
  <1>8. ASSUME NEW c \in Consumer, NEW m \in Id, NEW at \in ClockReading, NEW ended \in Ends,
               Park(c, m, ended, at)
        PROVE  TypeOK'
    <2>1. Unclaimed(inbox[m], "quarantined") \in Row /\ held[c][m] \in Token \cup {None}
      BY UnclaimedType DEF TypeOK
    <2>2. [Unclaimed(inbox[m], "quarantined") EXCEPT !.accepted = held[c][m]] \in Row
      BY <2>1, RowUpdates
    <2>3. QED BY <1>8, <2>2, ExpiredType DEF Park, TypeOK, RequestState
  <1>9. ASSUME NEW c \in Consumer, NEW m \in Id, NEW at \in ClockReading, NEW ended \in Ends,
               Consume(c, m, ended, at)
        PROVE  TypeOK'
    BY <1>9, ExpiredType DEF Consume, TypeOK, RequestState
  <1>10. ASSUME NEW m \in Id, NEW ended \in Ends,
                NEW decision \in {"approved_once", "approved_temporary", "closed"},
                Decide(m, decision, ended)
         PROVE  TypeOK'
    BY <1>10, ExpiredType, RequeuedFacts DEF Decide, TypeOK, RequestState
  <1>11. ASSUME NEW m \in Id, NEW ended \in Ends, Revoke(m, ended) PROVE TypeOK'
    BY <1>11, ExpiredType, RequeuedFacts DEF Revoke, TypeOK, RequestState
  <1>12. ASSUME NEW ended \in Ends, TemporaryEnds(ended) PROVE TypeOK'
    BY <1>12, ExpiredType DEF TemporaryEnds, TypeOK
  <1>13. QED
    BY <1>1, <1>2, <1>3, <1>4, <1>5, <1>6, <1>7, <1>8, <1>9, <1>10, <1>11, <1>12,
       PersistType, ClaimType, SettleType DEF Step

(* Every variable holds a value of its kind.                               *)
THEOREM TypeCorrect == Spec => []TypeOK
  BY InitType, NextType, PTL DEF Spec

-----------------------------------------------------------------------------
(* What one step may do to one row: the facts behind the results below.    *)
SameMessageRow(r, s) ==
    /\ s.origin = r.origin /\ s.version = r.version
    /\ s.result = r.result /\ s.accepted = r.accepted

RowStep(m) ==
    \/ inbox'[m] = inbox[m]
    \/ /\ inbox[m].state = "absent" /\ inbox'[m].state = "available"
       /\ inbox'[m].result = None /\ inbox'[m].accepted = None
       /\ inbox'[m].token = None
    \/ /\ inbox[m].state # "absent" /\ inbox'[m].state = "quarantined"
       /\ inbox'[m] = [inbox[m] EXCEPT !.state = "quarantined"]
       /\ \E v \in Version \ {inbox[m].version} : <<m, inbox[m].origin, v>> \in delivered'
    \/ /\ inbox[m].state \in {"available", "claimed"}
       /\ inbox'[m].state \in {"available", "claimed"}
       /\ SameMessageRow(inbox[m], inbox'[m])
    \/ /\ inbox[m].state = "quarantined" /\ inbox'[m].state = "available"
       /\ SameMessageRow(inbox[m], inbox'[m])
    \/ /\ inbox[m].state = "claimed" /\ inbox'[m].state # "absent"
       /\ inbox'[m].origin = inbox[m].origin /\ inbox'[m].version = inbox[m].version
       /\ inbox'[m].accepted = inbox[m].token
       /\ inbox'[m].state = "quarantined" => asked'[m] = "pending"

LEMMA PersistRow ==
    ASSUME TypeOK, NEW n \in Id, NEW p \in Peer, NEW v \in Version, NEW life \in Lifetime,
           Persist(n, p, v, life), NEW m \in Id
    PROVE  RowStep(m)
  <1>0. inbox[m] \in Row
    BY DEF TypeOK
  <1>1. CASE m # n \/ inbox' = inbox
    BY <1>1 DEF Persist, TypeOK, RowStep
  <1>2. CASE m = n /\ inbox[m].state = "absent" /\ inbox' # inbox
    <2>1. inbox'[m].state = "available" /\ inbox'[m].result = None
              /\ inbox'[m].accepted = None /\ inbox'[m].token = None
      <3>1. inbox' = [inbox EXCEPT ![n] =
                 [NoRow EXCEPT !.state = "available", !.origin = p, !.version = v,
                               !.received = now, !.expires = now + life]]
        BY <1>2 DEF Persist, CollisionFromOrigin
      <3>2. QED BY <1>2, <3>1 DEF TypeOK, NoRow
    <2>2. QED BY <1>2, <2>1 DEF RowStep
  <1>3. CASE m = n /\ CollisionFromOrigin(n, p, v) /\ inbox' # inbox
    <2>1. inbox[m].origin = p /\ inbox[m].version # v /\ inbox[m].state # "absent"
      BY <1>3 DEF CollisionFromOrigin, SameMessage
    <2>2. <<m, inbox[m].origin, v>> \in delivered'
      BY <1>3, <2>1 DEF Persist
    <2>3. inbox'[m] = [inbox[m] EXCEPT !.state = "quarantined"]
      BY <1>3, <2>1 DEF Persist, TypeOK
    <2>4. inbox'[m].state = "quarantined"
      BY <1>0, <2>3 DEF Row
    <2>5. QED BY <2>1, <2>2, <2>3, <2>4 DEF RowStep
  <1>4. QED BY <1>1, <1>2, <1>3 DEF Persist

LEMMA ClaimRow ==
    ASSUME TypeOK, NEW c \in Consumer, NEW at \in ClockReading, NEW chosen \in SUBSET Id,
           NEW fresh \in [chosen -> Token \ UsedTokens], Claim(c, chosen, fresh, at),
           NEW m \in Id
    PROVE  /\ RowStep(m)
           /\ m \in chosen => /\ inbox'[m].state = "claimed" /\ inbox'[m].owner = c
                              /\ inbox'[m].token = fresh[m]
           /\ m \notin chosen => inbox'[m] = inbox[m] \/ inbox'[m].state = "available"
  <1>1. at \in Nat
    BY ClockType
  <1>2. inbox[m] \in Row
    BY DEF TypeOK
  <1> DEFINE s == Swept(inbox[m], at)
  <1>3. /\ s \in Row
        /\ s # inbox[m] => inbox[m].state = "claimed" /\ s.state = "available"
        /\ SameMessageRow(inbox[m], s)
    BY <1>1, <1>2, SweptFacts DEF SameMessageRow
  <1>4. CASE m \notin chosen
    <2>1. inbox'[m] = s
      BY <1>4 DEF Claim
    <2>2. QED BY <1>3, <1>4, <2>1 DEF RowStep
  <1>5. CASE m \in chosen
    <2>1. s.state = "available"
      BY <1>5 DEF Claim, OldestFirst, Claimable
    <2>2. inbox'[m] = [s EXCEPT !.state = "claimed", !.owner = c, !.token = fresh[m],
                                !.until = at + LeaseSeconds]
      BY <1>5 DEF Claim
    <2>3. /\ inbox'[m].state = "claimed" /\ inbox'[m].owner = c /\ inbox'[m].token = fresh[m]
          /\ SameMessageRow(s, inbox'[m])
      BY <1>3, <2>2 DEF Row, SameMessageRow
    <2>4. inbox[m].state \in {"available", "claimed"}
      BY <1>3, <2>1
    <2>5. QED BY <1>3, <1>5, <2>3, <2>4 DEF RowStep, SameMessageRow
  <1>6. QED BY <1>4, <1>5

LEMMA HolderRow ==
    ASSUME TypeOK, NEW c \in Consumer, NEW n \in Id, NEW at \in ClockReading, NEW m \in Id,
           \/ RenewClaim(c, n, at)
           \/ \E ended \in Ends : Park(c, n, ended, at)
           \/ \E outcome \in {"processed", "rejected", "available"} :
                  Acknowledge(c, n, outcome, at)
           \/ \E outcome \in Settled, k \in Key, offered \in Content \ OtherKind :
                  SettleWithReply(c, n, outcome, k, offered, at)
    PROVE  /\ RowStep(m)
           /\ inbox'[m].state = "claimed" =>
                  /\ inbox[m].state = "claimed" /\ inbox'[m].token = inbox[m].token
                  /\ inbox'[m].owner = inbox[m].owner
  <1>0. inbox[m] \in Row /\ inbox[n] \in Row
    BY DEF TypeOK
  <1>1. CASE m # n
    BY <1>1 DEF RenewClaim, Park, Acknowledge, SettleWithReply, TypeOK, RowStep
  <1>2. CASE m = n /\ RenewClaim(c, n, at)
    <2>1. inbox'[m] = [inbox[m] EXCEPT !.until = at + LeaseSeconds, !.accepted = held[c][m]]
      BY <1>2 DEF RenewClaim, TypeOK
    <2>2. inbox[m].state = "claimed" /\ held[c][m] = inbox[m].token
      BY <1>2 DEF RenewClaim, ClaimValid
    <2>3. /\ inbox'[m].state = "claimed" /\ inbox'[m].accepted = inbox[m].token
          /\ inbox'[m].token = inbox[m].token /\ inbox'[m].owner = inbox[m].owner
          /\ inbox'[m].origin = inbox[m].origin /\ inbox'[m].version = inbox[m].version
      BY <1>0, <2>1, <2>2 DEF Row
    <2>4. QED BY <2>2, <2>3 DEF RowStep
  <1>3. CASE m = n /\ \E outcome \in {"processed", "rejected", "available"} :
                          Acknowledge(c, n, outcome, at)
    <2>1. PICK outcome \in {"processed", "rejected", "available"} :
              Acknowledge(c, n, outcome, at)
      BY <1>3
    <2>2. inbox[m].state = "claimed" /\ held[c][m] = inbox[m].token
      BY <1>3, <2>1 DEF Acknowledge, ClaimValid
    <2>3. inbox'[m] = [Unclaimed(inbox[m], outcome) EXCEPT !.accepted = held[c][m]]
      BY <1>3, <2>1 DEF Acknowledge, TypeOK
    <2>4. /\ inbox'[m].state = outcome /\ inbox'[m].accepted = inbox[m].token
          /\ inbox'[m].result = inbox[m].result
          /\ inbox'[m].origin = inbox[m].origin /\ inbox'[m].version = inbox[m].version
      BY <1>0, <2>2, <2>3 DEF Unclaimed, Row
    <2>5. QED BY <2>2, <2>4 DEF RowStep
  <1>4. CASE m = n /\ \E outcome \in Settled, k \in Key, offered \in Content \ OtherKind :
                          SettleWithReply(c, n, outcome, k, offered, at)
    <2>1. PICK outcome \in Settled, k \in Key, offered \in Content \ OtherKind :
              SettleWithReply(c, n, outcome, k, offered, at)
      BY <1>4
    <2>2. inbox[m].state = "claimed" /\ held[c][m] = inbox[m].token
      BY <1>4, <2>1 DEF SettleWithReply, ClaimValid
    <2>3. PICK content \in Authoritative(m, k, offered) :
              inbox'[m] = [Unclaimed(inbox[m], outcome) EXCEPT
                               !.result = <<k, content>>, !.accepted = held[c][m]]
      BY <1>4, <2>1 DEF SettleWithReply, TypeOK
    <2>4. /\ inbox'[m].state = outcome /\ inbox'[m].accepted = inbox[m].token
          /\ inbox'[m].origin = inbox[m].origin /\ inbox'[m].version = inbox[m].version
      BY <1>0, <2>2, <2>3 DEF Unclaimed, Row
    <2>5. QED BY <2>2, <2>4 DEF RowStep
  <1>5. CASE m = n /\ \E ended \in Ends : Park(c, n, ended, at)
    <2>1. inbox'[m] = [Unclaimed(inbox[m], "quarantined") EXCEPT !.accepted = held[c][m]]
      BY <1>5 DEF Park, TypeOK
    <2>2. inbox[m].state = "claimed" /\ held[c][m] = inbox[m].token
      BY <1>5 DEF Park, ClaimValid
    <2>3. /\ inbox'[m].state = "quarantined" /\ inbox'[m].accepted = inbox[m].token
          /\ inbox'[m].origin = inbox[m].origin /\ inbox'[m].version = inbox[m].version
      BY <1>0, <2>1, <2>2 DEF Unclaimed, Row
    <2>4. asked'[m] = "pending"
      BY <1>5 DEF Park, Expired, TypeOK
    <2>5. QED BY <2>2, <2>3, <2>4 DEF RowStep
  <1>6. QED BY <1>1, <1>2, <1>3, <1>4, <1>5

LEMMA RowSteps ==
    ASSUME TypeOK, [Next]_vars, NEW m \in Id
    PROVE  RowStep(m)
  <1>1. Step
    BY StepCases
  <1>2. CASE UNCHANGED inbox
    BY <1>2 DEF RowStep
  <1>3. ASSUME NEW n \in Id, inbox' = Requeued(n) PROVE RowStep(m)
    BY <1>3, RequeuedFacts DEF RowStep, SameMessageRow
  <1>4. QED
    BY <1>1, <1>2, <1>3, PersistRow, ClaimRow, HolderRow
       DEF Step, Consume, Decide, Revoke, TemporaryEnds, Reply, ReplyLeaves, Forget,
           Tick, vars

(* A row nobody received yet is empty.                                     *)
AbsentIsEmpty == \A m \in Id : inbox[m].state = "absent" => inbox[m] = NoRow

LEMMA AbsentStep == TypeOK /\ AbsentIsEmpty /\ [Next]_vars => AbsentIsEmpty'
  <1> SUFFICES ASSUME TypeOK, AbsentIsEmpty, [Next]_vars, NEW m \in Id,
                      inbox'[m].state = "absent"
               PROVE  inbox'[m] = NoRow
    BY DEF AbsentIsEmpty
  <1>1. inbox'[m] = inbox[m]
    BY RowSteps DEF RowStep
  <1>2. QED BY <1>1 DEF AbsentIsEmpty

LEMMA AbsentStaysEmpty == Spec => [](TypeOK /\ AbsentIsEmpty)
  <1>1. Init => AbsentIsEmpty
    BY DEF Init, AbsentIsEmpty
  <1>2. QED BY <1>1, AbsentStep, InitType, NextType, PTL DEF Spec

(* A renewal, a release, a settlement or a parking goes through only with  *)
(* the token of the current claim, so a consumer whose claim lapsed while  *)
(* it worked does none of them.                                            *)
THEOREM ClaimsAreFenced == Spec => ClaimFencing
  <1>1. TypeOK /\ AbsentIsEmpty /\ [Next]_vars =>
            [\A m \in Id : inbox'[m].accepted # inbox[m].accepted =>
                 inbox[m].state = "claimed" /\ inbox'[m].accepted = inbox[m].token]_vars
    <2> SUFFICES ASSUME TypeOK, AbsentIsEmpty, [Next]_vars, NEW m \in Id,
                        inbox'[m].accepted # inbox[m].accepted
                 PROVE  inbox[m].state = "claimed" /\ inbox'[m].accepted = inbox[m].token
      OBVIOUS
    <2>1. inbox[m] \in Row
      BY DEF TypeOK
    <2>2. inbox[m].state = "absent" => inbox[m].accepted = None
      BY DEF AbsentIsEmpty, NoRow
    <2>3. QED BY <2>1, <2>2, RowSteps DEF RowStep, SameMessageRow, Row
  <1>2. QED BY <1>1, AbsentStaysEmpty, PTL DEF Spec, ClaimFencing

(* The request of a message stays undecided, is made, or is decided, which *)
(* leaves its message out of quarantine.                                   *)
LEMMA AskedSteps ==
    ASSUME TypeOK, [Next]_vars, NEW m \in Id
    PROVE  \/ asked'[m] = asked[m]
           \/ asked'[m] = "pending"
           \/ asked[m] # "pending"
           \/ inbox'[m].state # "quarantined"
  <1>1. Step
    BY StepCases
  <1>2. CASE UNCHANGED asked
    BY <1>2
  <1>3. ASSUME NEW c \in Consumer, NEW n \in Id, NEW at \in ClockReading, NEW ended \in Ends,
               Park(c, n, ended, at) \/ Consume(c, n, ended, at)
        PROVE  asked'[m] \in {asked[m], "pending"} \/ asked[m] # "pending"
    BY <1>3 DEF Park, Consume, Ends, Expired, TypeOK
  <1>4. ASSUME NEW n \in Id, NEW ended \in Ends,
               NEW decision \in {"approved_once", "approved_temporary", "closed"},
               Decide(n, decision, ended)
        PROVE  \/ asked'[m] = asked[m] \/ asked[m] # "pending"
               \/ inbox'[m].state # "quarantined"
    BY <1>4, RequeuedFacts DEF Decide, Ends, Expired, TypeOK
  <1>5. ASSUME NEW n \in Id, NEW ended \in Ends, Revoke(n, ended)
        PROVE  asked'[m] = asked[m] \/ asked[m] # "pending"
    BY <1>5 DEF Revoke, Ends, Expired, TypeOK
  <1>6. ASSUME NEW ended \in Ends, TemporaryEnds(ended)
        PROVE  asked'[m] = asked[m] \/ asked[m] # "pending"
    BY <1>6 DEF TemporaryEnds, Ends, Expired
  <1>7. QED
    BY <1>1, <1>2, <1>3, <1>4, <1>5, <1>6
       DEF Step, Persist, Claim, RenewClaim, Acknowledge, SettleWithReply, Reply,
           ReplyLeaves, Forget, Tick, vars

(* A quarantined message waits for the decision on its own request, or its *)
(* origin sent another content under its identifier.                       *)
THEOREM QuarantineIsAccountedFor == Spec => []QuarantineHasItsCause
  <1>1. Init => QuarantineHasItsCause
    BY DEF Init, NoRow, QuarantineHasItsCause
  <1>2. TypeOK /\ QuarantineHasItsCause /\ [Next]_vars => QuarantineHasItsCause'
    <2> SUFFICES ASSUME TypeOK, QuarantineHasItsCause, [Next]_vars, NEW m \in Id,
                        inbox'[m].state = "quarantined"
                 PROVE  \/ asked'[m] = "pending"
                        \/ \E v \in Version \ {inbox'[m].version} :
                               <<m, inbox'[m].origin, v>> \in delivered'
      BY DEF QuarantineHasItsCause
    <2>1. inbox[m] \in Row
      BY DEF TypeOK
    <2>2. delivered \subseteq delivered'
      BY StepCases DEF Step, Persist, Claim, RenewClaim, Acknowledge, SettleWithReply,
                       Park, Consume, Decide, Revoke, TemporaryEnds,
                       Reply, ReplyLeaves, Forget, Tick, vars
    <2>3. CASE inbox'[m] = inbox[m]
      <3>1. CASE asked[m] = "pending"
        BY <3>1, AskedSteps
      <3>2. CASE asked[m] # "pending"
        BY <2>2, <2>3, <3>2 DEF QuarantineHasItsCause
      <3>3. QED BY <3>1, <3>2
    <2>4. CASE inbox'[m] = [inbox[m] EXCEPT !.state = "quarantined"]
                 /\ \E v \in Version \ {inbox[m].version} :
                        <<m, inbox[m].origin, v>> \in delivered'
      BY <2>1, <2>4 DEF Row
    <2>5. CASE asked'[m] = "pending"
      BY <2>5
    <2>6. QED BY <2>3, <2>4, <2>5, RowSteps DEF RowStep
  <1>3. QED BY <1>1, <1>2, TypeCorrect, PTL DEF Spec

(* A message whose request is undecided is in quarantine.                  *)
PendingIsWithheld ==
    \A m \in Id : asked[m] = "pending" => inbox[m].state = "quarantined"

LEMMA PendingStep ==
    TypeOK /\ PendingIsWithheld /\ [Next]_vars => PendingIsWithheld'
  <1> SUFFICES ASSUME TypeOK, PendingIsWithheld, [Next]_vars, NEW m \in Id,
                      asked'[m] = "pending"
               PROVE  inbox'[m].state = "quarantined"
    BY DEF PendingIsWithheld
  <1>0. Step /\ inbox[m] \in Row
    BY StepCases DEF TypeOK
  <1>1. ASSUME NEW c \in Consumer, NEW n \in Id, NEW at \in ClockReading, NEW ended \in Ends,
               Park(c, n, ended, at), asked[m] # "pending"
        PROVE  inbox'[m].state = "quarantined"
    <2>1. m = n
      BY <1>1 DEF Park, Expired, TypeOK
    <2>2. inbox'[m] = [Unclaimed(inbox[m], "quarantined") EXCEPT !.accepted = held[c][m]]
      BY <1>1, <2>1 DEF Park, TypeOK
    <2>3. QED BY <1>0, <2>2 DEF Unclaimed, Row
  <1>2. \/ asked[m] = "pending"
        \/ \E c \in Consumer, n \in Id, at \in ClockReading, ended \in Ends :
               Park(c, n, ended, at)
    BY <1>0 DEF Step, Persist, Claim, RenewClaim, Acknowledge, SettleWithReply, Consume,
                Decide, Revoke, TemporaryEnds, Expired, Reply, ReplyLeaves, Forget, Tick,
                vars, TypeOK
  <1>3. CASE asked[m] = "pending"
    <2>1. inbox[m].state = "quarantined"
      BY <1>3 DEF PendingIsWithheld
    <2>2. CASE inbox'[m].state = "available"
      <3>1. ASSUME NEW n \in Id, inbox' = Requeued(n), n # m
            PROVE  FALSE
        BY <2>1, <2>2, <3>1, RequeuedFacts
      <3>2. ~\E ended \in Ends,
                decision \in {"approved_once", "approved_temporary", "closed"} :
                    Decide(m, decision, ended)
        BY DEF Decide, Expired, TypeOK
      <3>3. ~\E ended \in Ends : Revoke(m, ended)
        BY <1>3 DEF Revoke
      <3>4. CASE inbox' = inbox
        BY <2>1, <2>2, <3>4
      <3>5. ASSUME NEW n \in Id, NEW p \in Peer, NEW v \in Version, NEW life \in Lifetime,
                   Persist(n, p, v, life)
            PROVE  FALSE
        <4>1. \/ inbox'[m] = inbox[m]
              \/ inbox'[m] = [inbox[m] EXCEPT !.state = "quarantined"]
          BY <2>1, <3>5 DEF Persist, TypeOK
        <4>2. QED BY <1>0, <2>1, <2>2, <4>1 DEF Row
      <3>6. ASSUME NEW c \in Consumer, NEW at \in ClockReading, NEW chosen \in SUBSET Id,
                   NEW fresh \in [chosen -> Token \ UsedTokens], Claim(c, chosen, fresh, at)
            PROVE  FALSE
        <4>1. Swept(inbox[m], at) = inbox[m]
          BY <2>1 DEF Swept
        <4>2. m \notin chosen
          BY <2>1, <3>6, <4>1 DEF Claim, OldestFirst, Claimable
        <4>3. QED BY <2>1, <2>2, <3>6, <4>1, <4>2 DEF Claim
      <3>7. ASSUME NEW c \in Consumer, NEW n \in Id, NEW at \in ClockReading,
                   \/ RenewClaim(c, n, at)
                   \/ \E ended \in Ends : Park(c, n, ended, at)
                   \/ \E outcome \in {"processed", "rejected", "available"} :
                          Acknowledge(c, n, outcome, at)
                   \/ \E outcome \in Settled, k \in Key, offered \in Content \ OtherKind :
                          SettleWithReply(c, n, outcome, k, offered, at)
            PROVE  FALSE
        <4>1. n # m
          BY <2>1, <3>7 DEF RenewClaim, Park, Acknowledge, SettleWithReply, ClaimValid
        <4>2. inbox'[m] = inbox[m]
          BY <3>7, <4>1 DEF RenewClaim, Park, Acknowledge, SettleWithReply, TypeOK
        <4>3. QED BY <2>1, <2>2, <4>2
      <3>8. QED
        BY <1>0, <3>1, <3>2, <3>3, <3>4, <3>5, <3>6, <3>7
           DEF Step, Consume, Decide, Revoke, TemporaryEnds, Reply, ReplyLeaves, Forget,
               Tick, vars
    <2>3. QED BY <2>1, <2>2, RowSteps DEF RowStep
  <1>4. QED BY <1>1, <1>2, <1>3
-----------------------------------------------------------------------------
(* One holder for each claim.                                              *)
ClaimedHasToken ==
    \A m \in Id : inbox[m].state = "claimed" => inbox[m].token \in Token

HolderInv == TypeOK /\ ClaimedHasToken /\ ClaimHasOneHolder

LEMMA ClaimKeepsHolder ==
    ASSUME HolderInv, NEW c \in Consumer, NEW at \in ClockReading, NEW chosen \in SUBSET Id,
           NEW fresh \in [chosen -> Token \ UsedTokens], Claim(c, chosen, fresh, at)
    PROVE  ClaimedHasToken' /\ ClaimHasOneHolder'
  <1> USE DEF HolderInv
  <1>1. ASSUME NEW m \in Id, inbox'[m].state = "claimed"
        PROVE  IF m \in chosen THEN inbox'[m].token = fresh[m] /\ inbox'[m].owner = c
                               ELSE inbox'[m] = inbox[m]
    BY <1>1, ClaimRow
  <1>2. ClaimedHasToken'
    BY <1>1 DEF ClaimedHasToken
  <1>3. ASSUME NEW d \in Consumer, NEW m \in Id, NEW n \in Id,
               inbox'[m].state = "claimed", held'[d][n] = inbox'[m].token
        PROVE  d = inbox'[m].owner /\ n = m
    <2>1. held'[d][n] = IF d = c /\ n \in chosen THEN fresh[n] ELSE held[d][n]
      BY DEF Claim, TypeOK
    <2>2. CASE m \in chosen
      <3>1. fresh[m] \in Token /\ held[d][n] # fresh[m]
        BY <2>2 DEF UsedTokens
      <3>2. d = c /\ n \in chosen /\ fresh[n] = fresh[m]
        BY <1>1, <1>3, <2>1, <2>2, <3>1
      <3>3. n = m
        BY <2>2, <3>2 DEF Claim
      <3>4. QED BY <1>1, <1>3, <2>2, <3>2, <3>3
    <2>3. CASE m \notin chosen
      <3>1. inbox'[m] = inbox[m] /\ inbox[m].token \in Token
        BY <1>1, <1>3, <2>3 DEF ClaimedHasToken
      <3>2. inbox[m].token \in UsedTokens
        BY <3>1 DEF UsedTokens
      <3>3. held[d][n] = inbox[m].token
        BY <1>3, <2>1, <3>1, <3>2
      <3>4. QED BY <1>3, <3>1, <3>3 DEF ClaimHasOneHolder
    <2>4. QED BY <2>2, <2>3
  <1>4. ClaimHasOneHolder'
    BY <1>3 DEF ClaimHasOneHolder
  <1>5. QED BY <1>2, <1>4

(* A step that gives no claim keeps the holders, if it gives no token.     *)
LEMMA OthersKeepHolder ==
    ASSUME HolderInv,
           \A c \in Consumer, m \in Id : held'[c][m] \in {held[c][m], None},
           \A m \in Id : inbox'[m].state = "claimed" =>
               /\ inbox[m].state = "claimed" /\ inbox'[m].token = inbox[m].token
               /\ inbox'[m].owner = inbox[m].owner
    PROVE  ClaimedHasToken' /\ ClaimHasOneHolder'
  BY InboxAssumption DEF HolderInv, ClaimedHasToken, ClaimHasOneHolder

LEMMA HolderInvHolds == Spec => []HolderInv
  <1>1. Init => HolderInv
    BY InitType DEF Init, NoRow, HolderInv, ClaimedHasToken, ClaimHasOneHolder
  <1>2. HolderInv /\ [Next]_vars => HolderInv'
    <2> SUFFICES ASSUME HolderInv, [Next]_vars, Step
                 PROVE  ClaimedHasToken' /\ ClaimHasOneHolder'
      BY StepCases, NextType DEF HolderInv
    <2> TypeOK
      BY DEF HolderInv
    <2>1. CASE UNCHANGED <<inbox, held>>
      BY <2>1, OthersKeepHolder
    <2>2. ASSUME NEW m \in Id, NEW p \in Peer, NEW v \in Version, NEW life \in Lifetime,
                 Persist(m, p, v, life)
          PROVE  ClaimedHasToken' /\ ClaimHasOneHolder'
      <3>1. ASSUME NEW n \in Id, inbox'[n].state = "claimed"
            PROVE  inbox'[n] = inbox[n]
        <4>1. CASE n # m \/ inbox' = inbox
          BY <2>2, <4>1 DEF Persist, TypeOK
        <4>2. CASE n = m /\ inbox' # inbox
          <5>1. inbox[m] \in Row
            BY DEF TypeOK
          <5>2. CASE inbox[m].state = "absent"
            <6>1. inbox'[m].state = "available"
              BY <2>2, <4>2, <5>2 DEF Persist, TypeOK, NoRow, CollisionFromOrigin
            <6>2. QED BY <3>1, <4>2, <6>1
          <5>3. CASE inbox[m].state # "absent"
            <6>1. inbox'[m] = [inbox[m] EXCEPT !.state = "quarantined"]
              BY <2>2, <4>2, <5>3 DEF Persist, TypeOK
            <6>2. QED BY <3>1, <4>2, <5>1, <6>1 DEF Row
          <5>4. QED BY <5>2, <5>3
        <4>3. QED BY <4>1, <4>2
      <3>2. held' = held
        BY <2>2 DEF Persist
      <3>3. QED BY <3>1, <3>2, OthersKeepHolder
    <2>3. ASSUME NEW c \in Consumer, NEW m \in Id, NEW at \in ClockReading,
                 \/ RenewClaim(c, m, at)
                 \/ \E ended \in Ends : Park(c, m, ended, at)
                 \/ \E outcome \in {"processed", "rejected", "available"} :
                        Acknowledge(c, m, outcome, at)
                 \/ \E outcome \in Settled, k \in Key, offered \in Content \ OtherKind :
                        SettleWithReply(c, m, outcome, k, offered, at)
          PROVE  ClaimedHasToken' /\ ClaimHasOneHolder'
      <3>1. held' = held
        BY <2>3 DEF RenewClaim, Park, Acknowledge, SettleWithReply
      <3>2. QED BY <2>3, <3>1, HolderRow, OthersKeepHolder
    <2>4. ASSUME NEW c \in Consumer, Forget(c)
          PROVE  ClaimedHasToken' /\ ClaimHasOneHolder'
      BY <2>4, OthersKeepHolder DEF Forget, TypeOK
    <2>5. ASSUME NEW m \in Id, inbox' = Requeued(m), held' = held
          PROVE  ClaimedHasToken' /\ ClaimHasOneHolder'
      <3>1. \A n \in Id : inbox'[n].state = "claimed" => inbox'[n] = inbox[n]
        BY <2>5, RequeuedFacts
      <3>2. QED BY <2>5, <3>1, OthersKeepHolder
    <2>6. QED
      BY <2>1, <2>2, <2>3, <2>4, <2>5, ClaimKeepsHolder
         DEF Step, Consume, Decide, Revoke, TemporaryEnds, Reply, ReplyLeaves, Tick, vars
  <1>3. QED BY <1>1, <1>2, PTL DEF Spec

(* Whoever keeps the token of the current claim is its owner.              *)
THEOREM ClaimsHaveOneHolder == Spec => []ClaimHasOneHolder
  <1>1. HolderInv => ClaimHasOneHolder
    BY DEF HolderInv
  <1>2. QED BY <1>1, HolderInvHolds, PTL
-----------------------------------------------------------------------------
(* Recorded results and the outbox.                                        *)
ReplyHasContent ==
    \A m \in Id, k \in Key : reply[m][k].state # "absent" => reply[m][k].content # None

EmptyReplyIsAbsent ==
    \A m \in Id, k \in Key : reply[m][k].state = "absent" => reply[m][k].content = None

PublishedInv ==
    /\ TypeOK /\ AbsentIsEmpty /\ PendingIsWithheld
    /\ ReplyHasContent /\ EmptyReplyIsAbsent /\ ResultIsPublished

(* The reply of a step: each row is kept, leaves its state, or is new.     *)
ReplyStep(m, k) ==
    \/ reply'[m][k] = reply[m][k]
    \/ /\ reply[m][k].state # "absent" /\ reply'[m][k].state # "absent"
       /\ reply'[m][k].content = reply[m][k].content
    \/ /\ reply[m][k].state = "absent" /\ reply'[m][k].state = "live"
       /\ reply'[m][k].content \in Content

LEMMA ReplySteps ==
    ASSUME TypeOK, [Next]_vars, NEW m \in Id, NEW k \in Key
    PROVE  ReplyStep(m, k)
  <1>1. Step
    BY StepCases
  <1>2. CASE UNCHANGED reply
    BY <1>2 DEF ReplyStep
  <1>3. ASSUME NEW c \in Consumer, NEW n \in Id, NEW at \in ClockReading,
               NEW outcome \in Settled, NEW j \in Key, NEW offered \in Content \ OtherKind,
               SettleWithReply(c, n, outcome, j, offered, at)
        PROVE  ReplyStep(m, k)
    <2>1. PICK content \in Content : reply' = Published(n, j, content)
      BY <1>3, AuthoritativeFacts DEF SettleWithReply
    <2>2. QED BY <2>1 DEF Published, TypeOK, ReplyStep
  <1>4. ASSUME NEW n \in Id, NEW j \in Key, NEW content \in Content, Reply(n, j, content)
        PROVE  ReplyStep(m, k)
    BY <1>4 DEF Reply, TypeOK, ReplyStep
  <1>5. ASSUME NEW n \in Id, NEW j \in Key, NEW outcome \in {"sent", "dead"},
               ReplyLeaves(n, j, outcome)
        PROVE  ReplyStep(m, k)
    <2>1. reply[n][j] \in ReplyRow
      BY DEF TypeOK
    <2>2. CASE m = n /\ k = j
      <3>1. reply'[m][k] = [reply[m][k] EXCEPT !.state = outcome]
        BY <1>5, <2>2 DEF ReplyLeaves, TypeOK
      <3>2. QED BY <1>5, <2>1, <2>2, <3>1 DEF ReplyLeaves, ReplyRow, ReplyStep
    <2>3. CASE ~(m = n /\ k = j)
      BY <1>5, <2>3 DEF ReplyLeaves, TypeOK, ReplyStep
    <2>4. QED BY <2>2, <2>3
  <1>6. QED
    BY <1>1, <1>2, <1>3, <1>4, <1>5
       DEF Step, Persist, Claim, RenewClaim, Acknowledge, Park, Consume, Decide, Revoke,
           TemporaryEnds, Forget, Tick, vars

(* A settlement with a reply: its recorded result is under its key.        *)
LEMMA SettleFacts ==
    ASSUME PublishedInv, NEW c \in Consumer, NEW n \in Id, NEW at \in ClockReading,
           NEW outcome \in Settled, NEW k \in Key, NEW offered \in Content \ OtherKind,
           SettleWithReply(c, n, outcome, k, offered, at)
    PROVE  \E content \in Content :
               /\ reply[n][k].content \in {None, content}
               /\ reply'[n][k].state # "absent" /\ reply'[n][k].content = content
               /\ inbox'[n].result = <<k, content>> /\ inbox'[n].state = outcome
               /\ \A m \in Id, j \in Key :
                      m # n \/ j # k => reply'[m][j] = reply[m][j]
               /\ \A m \in Id : m # n => inbox'[m] = inbox[m]
  <1> USE DEF PublishedInv
  <1>1. PICK content \in Authoritative(n, k, offered) :
            /\ reply' = Published(n, k, content)
            /\ inbox' = [inbox EXCEPT ![n] =
                  [Unclaimed(@, outcome) EXCEPT !.result = <<k, content>>,
                                                !.accepted = held[c][n]]]
    BY DEF SettleWithReply
  <1>2. content \in Content /\ reply[n][k].content \in {None, content}
    BY AuthoritativeFacts
  <1>3. inbox[n] \in Row
    BY DEF TypeOK
  <1>4. inbox'[n] = [Unclaimed(inbox[n], outcome) EXCEPT !.result = <<k, content>>,
                                                         !.accepted = held[c][n]]
    BY <1>1 DEF TypeOK
  <1>5. inbox'[n].result = <<k, content>> /\ inbox'[n].state = outcome
    BY <1>3, <1>4 DEF Unclaimed, Row
  <1>6. reply'[n][k].state # "absent" /\ reply'[n][k].content = content
    BY <1>1, <1>2 DEF Published, TypeOK, ReplyHasContent
  <1>7. \A m \in Id, j \in Key : m # n \/ j # k => reply'[m][j] = reply[m][j]
    BY <1>1 DEF Published, TypeOK
  <1>8. \A m \in Id : m # n => inbox'[m] = inbox[m]
    BY <1>1 DEF TypeOK
  <1>9. QED BY <1>2, <1>5, <1>6, <1>7, <1>8

(* Every other step leaves the recorded results alone.                     *)
LEMMA AcknowledgeFacts ==
    ASSUME TypeOK, NEW c \in Consumer, NEW n \in Id, NEW at \in ClockReading,
           NEW outcome \in {"processed", "rejected", "available"},
           Acknowledge(c, n, outcome, at), NEW m \in Id
    PROVE  /\ inbox'[m].result = inbox[m].result
           /\ m # n => inbox'[m] = inbox[m]
           /\ m = n => inbox'[m].state = outcome
  <1>1. inbox[m] \in Row
    BY DEF TypeOK
  <1>2. CASE m = n
    <2>1. inbox'[m] = [Unclaimed(inbox[m], outcome) EXCEPT !.accepted = held[c][n]]
      BY <1>2 DEF Acknowledge, TypeOK
    <2>2. QED BY <1>1, <1>2, <2>1 DEF Unclaimed, Row
  <1>3. CASE m # n
    BY <1>3 DEF Acknowledge, TypeOK
  <1>4. QED BY <1>2, <1>3

LEMMA OtherResults ==
    ASSUME PublishedInv, [Next]_vars, NEW m \in Id,
           ~\E c \in Consumer, n \in Id, at \in ClockReading,
               outcome \in Settled, k \in Key, offered \in Content \ OtherKind :
                   SettleWithReply(c, n, outcome, k, offered, at)
    PROVE  inbox'[m].result = inbox[m].result
  <1>0. Step /\ TypeOK /\ AbsentIsEmpty /\ inbox[m] \in Row
    BY StepCases DEF PublishedInv, TypeOK
  <1>1. CASE inbox' = inbox
    BY <1>1
  <1>2. ASSUME NEW p \in Peer, NEW n \in Id, NEW v \in Version, NEW life \in Lifetime,
               Persist(n, p, v, life)
        PROVE  inbox'[m].result = inbox[m].result
    <2>1. CASE inbox[m].state = "absent"
      <3>1. inbox[m].result = None
        BY <1>0, <2>1 DEF AbsentIsEmpty, NoRow
      <3>2. inbox'[m] = inbox[m] \/ inbox'[m].result = None
        BY <1>0, <1>2, <2>1 DEF Persist, CollisionFromOrigin, TypeOK, NoRow
      <3>3. QED BY <3>1, <3>2
    <2>2. CASE inbox[m].state # "absent"
      <3>1. \/ inbox'[m] = inbox[m]
            \/ inbox'[m] = [inbox[m] EXCEPT !.state = "quarantined"]
        BY <1>0, <1>2, <2>2 DEF Persist, TypeOK
      <3>2. QED BY <1>0, <3>1 DEF Row
    <2>3. QED BY <2>1, <2>2
  <1>3. ASSUME NEW c \in Consumer, NEW at \in ClockReading, NEW chosen \in SUBSET Id,
               NEW fresh \in [chosen -> Token \ UsedTokens], Claim(c, chosen, fresh, at)
        PROVE  inbox'[m].result = inbox[m].result
    <2>1. Swept(inbox[m], at).result = inbox[m].result /\ Swept(inbox[m], at) \in Row
      BY <1>0, ClockType, SweptFacts
    <2>2. QED BY <1>3, <2>1 DEF Claim, Row
  <1>4. ASSUME NEW c \in Consumer, NEW n \in Id, NEW at \in ClockReading,
               RenewClaim(c, n, at)
        PROVE  inbox'[m].result = inbox[m].result
    <2>1. \/ inbox'[m] = inbox[m]
          \/ inbox'[m] = [inbox[m] EXCEPT !.until = at + LeaseSeconds,
                                          !.accepted = held[c][n]]
      BY <1>0, <1>4 DEF RenewClaim, TypeOK
    <2>2. QED BY <1>0, <2>1 DEF Row
  <1>5. ASSUME NEW c \in Consumer, NEW n \in Id, NEW at \in ClockReading, NEW ended \in Ends,
               Park(c, n, ended, at)
        PROVE  inbox'[m].result = inbox[m].result
    <2>1. \/ inbox'[m] = inbox[m]
          \/ inbox'[m] = [Unclaimed(inbox[m], "quarantined") EXCEPT
                              !.accepted = held[c][n]]
      BY <1>0, <1>5 DEF Park, TypeOK
    <2>2. QED BY <1>0, <2>1 DEF Unclaimed, Row
  <1>6. ASSUME NEW n \in Id, inbox' = Requeued(n)
        PROVE  inbox'[m].result = inbox[m].result
    BY <1>0, <1>6, RequeuedFacts
  <1>7. QED
    BY <1>0, <1>1, <1>2, <1>3, <1>4, <1>5, <1>6, AcknowledgeFacts
       DEF Step, Consume, Decide, Revoke, TemporaryEnds, Reply, ReplyLeaves, Forget,
           Tick, vars

LEMMA PublishedInvHolds == Spec => []PublishedInv
  <1>1. Init => PublishedInv
    BY InitType, InboxAssumption DEF Init, NoRow, NoReply, PublishedInv, AbsentIsEmpty, ReplyHasContent,
                    EmptyReplyIsAbsent, ResultIsPublished, PendingIsWithheld
  <1>2. TypeOK /\ ReplyHasContent /\ EmptyReplyIsAbsent /\ [Next]_vars =>
            ReplyHasContent' /\ EmptyReplyIsAbsent'
    BY InboxAssumption, ReplySteps DEF ReplyStep, ReplyHasContent, EmptyReplyIsAbsent
  <1>3. PublishedInv /\ [Next]_vars => ResultIsPublished'
    <2> SUFFICES ASSUME PublishedInv, [Next]_vars, NEW m \in Id, NEW k \in Key,
                        NEW content \in Content, inbox'[m].result = <<k, content>>
                 PROVE  reply'[m][k].state # "absent" /\ reply'[m][k].content = content
      BY DEF ResultIsPublished
    <2> USE DEF PublishedInv
    <2>1. CASE inbox'[m].result = inbox[m].result
      <3>1. reply[m][k].state # "absent" /\ reply[m][k].content = content
        BY <2>1 DEF ResultIsPublished
      <3>2. QED BY <3>1, ReplySteps DEF ReplyStep
    <2>2. ASSUME NEW c \in Consumer, NEW n \in Id, NEW at \in ClockReading,
                 NEW outcome \in Settled, NEW j \in Key, NEW offered \in Content \ OtherKind,
                 SettleWithReply(c, n, outcome, j, offered, at),
                 inbox'[m].result # inbox[m].result
          PROVE  reply'[m][k].state # "absent" /\ reply'[m][k].content = content
      <3>1. PICK other \in Content :
                /\ reply'[n][j].state # "absent" /\ reply'[n][j].content = other
                /\ inbox'[n].result = <<j, other>>
                /\ \A i \in Id : i # n => inbox'[i] = inbox[i]
        BY <2>2, SettleFacts
      <3>2. m = n
        BY <2>2, <3>1
      <3>3. j = k /\ other = content
        BY <3>1, <3>2
      <3>4. QED BY <3>1, <3>2, <3>3
    <2>3. QED BY <2>1, <2>2, OtherResults
  <1>4. PublishedInv /\ [Next]_vars => PublishedInv'
    BY <1>2, <1>3, NextType, AbsentStep, PendingStep DEF PublishedInv
  <1>5. QED BY <1>1, <1>4, PTL DEF Spec

(* The result recorded with a settled message is in the outbox, with just  *)
(* that content.                                                           *)
THEOREM ResultsArePublished == Spec => []ResultIsPublished
  <1>1. PublishedInv => ResultIsPublished
    BY DEF PublishedInv
  <1>2. QED BY <1>1, PublishedInvHolds, PTL

-----------------------------------------------------------------------------
(* The inbox implements FencedAnswer.                                      *)
Answers == [m \in Id |-> inbox[m].result]
Contents == [m \in Id |-> [k \in Key |-> reply[m][k].content]]

(* The step of FencedAnswer that a step of the inbox maps to.              *)
LEMMA SettleIsAnswer ==
    ASSUME PublishedInv, NEW c \in Consumer, NEW n \in Id, NEW at \in ClockReading,
           NEW outcome \in Settled, NEW k \in Key, NEW offered \in Content \ OtherKind,
           SettleWithReply(c, n, outcome, k, offered, at)
    PROVE  \E content \in Content : Abstract!Answer(n, k, content)
  <1>1. PICK content \in Content :
            /\ reply[n][k].content \in {None, content}
            /\ reply'[n][k].content = content
            /\ inbox'[n].result = <<k, content>> /\ inbox'[n].state = outcome
            /\ \A m \in Id, j \in Key : m # n \/ j # k => reply'[m][j] = reply[m][j]
            /\ \A m \in Id : m # n => inbox'[m] = inbox[m]
    BY SettleFacts
  <1>2. inbox[n].state = "claimed"
    BY DEF SettleWithReply, ClaimValid
  <1>3. Status[n] = "open" /\ Status' = [Status EXCEPT ![n] = "closed"]
    BY <1>1, <1>2 DEF Status
  <1>4. Answers' = [Answers EXCEPT ![n] = <<k, content>>]
    BY <1>1 DEF Answers
  <1>5. Contents[n][k] \in {None, content}
    BY <1>1 DEF Contents
  <1>6. Contents' = [Contents EXCEPT ![n][k] = content]
    <2> DEFINE result == [m \in Id |-> [j \in Key |->
                             IF m = n /\ j = k THEN content ELSE reply[m][j].content]]
    <2>1. \A m \in Id, j \in Key :
              reply'[m][j].content = IF m = n /\ j = k THEN content ELSE reply[m][j].content
      BY <1>1
    <2>2. Contents' = result
      BY <2>1 DEF Contents
    <2>3. [Contents EXCEPT ![n][k] = content] = result
      BY DEF Contents
    <2>4. QED BY <2>2, <2>3
  <1>7. Permit' = Permit
    BY DEF SettleWithReply, Permit
  <1>8. QED BY <1>3, <1>4, <1>5, <1>6, <1>7 DEF Abstract!Answer, Answers, Contents

LEMMA AcknowledgeIsClose ==
    ASSUME PublishedInv, NEW c \in Consumer, NEW n \in Id, NEW at \in ClockReading,
           NEW outcome \in {"processed", "rejected", "available"},
           Acknowledge(c, n, outcome, at)
    PROVE  Abstract!Close(n) \/ UNCHANGED <<Status, Permit, Answers, Contents>>
  <1>1. \A m \in Id : /\ inbox'[m].result = inbox[m].result
                      /\ m # n => inbox'[m] = inbox[m]
                      /\ m = n => inbox'[m].state = outcome
    BY AcknowledgeFacts DEF PublishedInv
  <1>2. inbox[n].state = "claimed" /\ reply' = reply
    BY DEF Acknowledge, ClaimValid
  <1>3. Answers' = Answers /\ Contents' = Contents /\ Permit' = Permit
    BY <1>1, <1>2 DEF Acknowledge, Answers, Contents, Permit
  <1>4. CASE outcome = "available"
    <2>1. Status' = Status
      BY <1>1, <1>2, <1>4 DEF Status
    <2>2. QED BY <1>3, <2>1
  <1>5. CASE outcome \in Settled
    <2>1. Status[n] = "open" /\ Status' = [Status EXCEPT ![n] = "closed"]
      BY <1>1, <1>2, <1>5 DEF Status
    <2>2. QED BY <1>3, <2>1 DEF Abstract!Close, Answers, Contents
  <1>6. QED BY <1>4, <1>5

(* A step that settles nothing and touches at most one row.                *)
LEMMA PersistIsReceive ==
    ASSUME PublishedInv, NEW n \in Id, NEW p \in Peer, NEW v \in Version,
           NEW life \in Lifetime, Persist(n, p, v, life)
    PROVE  \/ Abstract!Receive(n) \/ Abstract!Poison(n)
           \/ UNCHANGED <<Status, Permit, Answers, Contents>>
  <1> USE DEF PublishedInv
  <1>1. reply' = reply /\ Contents' = Contents /\ Permit' = Permit
    BY DEF Persist, Contents, Permit
  <1>2. inbox[n] \in Row /\ \A m \in Id : m # n => inbox'[m] = inbox[m]
    BY DEF Persist, TypeOK
  <1>3. CASE inbox' = inbox
    BY <1>1, <1>3 DEF Status, Answers
  <1>4. CASE inbox[n].state = "absent" /\ inbox' # inbox
    <2>0. inbox[n].result = None
      BY <1>4 DEF AbsentIsEmpty, NoRow
    <2> TypeOK
      OBVIOUS
    <2>1. inbox'[n].state = "available" /\ inbox'[n].result = None
      <3> HIDE DEF PublishedInv
      <3>1. inbox' = [inbox EXCEPT ![n] =
                 [NoRow EXCEPT !.state = "available", !.origin = p, !.version = v,
                               !.received = now, !.expires = now + life]]
        BY <1>4 DEF Persist, CollisionFromOrigin
      <3>2. QED BY <1>4, <3>1 DEF TypeOK, NoRow
    <2>2. Status[n] = "unknown" /\ Status' = [Status EXCEPT ![n] = "open"]
      BY <1>2, <1>4, <2>1 DEF Status
    <2>3. Answers' = Answers
      BY <1>2, <2>0, <2>1 DEF Answers
    <2>4. QED BY <1>1, <2>2, <2>3 DEF Abstract!Receive, Answers, Contents
  <1>5. CASE inbox[n].state # "absent" /\ inbox' # inbox
    <2>1. inbox' = [inbox EXCEPT ![n].state = "quarantined"]
      BY <1>5 DEF Persist
    <2>2. inbox'[n] = [inbox[n] EXCEPT !.state = "quarantined"]
      BY <2>1 DEF TypeOK
    <2>3. inbox'[n].state = "quarantined" /\ inbox'[n].result = inbox[n].result
      BY <1>2, <2>2 DEF Row
    <2>4. Answers' = Answers /\ Status' = [Status EXCEPT ![n] = "withheld"]
      BY <1>2, <2>3 DEF Answers, Status
    <2>5. Status[n] \in {"open", "closed"} \/ Status' = Status
      BY <1>2, <1>5, <2>4 DEF Status, Row
    <2>6. QED BY <1>1, <2>4, <2>5 DEF Abstract!Poison, Answers, Contents
  <1>6. QED BY <1>3, <1>4, <1>5

LEMMA ReplyIsReply ==
    ASSUME PublishedInv, NEW n \in Id, NEW k \in Key, NEW content \in Content,
           Reply(n, k, content)
    PROVE  Abstract!Reply(n, k, content)
  <1> USE DEF PublishedInv
  <1>1. inbox' = inbox /\ inbox[n] \in Row /\ inbox[n].state # "absent"
    BY DEF Reply, TypeOK
  <1>2. /\ Status' = Status /\ Answers' = Answers /\ Status[n] # "unknown"
        /\ Permit' = Permit
    BY <1>1 DEF Reply, Status, Answers, Permit
  <1>3. Contents[n][k] = None
    BY DEF Reply, EmptyReplyIsAbsent, Contents
  <1>4. Contents' = [Contents EXCEPT ![n][k] = content]
    BY DEF Reply, TypeOK, Contents
  <1>5. QED BY <1>2, <1>3, <1>4 DEF Abstract!Reply, Answers, Contents

(* Temporary approvals end as permits do.                                  *)
LEMMA ExpiredPermits ==
    ASSUME TypeOK, NEW ended \in Ends
    PROVE  /\ ended \in Abstract!Ends
           /\ Abstract!Expired(ended)
                  = [m \in Id |-> IF m \in ended THEN "closed" ELSE Permit[m]]
  BY DEF Ends, Permit, Abstract!Ends, Abstract!Expired

LEMMA PermitChange ==
    ASSUME TypeOK, NEW ended \in Ends, NEW n \in Id, NEW state \in RequestState,
           asked' = [Expired(ended) EXCEPT ![n] = state]
    PROVE  Permit' = [Abstract!Expired(ended) EXCEPT
                          ![n] = IF state \in {"approved_once", "approved_temporary"}
                                   THEN "approved" ELSE state]
  <1>1. Abstract!Expired(ended) = [m \in Id |-> IF m \in ended THEN "closed" ELSE Permit[m]]
    BY ExpiredPermits
  <1>2. asked' = [m \in Id |-> IF m = n THEN state
                               ELSE IF m \in ended THEN "closed" ELSE asked[m]]
    BY DEF Expired
  <1>3. QED BY <1>1, <1>2 DEF Permit

LEMMA ParkIsAsk ==
    ASSUME PublishedInv, NEW c \in Consumer, NEW n \in Id, NEW at \in ClockReading,
           NEW ended \in Ends, Park(c, n, ended, at)
    PROVE  Abstract!Ask(n, ended)
  <1> USE DEF PublishedInv
  <1>1. /\ reply' = reply /\ inbox[n] \in Row
        /\ \A m \in Id : m # n => inbox'[m] = inbox[m]
        /\ inbox[n].state = "claimed"
    BY DEF Park, ClaimValid, TypeOK
  <1>2. inbox'[n] = [Unclaimed(inbox[n], "quarantined") EXCEPT !.accepted = held[c][n]]
    BY DEF Park, TypeOK
  <1>3. inbox'[n].state = "quarantined" /\ inbox'[n].result = inbox[n].result
    BY <1>1, <1>2 DEF Unclaimed, Row
  <1>4. asked[n] = "none" /\ asked' = [Expired(ended) EXCEPT ![n] = "pending"]
    BY <1>1 DEF Park, PendingIsWithheld
  <1>5. /\ Permit[n] = "none"
        /\ Permit' = [Abstract!Expired(ended) EXCEPT ![n] = "pending"]
    BY <1>4, PermitChange DEF Permit, RequestState
  <1>6. Status[n] = "open" /\ Status' = [Status EXCEPT ![n] = "withheld"]
    BY <1>1, <1>3 DEF Status
  <1>7. Answers' = Answers /\ Contents' = Contents
    BY <1>1, <1>3 DEF Answers, Contents
  <1>8. QED BY <1>5, <1>6, <1>7 DEF Abstract!Ask, Answers, Contents

(* A requeue opens what was withheld, and nothing else.                    *)
LEMMA RequeuedStatus ==
    ASSUME TypeOK, NEW n \in Id, inbox' = Requeued(n), reply' = reply
    PROVE  /\ Answers' = Answers /\ Contents' = Contents
           /\ inbox[n].state = "quarantined" => Status[n] = "withheld"
           /\ Status' = [Status EXCEPT ![n] = IF @ = "withheld" THEN "open" ELSE @]
  <1>1. inbox[n] \in Row
    BY DEF TypeOK
  <1>2. Status[n] = "withheld" <=> inbox[n].state = "quarantined"
    BY <1>1 DEF Status, Row
  <1>3. Answers' = Answers /\ Contents' = Contents
    BY RequeuedFacts DEF Answers, Contents
  <1>4. CASE inbox[n].state = "quarantined"
    <2>1. /\ inbox'[n].state = "available"
          /\ \A m \in Id : m # n => inbox'[m] = inbox[m]
      BY <1>1, <1>4, UnclaimedType DEF Requeued, TypeOK
    <2>2. Status' = [Status EXCEPT ![n] = "open"]
      BY <2>1 DEF Status
    <2>3. QED BY <1>2, <1>3, <1>4, <2>2
  <1>5. CASE inbox[n].state # "quarantined"
    <2>1. inbox' = inbox
      BY <1>5 DEF Requeued
    <2>2. Status' = Status /\ Status = [Status EXCEPT ![n] = Status[n]]
      BY <2>1 DEF Status
    <2>3. QED BY <1>2, <1>3, <1>5, <2>2
  <1>6. QED BY <1>4, <1>5

LEMMA DecideIsDecide ==
    ASSUME PublishedInv, NEW n \in Id,
           NEW decision \in {"approved_once", "approved_temporary", "closed"},
           NEW ended \in Ends, Decide(n, decision, ended)
    PROVE  \E d \in {"approved", "closed"} : Abstract!Decide(n, d, ended)
  <1> DEFINE d == IF decision = "closed" THEN "closed" ELSE "approved"
  <1>0. TypeOK /\ PendingIsWithheld
    BY DEF PublishedInv
  <1>1. inbox[n].state = "quarantined"
    BY <1>0 DEF Decide, PendingIsWithheld
  <1>2. /\ Answers' = Answers /\ Contents' = Contents /\ Status[n] = "withheld"
        /\ Status' = [Status EXCEPT ![n] = "open"]
    BY <1>0, <1>1, RequeuedStatus DEF Decide
  <1>3. /\ Permit[n] = "pending"
        /\ Permit' = [Abstract!Expired(ended) EXCEPT ![n] = d]
    BY <1>0, PermitChange DEF Decide, Permit, RequestState
  <1>4. Abstract!Decide(n, d, ended)
    BY <1>2, <1>3 DEF Abstract!Decide, Answers, Contents
  <1>5. QED BY <1>4

LEMMA RevokeIsRevoke ==
    ASSUME PublishedInv, NEW n \in Id, NEW ended \in Ends, Revoke(n, ended)
    PROVE  Abstract!Revoke(n, ended)
  <1>0. TypeOK
    BY DEF PublishedInv
  <1>1. /\ Answers' = Answers /\ Contents' = Contents
        /\ Status' = [Status EXCEPT ![n] = IF @ = "withheld" THEN "open" ELSE @]
    BY <1>0, RequeuedStatus DEF Revoke
  <1>2. /\ Permit[n] = "approved" /\ n \notin ended
        /\ Permit' = [Abstract!Expired(ended) EXCEPT ![n] = "closed"]
    BY <1>0, PermitChange DEF Revoke, Permit, RequestState
  <1>3. QED BY <1>1, <1>2 DEF Abstract!Revoke, Answers, Contents

(* A spent approval and temporary approvals that end.                      *)
LEMMA EndIsEnd ==
    ASSUME PublishedInv, NEW ended \in SUBSET Id,
           \A m \in ended : asked[m] \in {"approved_once", "approved_temporary"},
           asked' = Expired(ended),
           UNCHANGED <<inbox, reply>>
    PROVE  Abstract!Next
  <1>1. Status' = Status /\ Answers' = Answers /\ Contents' = Contents
    BY DEF Status, Answers, Contents
  <1>2. ended \in Abstract!Ends
    BY DEF Permit, Abstract!Ends
  <1>3. Permit' = Abstract!Expired(ended)
    BY DEF Permit, Expired, Abstract!Expired
  <1>4. Abstract!PermitsEnd(ended)
    BY <1>1, <1>3 DEF Abstract!PermitsEnd, Answers, Contents
  <1>5. QED BY <1>2, <1>4 DEF Abstract!Next

(* A step that opens, closes and answers nothing is invisible.             *)
LEMMA InvisibleStep ==
    ASSUME TypeOK, asked' = asked,
           \A m \in Id : /\ inbox'[m].result = inbox[m].result
                         /\ \/ inbox'[m].state = inbox[m].state
                            \/ {inbox[m].state, inbox'[m].state}
                                   \subseteq {"available", "claimed"},
           \A m \in Id, k \in Key : reply'[m][k].content = reply[m][k].content
    PROVE  UNCHANGED <<Status, Permit, Answers, Contents>>
  BY DEF Status, Permit, Answers, Contents

LEMMA StepImplements ==
    PublishedInv /\ [Next]_vars => Abstract!Next \/ UNCHANGED <<Status, Permit, Answers, Contents>>
  <1> SUFFICES ASSUME PublishedInv, [Next]_vars, Step
               PROVE  Abstract!Next \/ UNCHANGED <<Status, Permit, Answers, Contents>>
    BY StepCases
  <1> DEFINE Quiet == UNCHANGED <<Status, Permit, Answers, Contents>>
  <1>0. TypeOK
    BY DEF PublishedInv
  <1>1. ASSUME NEW n \in Id, NEW p \in Peer, NEW v \in Version, NEW life \in Lifetime,
               Persist(n, p, v, life)
        PROVE  Abstract!Next \/ Quiet
    BY <1>1, PersistIsReceive DEF Abstract!Next
  <1>2. ASSUME NEW c \in Consumer, NEW at \in ClockReading, NEW chosen \in SUBSET Id,
               NEW fresh \in [chosen -> Token \ UsedTokens], Claim(c, chosen, fresh, at)
        PROVE  Quiet
    <2>1. \A m \in Id : /\ Swept(inbox[m], at) \in Row
                        /\ Swept(inbox[m], at).result = inbox[m].result
      BY <1>0, ClockType, SweptFacts DEF TypeOK
    <2>2. \A m \in Id : inbox'[m].result = inbox[m].result
      BY <1>2, <2>1 DEF Claim, Row
    <2>3. \A m \in Id : \/ inbox'[m].state = inbox[m].state
                        \/ {inbox[m].state, inbox'[m].state} \subseteq {"available", "claimed"}
      <3> TAKE m \in Id
      <3>1. inbox'[m] = inbox[m] \/ inbox'[m].state \in {"available", "claimed"}
        BY <1>0, <1>2, ClaimRow
      <3>2. CASE m \in chosen
        <4>1. inbox[m].state \in {"available", "claimed"}
          BY <1>2, <3>2 DEF Claim, OldestFirst, Claimable, Swept
        <4>2. QED BY <3>1, <4>1
      <3>3. CASE m \notin chosen
        <4>1. inbox'[m] = Swept(inbox[m], at)
          BY <1>2, <3>3 DEF Claim
        <4>2. QED BY <3>1, <4>1 DEF Swept
      <3>4. QED BY <3>2, <3>3
    <2>4. reply' = reply /\ asked' = asked
      BY <1>2 DEF Claim
    <2>5. QED BY <1>0, <2>2, <2>3, <2>4, InvisibleStep
  <1>3. ASSUME NEW c \in Consumer, NEW n \in Id, NEW at \in ClockReading,
               RenewClaim(c, n, at)
        PROVE  Quiet
    <2>1. (\A m \in Id : inbox[m] \in Row) /\ reply' = reply /\ asked' = asked
      BY <1>0, <1>3 DEF TypeOK, RenewClaim
    <2>2. \A m \in Id :
             \/ inbox'[m] = inbox[m]
             \/ inbox'[m] = [inbox[m] EXCEPT !.until = at + LeaseSeconds,
                                             !.accepted = held[c][n]]
      BY <1>0, <1>3 DEF RenewClaim, TypeOK
    <2>3. ASSUME NEW m \in Id
          PROVE  inbox'[m].result = inbox[m].result /\ inbox'[m].state = inbox[m].state
      <3>1. inbox[m] \in Row
        BY <2>1
      <3>2. CASE inbox'[m] = [inbox[m] EXCEPT !.until = at + LeaseSeconds,
                                             !.accepted = held[c][n]]
        BY <3>1, <3>2 DEF Row
      <3>3. QED BY <2>2, <3>2
    <2>4. QED BY <1>0, <2>1, <2>3, InvisibleStep
  <1>4. ASSUME NEW c \in Consumer, NEW n \in Id, NEW at \in ClockReading,
               NEW outcome \in {"processed", "rejected", "available"},
               Acknowledge(c, n, outcome, at)
        PROVE  Abstract!Next \/ Quiet
    BY <1>4, AcknowledgeIsClose DEF Abstract!Next
  <1>5. ASSUME NEW c \in Consumer, NEW n \in Id, NEW at \in ClockReading,
               NEW outcome \in Settled, NEW k \in Key, NEW offered \in Content \ OtherKind,
               SettleWithReply(c, n, outcome, k, offered, at)
        PROVE  Abstract!Next
    BY <1>5, SettleIsAnswer DEF Abstract!Next
  <1>6. ASSUME NEW n \in Id, NEW k \in Key, NEW content \in Content, Reply(n, k, content)
        PROVE  Abstract!Next
    BY <1>6, ReplyIsReply DEF Abstract!Next
  <1>7. ASSUME NEW n \in Id, NEW k \in Key, NEW outcome \in {"sent", "dead"},
               ReplyLeaves(n, k, outcome)
        PROVE  Quiet
    <2>1. inbox' = inbox /\ asked' = asked /\ reply[n][k].state # "absent"
      BY <1>7 DEF ReplyLeaves
    <2>2. \A m \in Id, j \in Key : reply'[m][j].content = reply[m][j].content
      <3> TAKE m \in Id, j \in Key
      <3>1. reply[m][j] \in ReplyRow
        BY <1>0 DEF TypeOK
      <3>2. CASE m = n /\ j = k
        <4>1. reply'[m][j] = [reply[m][j] EXCEPT !.state = outcome]
          BY <1>0, <1>7, <3>2 DEF ReplyLeaves, TypeOK
        <4>2. QED BY <3>1, <4>1 DEF ReplyRow
      <3>3. CASE ~(m = n /\ j = k)
        BY <1>0, <1>7, <3>3 DEF ReplyLeaves, TypeOK
      <3>4. QED BY <3>2, <3>3
    <2>3. QED BY <1>0, <2>1, <2>2, InvisibleStep
  <1>8. CASE UNCHANGED <<inbox, reply, asked>>
    BY <1>0, <1>8, InvisibleStep
  <1>9. ASSUME NEW c \in Consumer, NEW n \in Id, NEW at \in ClockReading, NEW ended \in Ends,
               Park(c, n, ended, at)
        PROVE  Abstract!Next
    BY <1>0, <1>9, ParkIsAsk, ExpiredPermits DEF Abstract!Next
  <1>10. ASSUME NEW c \in Consumer, NEW n \in Id, NEW at \in ClockReading, NEW ended \in Ends,
                Consume(c, n, ended, at)
         PROVE  Abstract!Next
    <2>1. asked' = Expired(ended \cup {n})
      BY <1>0, <1>10 DEF Consume, Expired, TypeOK
    <2>2. /\ ended \cup {n} \in SUBSET Id
          /\ \A m \in ended \cup {n} : asked[m] \in {"approved_once", "approved_temporary"}
      BY <1>10 DEF Consume, Ends
    <2>3. QED BY <1>10, <2>1, <2>2, EndIsEnd DEF Consume
  <1>11. ASSUME NEW n \in Id, NEW ended \in Ends,
                NEW decision \in {"approved_once", "approved_temporary", "closed"},
                Decide(n, decision, ended)
         PROVE  Abstract!Next
    BY <1>0, <1>11, DecideIsDecide, ExpiredPermits DEF Abstract!Next
  <1>12. ASSUME NEW n \in Id, NEW ended \in Ends, Revoke(n, ended) PROVE Abstract!Next
    BY <1>0, <1>12, RevokeIsRevoke, ExpiredPermits DEF Abstract!Next
  <1>13. ASSUME NEW ended \in Ends, TemporaryEnds(ended) PROVE Abstract!Next
    BY <1>13, EndIsEnd DEF TemporaryEnds, Ends
  <1>14. QED
    BY <1>1, <1>2, <1>3, <1>4, <1>5, <1>6, <1>7, <1>8, <1>9, <1>10, <1>11, <1>12, <1>13
       DEF Step, Forget, Tick, vars

(* However many consumers work on a request, lose their claims and come    *)
(* back, the node closes it once and publishes the answer with it; only    *)
(* the revocation of its standing approval can open one again that its     *)
(* origin poisoned.                                                        *)
THEOREM InboxImplementsFencedAnswer == Spec => ImplementsFencedAnswer
  <1>1. Init => Abstract!Init
    BY DEF Init, NoRow, NoReply, Abstract!Init, Status, Permit
  <1>2. PublishedInv /\ [Next]_vars => [Abstract!Next]_(Abstract!favars)
    BY StepImplements DEF Abstract!favars, Answers, Contents
  <1>3. QED
    BY <1>1, <1>2, PublishedInvHolds, PTL DEF Spec, ImplementsFencedAnswer, Abstract!Spec
=============================================================================
