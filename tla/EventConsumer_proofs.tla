------------------------ MODULE EventConsumer_proofs ------------------------
(***************************************************************************)
(* Safety of the durable consumer for every set of messages, keys and      *)
(* processes and every limit.  None of its promises is inductive: each     *)
(* needs to know where an effect came from.  A key is remembered or being  *)
(* returned only after its handler had its effect (SeenInv, ActedInv), a   *)
(* handler is never inside a key that is remembered (FreshInv), and the    *)
(* last delivery of a message is somewhere until it is answered (LastInv). *)
(***************************************************************************)
EXTENDS EventConsumer, FiniteSetTheorems, SequenceTheorems, TLAPS

Deliveries == [msg : Msgs, n : 1 .. MaxDeliver]
Jobs == [pc : {"handle", "acted"}, msg : Msgs, n : 1 .. MaxDeliver]
Working(u) == job[u].pc # "idle"

\* What a process holds, beyond TypeOK.
Types ==
  /\ TypeOK
  /\ job \in [Pumps -> Jobs \cup {Idle}]
  /\ inbox \in [Pumps -> Seq(Deliveries)]
  /\ seen \in [Procs -> Seq(Keys)]
  /\ faults \in [FaultKinds -> Nat]

\* A key is remembered only after its handler had its effect in the process.
SeenInv == \A p \in Procs : \A k \in Range(seen[p]) : acts[p][k] > 0

\* So is a job that has yet to return.
ActedInv == \A u \in Pumps : job[u].pc = "acted" => acts[Proc(u)][Key(u)] > 0

\* A handler is inside a key the process does not remember.
FreshInv == \A u \in Pumps : Working(u) => Key(u) \notin Range(seen[Proc(u)])

\* An effect that is neither remembered nor about to be was lost to a handler that
\* threw, to a crash or to the limit of the store.
Kept(p, k) == k \in Range(seen[p]) \/ \E u \in Pumps : Proc(u) = p /\ job[u].pc = "acted" /\ Key(u) = k
EffectsInv ==
  \A p \in Procs, k \in Keys :
    acts[p][k] <= (IF Kept(p, k) THEN 1 ELSE 0) + faults["throw"] + faults["crash"] + evicted[p]

\* The last delivery of a message is with somebody, was answered, or was dropped;
\* the server gives a message up only after it.
LastInv ==
  \A m \in Msgs :
    /\ count[m] = MaxDeliver => Worked(m) \/ m \in announced \cup dropped \/ HadEffect(m)
    /\ srv[m] = "parked" => count[m] = MaxDeliver

ConsumerInv ==
  Types /\ OneAtATime /\ SeenInv /\ ActedInv /\ FreshInv /\ EffectsInv /\ LastInv /\ AckedIsHandled

-----------------------------------------------------------------------------
(* Sequences, the store and the pumps                                      *)

\* Taking the head of a sequence.
LEMMA HeadAndTail ==
  ASSUME NEW S, NEW s \in Seq(S), s # <<>>
  PROVE  /\ Head(s) \in S /\ Tail(s) \in Seq(S) /\ Len(Tail(s)) = Len(s) - 1
         /\ Head(s) \in Range(s) /\ Range(s) = {Head(s)} \cup Range(Tail(s))
<1>1. /\ Len(s) \in Nat \ {0} /\ Head(s) = s[1] /\ Head(s) \in S
      /\ Tail(s) \in Seq(S) /\ Len(Tail(s)) = Len(s) - 1
      /\ \A i \in 1 .. Len(s) - 1 : Tail(s)[i] = s[i + 1]
  BY HeadTailProperties
<1> DEFINE t == Tail(s)
<1>2. DOMAIN s = 1 .. Len(s) /\ DOMAIN t = 1 .. Len(t)
  BY <1>1
<1> HIDE DEF t
<1>3. \A i \in 1 .. Len(s) : i = 1 \/ (i - 1 \in 1 .. Len(t) /\ s[i] = t[i - 1])
  BY <1>1 DEF t
<1>4. \A i \in 1 .. Len(t) : i + 1 \in 1 .. Len(s) /\ t[i] = s[i + 1]
  BY <1>1 DEF t
<1>5. s[1] \in Range(s)
  BY <1>1, <1>2 DEF Range
<1>6. Range(s) = {s[1]} \cup Range(t)
  <2>1. \A x \in Range(s) : x = s[1] \/ x \in Range(t)
    <3> SUFFICES ASSUME NEW x \in Range(s)
                 PROVE  x = s[1] \/ x \in Range(t)
      OBVIOUS
    <3>1. PICK i \in 1 .. Len(s) : x = s[i]
      BY <1>2 DEF Range
    <3> QED
      BY <1>2, <1>3, <3>1 DEF Range
  <2>2. \A x \in Range(t) : x \in Range(s)
    BY <1>2, <1>4, Zenon DEF Range
  <2> QED
    BY <1>5, <2>1, <2>2
<1> QED
  BY <1>1, <1>5, <1>6 DEF t

LEMMA RangeOfAppend ==
  ASSUME NEW S, NEW s \in Seq(S), NEW x \in S
  PROVE  /\ Append(s, x) \in Seq(S) /\ Len(Append(s, x)) = Len(s) + 1
         /\ Range(Append(s, x)) = Range(s) \cup {x}
<1> DEFINE t == Append(s, x)
<1>1. /\ t \in Seq(S) /\ Len(t) = Len(s) + 1 /\ Len(s) \in Nat /\ t[Len(s) + 1] = x
      /\ \A i \in 1 .. Len(s) : t[i] = s[i]
  BY AppendProperties
<1>2. /\ \A y : y \in Range(s) <=> \E i \in 1 .. Len(s) : y = s[i]
      /\ \A y : y \in Range(t) <=> \E i \in 1 .. Len(t) : y = t[i]
  BY <1>1 DEF Range
<1> HIDE DEF t
<1>3. Range(t) = Range(s) \cup {x}
  BY <1>1, <1>2
<1> QED
  BY <1>1, <1>3 DEF t

LEMMA RangeIsFinite ==
  ASSUME NEW S, NEW s \in Seq(S)
  PROVE  Range(s) \subseteq S /\ IsFiniteSet(Range(s))
<1>1. Len(s) \in Nat /\ DOMAIN s = 1 .. Len(s) /\ s \in [1 .. Len(s) -> S]
  OBVIOUS
<1>2. s \in Surjection(1 .. Len(s), Range(s))
  BY <1>1 DEF Surjection, Range
<1>3. IsFiniteSet(1 .. Len(s))
  BY <1>1, FS_Interval
<1>4. IsFiniteSet(Range(s))
  BY <1>2, <1>3, FS_Surjection
<1> QED
  BY <1>1, <1>4 DEF Range

\* MemorySeenStore.commit: the key is in, the limit is kept, and a key that goes
\* is counted.
LEMMA RememberKeeps ==
  ASSUME NEW s \in Seq(Keys), NEW k \in Keys, Len(s) <= MaxSeen, NEW r, r = Remember(s, k)
  PROVE  /\ r \in Seq(Keys) /\ Len(r) <= MaxSeen
         /\ k \in Range(r) /\ Range(r) \subseteq Range(s) \cup {k}
         /\ Cardinality(Range(s) \ Range(r)) \in Nat
         /\ \A x \in Range(s) \ Range(r) : Cardinality(Range(s) \ Range(r)) > 0
<1>1. MaxSeen \in Nat \ {0} /\ Len(s) \in Nat
  BY EventConsumerConstants
<1> DEFINE gone == Range(s) \ Range(r)
<1>2. Cardinality(gone) \in Nat /\ \A x \in gone : Cardinality(gone) > 0
  <2>1. IsFiniteSet(gone)
    BY RangeIsFinite, FS_Subset
  <2> HIDE DEF gone
  <2> QED
    BY <2>1, FS_CardinalityType, FS_EmptySet
<1>3. CASE k \in Range(s)
  <2>1. r = s
    BY <1>3 DEF Remember
  <2> QED
    BY <1>2, <1>3, <2>1
<1>4. CASE k \notin Range(s)
  <2> DEFINE t == IF Len(s) >= MaxSeen THEN Tail(s) ELSE s
  <2>1. t \in Seq(Keys) /\ Len(t) < MaxSeen /\ Range(t) \subseteq Range(s)
    <3>1. CASE Len(s) >= MaxSeen
      <4>1. s # <<>>
        BY <1>1, <3>1
      <4> QED
        BY <1>1, <3>1, <4>1, HeadAndTail
    <3> QED
      BY <1>1, <3>1
  <2>2. r = Append(t, k)
    BY <1>4 DEF Remember
  <2> HIDE DEF t
  <2>3. /\ Append(t, k) \in Seq(Keys) /\ Len(Append(t, k)) = Len(t) + 1
        /\ Range(Append(t, k)) = Range(t) \cup {k}
    BY <2>1, RangeOfAppend
  <2>4. /\ r \in Seq(Keys) /\ Len(r) <= MaxSeen
        /\ k \in Range(r) /\ Range(r) \subseteq Range(s) \cup {k}
    BY <1>1, <2>1, <2>2, <2>3
  <2> QED
    BY <1>2, <2>4
<1> QED
  BY <1>3, <1>4

\* A pump is one of the two of its process.
LEMMA PumpsOfProc ==
  /\ \A u \in Pumps : Proc(u) \in Procs /\ \E i \in {1, 2} : u = <<Proc(u), i>>
  /\ \A p \in Procs, i \in {1, 2} : <<p, i>> \in Pumps /\ Proc(<<p, i>>) = p
BY DEF Pumps, Proc

\* A job is of a message, under its key.
LEMMA JobIsOfMessage ==
  ASSUME Types, NEW u \in Pumps
  PROVE  /\ Working(u) <=> job[u] # Idle
         /\ Working(u) => /\ job[u].pc \in {"handle", "acted"} /\ job[u].msg \in Msgs
                          /\ job[u].n \in 1 .. MaxDeliver /\ Key(u) \in Keys /\ Key(u) = KeyOf[job[u].msg]
         /\ ~Working(u) => job[u].n = 0
<1>1. job[u] \in Jobs \cup {Idle}
  BY DEF Types
<1>2. KeyOf \in [Msgs -> Keys]
  BY EventConsumerConstants
<1> QED
  BY <1>1, <1>2 DEF Jobs, Idle, Working, Key

\* A subscription has the delivery n of m, in its handler or ahead of it.
Has(u, m, n) == (job[u].msg = m /\ job[u].n = n) \/ [msg |-> m, n |-> n] \in Range(inbox[u])

LEMMA WorkedIsHad ==
  ASSUME NEW m \in Msgs
  PROVE  /\ Worked(m) <=> \E u \in Pumps : Has(u, m, count[m])
         /\ Worked(m)' <=> (\E u \in Pumps : Has(u, m, count[m]))'
<1>1. \A u \in Pumps : [msg |-> m, n |-> count[m]] \in Range(inbox[u])
                       <=> \E i \in DOMAIN inbox[u] : inbox[u][i] = [msg |-> m, n |-> count[m]]
  BY DEF Range
<1>2. \A u \in Pumps : [msg |-> m, n |-> count'[m]] \in Range(inbox'[u])
                       <=> \E i \in DOMAIN inbox'[u] : inbox'[u][i] = [msg |-> m, n |-> count'[m]]
  BY DEF Range
<1>3. Worked(m) <=> \E u \in Pumps : Has(u, m, count[m])
  BY <1>1 DEF Worked, Has
<1>4. Worked(m)' <=> (\E u \in Pumps : Has(u, m, count[m]))'
  BY <1>2 DEF Worked, Has
<1> QED
  BY <1>3, <1>4

\* An effect is never undone; an answer is never taken back.
LEMMA LastStays ==
  ASSUME Types, LastInv, UNCHANGED count,
         \A m \in Msgs : srv'[m] = "parked" => srv[m] = "parked" \/ count[m] = MaxDeliver,
         announced \subseteq announced', dropped \subseteq dropped',
         \A m \in Msgs : HadEffect(m) => HadEffect(m)',
         \A m \in Msgs, u \in Pumps : Has(u, m, MaxDeliver) =>
           \/ Has(u, m, MaxDeliver)'
           \/ m \in announced' \cup dropped' \/ HadEffect(m)'
  PROVE  LastInv'
<1> SUFFICES ASSUME NEW m \in Msgs
             PROVE  /\ count[m] = MaxDeliver => Worked(m)' \/ m \in announced' \cup dropped' \/ HadEffect(m)'
                    /\ srv'[m] = "parked" => count[m] = MaxDeliver
  BY DEF LastInv
<1>1. srv'[m] = "parked" => count[m] = MaxDeliver
  BY DEF LastInv
<1>2. CASE count[m] = MaxDeliver
  <2>1. Worked(m) <=> \E u \in Pumps : Has(u, m, MaxDeliver)
    BY <1>2, WorkedIsHad
  <2>3. Worked(m)' <=> \E u \in Pumps : Has(u, m, MaxDeliver)'
    <3>1. count'[m] = MaxDeliver
      BY <1>2
    <3>2. (\E u \in Pumps : Has(u, m, count[m]))' <=> \E u \in Pumps : Has(u, m, MaxDeliver)'
      BY <3>1 DEF Has
    <3> QED
      BY <3>2, WorkedIsHad
  <2>2. Worked(m) \/ m \in announced \cup dropped \/ HadEffect(m)
    BY <1>2 DEF LastInv
  <2> QED
    BY <1>1, <2>1, <2>2, <2>3
<1> QED
  BY <1>1, <1>2

\* What the handlers and the store are about does not change with a delivery.
LEMMA HandlersStay ==
  ASSUME OneAtATime, SeenInv, ActedInv, FreshInv, EffectsInv,
         UNCHANGED <<job, held, seen, acts, evicted>>,
         faults'["throw"] = faults["throw"], faults'["crash"] = faults["crash"]
  PROVE  OneAtATime' /\ SeenInv' /\ ActedInv' /\ FreshInv' /\ EffectsInv'
BY DEF OneAtATime, SeenInv, ActedInv, FreshInv, EffectsInv, Kept, Working, Key

-----------------------------------------------------------------------------
(* Every step keeps ConsumerInv                                            *)

\* A bounded fault leaves a count of faults, and the other counts.
LEMMA FaultCounts ==
  ASSUME Types, NEW f \in FaultKinds, Fault(f) \/ UNCHANGED faults
  PROVE  /\ faults' \in [FaultKinds -> Nat]
         /\ \A g \in FaultKinds \ {f} : faults'[g] = faults[g]
         /\ Fault(f) => faults'[f] = faults[f] + 1
         /\ UNCHANGED faults => faults'[f] = faults[f]
BY DEF Types, Fault

\* The server hands a message out; its last delivery is with that subscription.
LEMMA DeliverKeeps ==
  ASSUME ConsumerInv, NEW u \in Pumps, NEW m \in Msgs, Deliver(u, m)
  PROVE  ConsumerInv'
<1> DEFINE d == [msg |-> m, n |-> count[m] + 1]
<1> USE EventConsumerConstants
<1>1. /\ srv[m] = "ready" /\ count[m] < MaxDeliver /\ Len(inbox[u]) < Prefetch
      /\ srv' = [srv EXCEPT ![m] = "out"] /\ count' = [count EXCEPT ![m] = @ + 1]
      /\ inbox' = [inbox EXCEPT ![u] = Append(@, d)]
      /\ UNCHANGED <<on, job, held, seen, announced, acts, faults, dropped, evicted>>
  BY DEF Deliver
<1>2. /\ Types /\ TypeOK /\ inbox[u] \in Seq(Deliveries) /\ count[m] \in 0 .. MaxDeliver
  BY DEF ConsumerInv, Types, TypeOK
<1>3. d \in Deliveries
  <2>1. count[m] + 1 \in 1 .. MaxDeliver
    BY <1>1, <1>2
  <2> QED
    BY <2>1 DEF Deliveries
<1> HIDE DEF d
<1>4. /\ Append(inbox[u], d) \in Seq(Deliveries) /\ Len(Append(inbox[u], d)) = Len(inbox[u]) + 1
      /\ Range(Append(inbox[u], d)) = Range(inbox[u]) \cup {d}
  BY <1>2, <1>3, RangeOfAppend
<1>5. \A v \in Pumps : inbox'[v] = IF v = u THEN Append(inbox[u], d) ELSE inbox[v]
  BY <1>1, <1>2 DEF Types
<1>6. inbox' \in [Pumps -> Seq(Deliveries)] /\ Len(inbox[u]) \in Nat
  BY <1>1, <1>2, <1>4 DEF Types
<1>7. \A v \in Pumps : Len(inbox'[v]) <= Prefetch
  BY <1>1, <1>2, <1>4, <1>5, <1>6 DEF TypeOK
<1>8. Types'
  <2>1. count \in [Msgs -> 0 .. MaxDeliver] /\ count[m] + 1 \in 0 .. MaxDeliver
    BY <1>1, <1>2 DEF Types, TypeOK
  <2>2. count' \in [Msgs -> 0 .. MaxDeliver]
    BY <1>1, <2>1
  <2>3. TypeOK'
    BY <1>1, <1>2, <1>7, <2>2 DEF TypeOK
  <2> QED
    BY <1>1, <1>2, <1>6, <2>2, <2>3 DEF Types
<1>9. OneAtATime' /\ SeenInv' /\ ActedInv' /\ FreshInv' /\ EffectsInv'
  BY <1>1, HandlersStay DEF ConsumerInv
<1>10. AckedIsHandled'
  BY <1>1, <1>2 DEF ConsumerInv, AckedIsHandled, HadEffect, TypeOK
<1>11. LastInv'
  <2>1. ASSUME NEW x \in Msgs, count'[x] = MaxDeliver
        PROVE  Worked(x)' \/ x \in announced' \cup dropped' \/ HadEffect(x)'
    <3>1. CASE x = m
      <4>1. d = [msg |-> x, n |-> count'[x]]
        BY <1>1, <1>2, <3>1 DEF TypeOK, d
      <4>2. Has(u, x, count[x])'
        BY <1>4, <1>5, <4>1 DEF Has
      <4> QED
        BY <4>2, WorkedIsHad
    <3>2. CASE x # m
      <4>1. count'[x] = count[x]
        BY <1>1, <1>2, <3>2 DEF TypeOK
      <4>2. \A v \in Pumps : Has(v, x, count[x]) => Has(v, x, count[x])'
        BY <1>1, <1>4, <1>5, <4>1 DEF Has
      <4>3. Worked(x) => Worked(x)'
        BY <4>1, <4>2, WorkedIsHad
      <4> QED
        BY <1>1, <2>1, <4>1, <4>3 DEF ConsumerInv, LastInv, HadEffect
    <3> QED
      BY <3>1, <3>2
  <2>2. ASSUME NEW x \in Msgs, srv'[x] = "parked"
        PROVE  count'[x] = MaxDeliver
    BY <1>1, <1>2, <2>2 DEF ConsumerInv, LastInv, TypeOK
  <2> QED
    BY <2>1, <2>2 DEF LastInv
<1> QED
  BY <1>8, <1>9, <1>10, <1>11 DEF ConsumerInv

\* A message is given up when its deliveries are used up.
LEMMA ExpireKeeps ==
  ASSUME ConsumerInv, NEW m \in Msgs, Expire(m)
  PROVE  ConsumerInv'
<1> USE EventConsumerConstants
<1>1. /\ srv[m] \in {"out", "naked"}
      /\ srv' = [srv EXCEPT ![m] = IF count[m] < MaxDeliver THEN "ready" ELSE "parked"]
      /\ Fault("late") \/ UNCHANGED faults
      /\ UNCHANGED <<count, on, inbox, job, held, seen, announced, acts, dropped, evicted>>
  BY DEF Expire
<1>2. Types /\ TypeOK
  BY DEF ConsumerInv, Types
<1>3. faults' \in [FaultKinds -> Nat] /\ faults'["throw"] = faults["throw"] /\ faults'["crash"] = faults["crash"]
  BY <1>1, <1>2, FaultCounts DEF FaultKinds
<1>4. Types'
  BY <1>1, <1>2, <1>3 DEF Types, TypeOK
<1>5. OneAtATime' /\ SeenInv' /\ ActedInv' /\ FreshInv' /\ EffectsInv'
  BY <1>1, <1>3, HandlersStay DEF ConsumerInv
<1>6. AckedIsHandled'
  BY <1>1, <1>2 DEF ConsumerInv, AckedIsHandled, HadEffect, TypeOK
<1>7. LastInv'
  <2>1. \A x \in Msgs : srv'[x] = "parked" => srv[x] = "parked" \/ count[x] = MaxDeliver
    BY <1>1, <1>2 DEF TypeOK
  <2>2. \A x \in Msgs, u \in Pumps : Has(u, x, MaxDeliver) => Has(u, x, MaxDeliver)'
    BY <1>1 DEF Has
  <2>3. \A x \in Msgs : HadEffect(x) => HadEffect(x)'
    BY <1>1 DEF HadEffect
  <2> QED
    BY <1>1, <1>2, <2>1, <2>2, <2>3, LastStays DEF ConsumerInv
<1> QED
  BY <1>4, <1>5, <1>6, <1>7 DEF ConsumerInv

\* The pump takes the head of what it holds, and keeps the rest.
LEMMA BeginTakes ==
  ASSUME Types, NEW u \in Pumps, inbox[u] # <<>>, inbox' = [inbox EXCEPT ![u] = Tail(@)]
  PROVE  /\ Head(inbox[u]).msg \in Msgs /\ Head(inbox[u]).n \in 1 .. MaxDeliver
         /\ inbox' \in [Pumps -> Seq(Deliveries)] /\ \A v \in Pumps : Len(inbox'[v]) <= Prefetch
         /\ \A v \in Pumps, m \in Msgs, n \in 1 .. MaxDeliver :
              [msg |-> m, n |-> n] \in Range(inbox[v]) =>
                \/ [msg |-> m, n |-> n] \in Range(inbox'[v])
                \/ v = u /\ Head(inbox[u]).msg = m /\ Head(inbox[u]).n = n
<1> USE EventConsumerConstants
<1>1. inbox[u] \in Seq(Deliveries) /\ Len(inbox[u]) \in Nat /\ Len(inbox[u]) <= Prefetch
  BY DEF Types, TypeOK
<1> DEFINE d == Head(inbox[u])
<1>2. /\ d \in Deliveries /\ Tail(inbox[u]) \in Seq(Deliveries)
      /\ Len(Tail(inbox[u])) = Len(inbox[u]) - 1 /\ Range(inbox[u]) = {d} \cup Range(Tail(inbox[u]))
  BY <1>1, HeadAndTail
<1> HIDE DEF d
<1>3. \A v \in Pumps : inbox'[v] = IF v = u THEN Tail(inbox[u]) ELSE inbox[v]
  BY DEF Types
<1>4. inbox' \in [Pumps -> Seq(Deliveries)]
  BY <1>2 DEF Types
<1>5. \A v \in Pumps : Len(inbox'[v]) <= Prefetch
  BY <1>1, <1>2, <1>3 DEF Types, TypeOK
<1>6. d.msg \in Msgs /\ d.n \in 1 .. MaxDeliver
  BY <1>2 DEF Deliveries
<1>7. ASSUME NEW v \in Pumps, NEW m \in Msgs, NEW n \in 1 .. MaxDeliver,
             [msg |-> m, n |-> n] \in Range(inbox[v])
      PROVE  [msg |-> m, n |-> n] \in Range(inbox'[v]) \/ (v = u /\ d.msg = m /\ d.n = n)
  BY <1>2, <1>3, <1>7
<1> QED
  BY <1>4, <1>5, <1>6, <1>7 DEF d

\* What answering a delivery does: an acknowledgement is of a message that was
\* handled, and a last delivery that is refused is announced.
Answered(m, n) ==
  \/ /\ HadEffect(m) /\ (srv' = Acked(m) \/ srv' = srv) /\ UNCHANGED announced
  \/ Nak(m, n)

LEMMA AnswerKeeps ==
  ASSUME TypeOK, AckedIsHandled, LastInv, NEW m \in Msgs, NEW n \in 1 .. MaxDeliver, Answered(m, n),
         \A x \in Msgs : HadEffect(x) => HadEffect(x)'
  PROVE  /\ srv' \in [Msgs -> {"ready", "out", "naked", "acked", "parked"}] /\ announced' \subseteq Msgs
         /\ AckedIsHandled'
         /\ announced \subseteq announced'
         /\ \A x \in Msgs : srv'[x] = "parked" => srv[x] = "parked"
         /\ n = MaxDeliver => m \in announced' \/ HadEffect(m)'
<1>1. CASE HadEffect(m) /\ (srv' = Acked(m) \/ srv' = srv) /\ UNCHANGED announced
  BY <1>1 DEF Acked, TypeOK, AckedIsHandled
<1>2. CASE Nak(m, n)
  BY <1>2, EventConsumerConstants DEF Nak, Naked, TypeOK, AckedIsHandled
<1> QED
  BY <1>1, <1>2 DEF Answered

\* A delivery whose key is in flight is refused, one whose key was handled is
\* acknowledged.
LEMMA BeginAnswersKeeps ==
  ASSUME ConsumerInv, NEW u \in Pumps, job[u] = Idle, inbox[u] # <<>>,
         NEW m, m = Head(inbox[u]).msg, NEW n, n = Head(inbox[u]).n, Answered(m, n),
         inbox' = [inbox EXCEPT ![u] = Tail(@)],
         UNCHANGED <<count, on, seen, acts, dropped, evicted, job, held>>,
         Fault("lost") \/ UNCHANGED faults
  PROVE  ConsumerInv'
<1>1. Types /\ TypeOK
  BY DEF ConsumerInv, Types
<1>2. /\ m \in Msgs /\ n \in 1 .. MaxDeliver
      /\ inbox' \in [Pumps -> Seq(Deliveries)] /\ \A v \in Pumps : Len(inbox'[v]) <= Prefetch
      /\ \A v \in Pumps, x \in Msgs, k \in 1 .. MaxDeliver :
           [msg |-> x, n |-> k] \in Range(inbox[v]) =>
             [msg |-> x, n |-> k] \in Range(inbox'[v]) \/ (v = u /\ m = x /\ n = k)
  BY <1>1, BeginTakes
<1>4. \A x \in Msgs : HadEffect(x) => HadEffect(x)'
  BY DEF HadEffect
<1>5. /\ srv' \in [Msgs -> {"ready", "out", "naked", "acked", "parked"}] /\ announced' \subseteq Msgs
      /\ AckedIsHandled' /\ announced \subseteq announced'
      /\ \A x \in Msgs : srv'[x] = "parked" => srv[x] = "parked"
      /\ n = MaxDeliver => m \in announced' \/ HadEffect(m)'
  BY <1>1, <1>2, <1>4, AnswerKeeps DEF ConsumerInv
<1>6. faults' \in [FaultKinds -> Nat] /\ faults'["throw"] = faults["throw"] /\ faults'["crash"] = faults["crash"]
  BY <1>1, FaultCounts DEF FaultKinds
<1>7. Types'
  BY <1>1, <1>2, <1>5, <1>6 DEF Types, TypeOK
<1>8. OneAtATime' /\ SeenInv' /\ ActedInv' /\ FreshInv' /\ EffectsInv'
  BY <1>6, HandlersStay DEF ConsumerInv
<1>9. LastInv'
  <2>1. MaxDeliver \in 1 .. MaxDeliver
    BY EventConsumerConstants
  <2>2. \A x \in Msgs, v \in Pumps : Has(v, x, MaxDeliver) =>
          Has(v, x, MaxDeliver)' \/ x \in announced' \cup dropped' \/ HadEffect(x)'
    BY <1>2, <1>5, <2>1 DEF Has
  <2> QED
    BY <1>1, <1>4, <1>5, <2>2, LastStays DEF ConsumerInv
<1> QED
  BY <1>5, <1>7, <1>8, <1>9 DEF ConsumerInv

\* Any other delivery goes to the handler, and its key is in flight.
LEMMA BeginHandlesKeeps ==
  ASSUME ConsumerInv, NEW u \in Pumps, job[u] = Idle, inbox[u] # <<>>,
         inbox' = [inbox EXCEPT ![u] = Tail(@)],
         UNCHANGED <<srv, count, on, seen, announced, acts, dropped, evicted, faults>>,
         KeyOf[Head(inbox[u]).msg] \notin Range(seen[Proc(u)]) \cup held[Proc(u)],
         held' = [held EXCEPT ![Proc(u)] = @ \cup {KeyOf[Head(inbox[u]).msg]}],
         job' = [job EXCEPT ![u] = [pc |-> "handle", msg |-> Head(inbox[u]).msg, n |-> Head(inbox[u]).n]]
  PROVE  ConsumerInv'
<1> USE PumpsOfProc
<1> DEFINE m == Head(inbox[u]).msg
           n == Head(inbox[u]).n
<1>1. Types /\ TypeOK
  BY DEF ConsumerInv, Types
<1>2. /\ m \in Msgs /\ n \in 1 .. MaxDeliver
      /\ inbox' \in [Pumps -> Seq(Deliveries)] /\ \A v \in Pumps : Len(inbox'[v]) <= Prefetch
      /\ \A v \in Pumps, x \in Msgs, k \in 1 .. MaxDeliver :
           [msg |-> x, n |-> k] \in Range(inbox[v]) =>
             [msg |-> x, n |-> k] \in Range(inbox'[v]) \/ (v = u /\ m = x /\ n = k)
  BY <1>1, BeginTakes
<1> DEFINE k == KeyOf[m]
<1>3. /\ k \notin Range(seen[Proc(u)]) \cup held[Proc(u)] /\ held' = [held EXCEPT ![Proc(u)] = @ \cup {k}]
      /\ job' = [job EXCEPT ![u] = [pc |-> "handle", msg |-> m, n |-> n]]
  OBVIOUS
<1>4. k \in Keys
  BY <1>2, EventConsumerConstants
<1> HIDE DEF m, n
<1>5. /\ [pc |-> "handle", msg |-> m, n |-> n] \in Jobs
      /\ job'[u].pc = "handle" /\ job'[u].msg = m /\ job'[u].n = n /\ Key(u)' = k
      /\ \A v \in Pumps \ {u} : job'[v] = job[v] /\ Key(v)' = Key(v)
  BY <1>1, <1>2, <1>3 DEF Jobs, Types, Key
<1>6. /\ held'[Proc(u)] = held[Proc(u)] \cup {k}
      /\ \A p \in Procs \ {Proc(u)} : held'[p] = held[p]
  BY <1>1, <1>3 DEF TypeOK
<1>7. Types'
  <2>1. job' \in [Pumps -> Jobs \cup {Idle}]
    BY <1>1, <1>3, <1>5 DEF Types
  <2>2. held' \in [Procs -> SUBSET Keys]
    BY <1>1, <1>3, <1>4 DEF TypeOK
  <2>3. \A v \in Pumps : job'[v].pc \in {"idle", "handle", "acted"}
    BY <1>1, <1>5 DEF TypeOK
  <2> QED
    BY <1>1, <1>2, <2>1, <2>2, <2>3 DEF Types, TypeOK
<1> HIDE DEF k
<1>8. OneAtATime'
  <2>1. job[u] = Idle /\ job'[u] # Idle
    BY <1>5 DEF Idle
  <2>2. ASSUME NEW v \in Pumps, job'[v] # Idle
        PROVE  Key(v)' \in held'[Proc(v)]
    BY <1>5, <1>6, <2>2 DEF ConsumerInv, OneAtATime
  <2>3. ASSUME NEW v \in Pumps, NEW w \in Pumps, v # w, Proc(v) = Proc(w), job'[v] # Idle, job'[w] # Idle
        PROVE  Key(v)' # Key(w)'
    BY <1>3, <1>5, <2>3 DEF ConsumerInv, OneAtATime
  <2> QED
    BY <2>2, <2>3 DEF OneAtATime
<1>9. FreshInv'
  BY <1>3, <1>5 DEF ConsumerInv, FreshInv, Working
<1>10. SeenInv' /\ ActedInv'
  BY <1>5 DEF ConsumerInv, SeenInv, ActedInv
<1>11. EffectsInv'
  <2>1. \A p \in Procs, x \in Keys : Kept(p, x) => Kept(p, x)'
    BY <1>5 DEF Kept, Idle
  <2>2. \A p \in Procs, x \in Keys : acts[p][x] \in Nat
    BY <1>1 DEF TypeOK
  <2>3. faults["throw"] \in Nat /\ faults["crash"] \in Nat /\ evicted \in [Procs -> Nat]
    BY <1>1 DEF Types, TypeOK, FaultKinds
  <2>4. ASSUME NEW p \in Procs, NEW x \in Keys
        PROVE  acts[p][x] <= (IF Kept(p, x)' THEN 1 ELSE 0) + faults["throw"] + faults["crash"] + evicted[p]
    <3>1. acts[p][x] <= (IF Kept(p, x) THEN 1 ELSE 0) + faults["throw"] + faults["crash"] + evicted[p]
      BY DEF ConsumerInv, EffectsInv
    <3>2. Kept(p, x) => Kept(p, x)'
      BY <2>1
    <3>3. acts[p][x] \in Nat /\ evicted[p] \in Nat
      BY <2>2, <2>3
    <3> QED
      BY <2>3, <3>1, <3>2, <3>3
  <2> QED
    BY <2>4 DEF EffectsInv
<1>12. AckedIsHandled'
  BY DEF ConsumerInv, AckedIsHandled, HadEffect
<1>13. LastInv'
  <2>1. MaxDeliver \in 1 .. MaxDeliver /\ MaxDeliver # 0
    BY EventConsumerConstants
  <2>2. \A x \in Msgs, v \in Pumps : Has(v, x, MaxDeliver) => Has(v, x, MaxDeliver)'
    BY <1>2, <1>5, <2>1 DEF Has, Idle
  <2>3. \A x \in Msgs : HadEffect(x) => HadEffect(x)'
    BY DEF HadEffect
  <2> QED
    BY <1>1, <2>2, <2>3, LastStays DEF ConsumerInv
<1> QED
  BY <1>7, <1>8, <1>9, <1>10, <1>11, <1>12, <1>13 DEF ConsumerInv

LEMMA BeginKeeps ==
  ASSUME ConsumerInv, NEW u \in Pumps, Begin(u)
  PROVE  ConsumerInv'
<1> USE PumpsOfProc
<1>1. PICK d : d = Head(inbox[u])
  OBVIOUS
<1> DEFINE k == KeyOf[d.msg]
<1>2. /\ job[u] = Idle /\ inbox[u] # <<>> /\ inbox' = [inbox EXCEPT ![u] = Tail(@)]
      /\ UNCHANGED <<count, on, seen, acts, dropped, evicted>>
  BY DEF Begin
<1>3. d.msg \in Msgs /\ d.n \in 1 .. MaxDeliver
  BY <1>1, <1>2, BeginTakes DEF ConsumerInv
<1>4. \/ k \in held[Proc(u)] /\ Nak(d.msg, d.n) /\ UNCHANGED <<job, held, faults>>
      \/ k \in Range(seen[Proc(u)]) \ held[Proc(u)] /\ Ack(d.msg) /\ UNCHANGED <<job, held, announced>>
      \/ /\ k \notin Range(seen[Proc(u)]) \cup held[Proc(u)]
         /\ held' = [held EXCEPT ![Proc(u)] = @ \cup {k}]
         /\ job' = [job EXCEPT ![u] = [pc |-> "handle", msg |-> d.msg, n |-> d.n]]
         /\ UNCHANGED <<srv, announced, faults>>
  BY <1>1 DEF Begin
<1>5. CASE k \in held[Proc(u)] /\ Nak(d.msg, d.n) /\ UNCHANGED <<job, held, faults>>
  <2>1. Answered(d.msg, d.n)
    BY <1>5 DEF Answered
  <2> QED
    BY <1>1, <1>2, <1>5, <2>1, BeginAnswersKeeps
<1>6. CASE k \in Range(seen[Proc(u)]) \ held[Proc(u)] /\ Ack(d.msg) /\ UNCHANGED <<job, held, announced>>
  <2>1. HadEffect(d.msg)
    BY <1>6 DEF ConsumerInv, SeenInv, HadEffect
  <2>2. Answered(d.msg, d.n) /\ (Fault("lost") \/ UNCHANGED faults)
    BY <1>6, <2>1 DEF Answered, Ack
  <2> QED
    BY <1>1, <1>2, <1>6, <2>2, BeginAnswersKeeps
<1>7. CASE /\ k \notin Range(seen[Proc(u)]) \cup held[Proc(u)]
           /\ held' = [held EXCEPT ![Proc(u)] = @ \cup {k}]
           /\ job' = [job EXCEPT ![u] = [pc |-> "handle", msg |-> d.msg, n |-> d.n]]
           /\ UNCHANGED <<srv, announced, faults>>
  BY <1>1, <1>2, <1>7, BeginHandlesKeeps
<1> QED
  BY <1>4, <1>5, <1>6, <1>7

\* The effect is one more, of a key the process does not remember.
LEMMA HandlerActsKeeps ==
  ASSUME ConsumerInv, NEW u \in Pumps, HandlerActs(u)
  PROVE  ConsumerInv'
<1> USE PumpsOfProc
<1>1. PICK p, k : p \in Procs /\ p = Proc(u) /\ k = Key(u)
  OBVIOUS
<1>2. /\ job[u].pc = "handle" /\ job' = [job EXCEPT ![u].pc = "acted"]
      /\ acts' = [acts EXCEPT ![p][k] = @ + 1]
      /\ UNCHANGED <<srv, count, on, inbox, held, seen, announced, faults, dropped, evicted>>
  BY <1>1 DEF HandlerActs, server
<1>3. Types /\ TypeOK
  BY DEF ConsumerInv, Types
<1>4. Working(u) /\ k \in Keys /\ job[u] # Idle /\ job[u] \in Jobs
  BY <1>2, <1>3, <1>1, JobIsOfMessage DEF Working, Types
<1>5. /\ job'[u] = [job[u] EXCEPT !.pc = "acted"]
      /\ \A v \in Pumps \ {u} : job'[v] = job[v]
  BY <1>2, <1>3 DEF Types
<1>6. /\ job'[u] \in Jobs /\ job'[u].pc = "acted" /\ job'[u].msg = job[u].msg /\ job'[u].n = job[u].n
      /\ \A v \in Pumps : Key(v)' = Key(v)
  BY <1>4, <1>5 DEF Jobs, Key
<1>7. /\ acts' \in [Procs -> [Keys -> Nat]] /\ acts'[p][k] = acts[p][k] + 1
      /\ \A q \in Procs, x \in Keys : (q # p \/ x # k) => acts'[q][x] = acts[q][x]
      /\ \A q \in Procs, x \in Keys : acts[q][x] \in Nat
  BY <1>2, <1>3, <1>4, <1>1 DEF TypeOK
<1>8. Types'
  <2>1. job' \in [Pumps -> Jobs \cup {Idle}]
    BY <1>2, <1>3, <1>5, <1>6 DEF Types
  <2>2. \A v \in Pumps : job'[v].pc \in {"idle", "handle", "acted"}
    BY <1>3, <1>5, <1>6 DEF TypeOK
  <2> QED
    BY <1>2, <1>3, <1>7, <2>1, <2>2 DEF Types, TypeOK
<1>9. \A v \in Pumps : job'[v] # Idle <=> job[v] # Idle
  BY <1>4, <1>5, <1>6 DEF Idle
<1>10. OneAtATime'
  BY <1>2, <1>6, <1>9 DEF ConsumerInv, OneAtATime
<1>11. \A q \in Procs, x \in Keys : acts'[q][x] >= acts[q][x] /\ acts'[q][x] \in Nat
  BY <1>7, <1>1
<1>12. SeenInv'
  <2>1. \A q \in Procs : Range(seen[q]) \subseteq Keys
    BY <1>3 DEF TypeOK
  <2> QED
    BY <1>2, <1>7, <1>11, <2>1 DEF ConsumerInv, SeenInv
<1>13. ActedInv'
  <2> SUFFICES ASSUME NEW v \in Pumps, job'[v].pc = "acted"
               PROVE  acts'[Proc(v)][Key(v)] > 0
    BY <1>6 DEF ActedInv
  <2>1. CASE v = u
    BY <1>4, <1>7, <1>1, <2>1
  <2>2. CASE v # u
    <3>1. job[v].pc = "acted" /\ Key(v) \in Keys
      BY <1>3, <1>5, <2>2, JobIsOfMessage DEF Working
    <3> QED
      BY <1>7, <1>11, <3>1 DEF ConsumerInv, ActedInv
  <2> QED
    BY <2>1, <2>2
<1>14. FreshInv'
  BY <1>2, <1>4, <1>5, <1>6 DEF ConsumerInv, FreshInv, Working
<1>15. EffectsInv'
  <2>1. ~Kept(p, k)
    <3>1. k \notin Range(seen[p])
      BY <1>4, <1>1 DEF ConsumerInv, FreshInv
    <3>2. ASSUME NEW v \in Pumps, Proc(v) = p, job[v].pc = "acted", Key(v) = k
          PROVE  FALSE
      <4>1. v # u /\ job[v] # Idle
        BY <1>2, <3>2 DEF Idle
      <4> QED
        BY <1>4, <1>1, <3>2, <4>1 DEF ConsumerInv, OneAtATime
    <3> QED
      BY <3>1, <3>2 DEF Kept
  <2>2. Kept(p, k)' /\ \A q \in Procs, x \in Keys : Kept(q, x) => Kept(q, x)'
    BY <1>2, <1>5, <1>6, <1>1 DEF Kept
  <2>3. faults["throw"] \in Nat /\ faults["crash"] \in Nat /\ evicted \in [Procs -> Nat]
    BY <1>3 DEF Types, TypeOK, FaultKinds
  <2>4. ASSUME NEW q \in Procs, NEW x \in Keys
        PROVE  acts'[q][x] <= (IF Kept(q, x)' THEN 1 ELSE 0) + faults["throw"] + faults["crash"] + evicted[q]
    <3>1. acts[q][x] <= (IF Kept(q, x) THEN 1 ELSE 0) + faults["throw"] + faults["crash"] + evicted[q]
      BY DEF ConsumerInv, EffectsInv
    <3>2. CASE q = p /\ x = k
      BY <1>7, <2>1, <2>2, <2>3, <3>1, <3>2
    <3>3. CASE ~(q = p /\ x = k)
      BY <1>7, <2>2, <2>3, <3>1, <3>3
    <3> QED
      BY <3>2, <3>3
  <2> QED
    BY <1>2, <2>4 DEF EffectsInv
<1>16. \A x \in Msgs : HadEffect(x) => HadEffect(x)'
  <2>1. \A x \in Msgs : KeyOf[x] \in Keys
    BY EventConsumerConstants
  <2> QED
    BY <1>7, <1>11, <2>1 DEF HadEffect
<1>17. AckedIsHandled'
  BY <1>2, <1>16 DEF ConsumerInv, AckedIsHandled
<1>18. LastInv'
  <2>1. \A x \in Msgs, v \in Pumps : Has(v, x, MaxDeliver) => Has(v, x, MaxDeliver)'
    BY <1>2, <1>5, <1>6 DEF Has
  <2> QED
    BY <1>2, <1>3, <1>16, <2>1, LastStays DEF ConsumerInv
<1> QED
  BY <1>8, <1>10, <1>12, <1>13, <1>14, <1>15, <1>17, <1>18 DEF ConsumerInv

\* A handler ends: its key is no longer in flight, the other handlers go on.
LEMMA JobEnds ==
  ASSUME ConsumerInv, NEW u \in Pumps, Working(u), NEW k, k = Key(u), End(u),
         held' = [held EXCEPT ![Proc(u)] = @ \ {k}]
  PROVE  /\ job' \in [Pumps -> Jobs \cup {Idle}] /\ held' \in [Procs -> SUBSET Keys]
         /\ \A v \in Pumps : job'[v].pc \in {"idle", "handle", "acted"}
         /\ job'[u] = Idle /\ \A v \in Pumps \ {u} : job'[v] = job[v] /\ Key(v)' = Key(v)
         /\ job'[u].pc = "idle" /\ OneAtATime'
<1> USE PumpsOfProc
<1>1. Types /\ TypeOK
  BY DEF ConsumerInv, Types
<1>2. job'[u] = Idle /\ job'[u].pc = "idle" /\ \A v \in Pumps \ {u} : job'[v] = job[v]
  BY <1>1 DEF End, Types, Idle
<1>3. job' \in [Pumps -> Jobs \cup {Idle}] /\ held' \in [Procs -> SUBSET Keys]
  BY <1>1 DEF End, Types, TypeOK
<1>4. \A v \in Pumps : job'[v].pc \in {"idle", "handle", "acted"}
  BY <1>1, <1>2 DEF TypeOK
<1>5. \A v \in Pumps \ {u} : Key(v)' = Key(v)
  BY <1>2 DEF Key
<1>6. held'[Proc(u)] = held[Proc(u)] \ {k} /\ \A p \in Procs \ {Proc(u)} : held'[p] = held[p]
  BY <1>1 DEF TypeOK
<1>7. OneAtATime'
  <2>1. job[u] # Idle
    BY <1>1, JobIsOfMessage
  <2>2. ASSUME NEW v \in Pumps, job'[v] # Idle
        PROVE  Key(v)' \in held'[Proc(v)]
    <3>1. v # u /\ job[v] # Idle /\ Key(v)' = Key(v)
      BY <1>2, <1>5, <2>2
    <3>2. Key(v) \in held[Proc(v)] /\ (Proc(v) = Proc(u) => Key(v) # k)
      BY <2>1, <3>1 DEF ConsumerInv, OneAtATime
    <3> QED
      BY <1>6, <3>1, <3>2
  <2>3. ASSUME NEW v \in Pumps, NEW w \in Pumps, v # w, Proc(v) = Proc(w), job'[v] # Idle, job'[w] # Idle
        PROVE  Key(v)' # Key(w)'
    BY <1>2, <1>5, <2>3 DEF ConsumerInv, OneAtATime
  <2> QED
    BY <2>2, <2>3 DEF OneAtATime
<1> QED
  BY <1>2, <1>3, <1>4, <1>5, <1>7

\* A key is remembered because its handler had its effect; a key that the store
\* forgets to make room is counted.
LEMMA HandlerReturnsKeeps ==
  ASSUME ConsumerInv, NEW u \in Pumps, HandlerReturns(u)
  PROVE  ConsumerInv'
<1> USE PumpsOfProc
<1>1. PICK p, k, m, r, gone :
        /\ p \in Procs /\ p = Proc(u) /\ k = Key(u) /\ m = job[u].msg
        /\ r = Remember(seen[p], k) /\ gone = Cardinality(Range(seen[p]) \ Range(r))
  OBVIOUS
<1>2. Types /\ TypeOK /\ SeenInv /\ ActedInv /\ FreshInv /\ EffectsInv /\ AckedIsHandled /\ LastInv /\ OneAtATime
  BY DEF ConsumerInv, Types
<1>3. job[u].pc = "acted" /\ Working(u) /\ k \in Keys /\ m \in Msgs /\ k = KeyOf[m] /\ job[u].n \in 1 .. MaxDeliver
  BY <1>1, <1>2, JobIsOfMessage DEF HandlerReturns, Working
<1>4. /\ r \in Seq(Keys) /\ Len(r) <= MaxSeen /\ k \in Range(r) /\ Range(r) \subseteq Range(seen[p]) \cup {k}
      /\ gone \in Nat /\ \A x \in Range(seen[p]) \ Range(r) : gone > 0
  <2>1. seen[p] \in Seq(Keys) /\ Len(seen[p]) <= MaxSeen
    BY <1>1, <1>2 DEF Types, TypeOK
  <2> QED
    BY <1>1, <1>3, <2>1, RememberKeeps
<1>5. /\ seen' = [seen EXCEPT ![p] = r] /\ evicted' = [evicted EXCEPT ![p] = @ + gone]
      /\ held' = [held EXCEPT ![p] = @ \ {k}] /\ End(u) /\ Ack(m)
      /\ UNCHANGED <<count, on, inbox, announced, acts, dropped>>
  <2>1. /\ seen' = [seen EXCEPT ![p] = r] /\ held' = [held EXCEPT ![p] = @ \ {k}] /\ End(u) /\ Ack(m)
        /\ evicted' = [evicted EXCEPT ![p] = @ + Cardinality(Range(seen[p]) \ Range(seen'[p]))]
        /\ UNCHANGED <<count, on, inbox, announced, acts, dropped>>
    BY <1>1, <1>2 DEF HandlerReturns, Types
  <2>2. seen'[p] = r
    BY <1>1, <1>2, <2>1 DEF Types
  <2> QED
    BY <1>1, <2>1, <2>2
<1>6. /\ job' \in [Pumps -> Jobs \cup {Idle}] /\ held' \in [Procs -> SUBSET Keys]
      /\ \A v \in Pumps : job'[v].pc \in {"idle", "handle", "acted"}
      /\ job'[u] = Idle /\ \A v \in Pumps \ {u} : job'[v] = job[v] /\ Key(v)' = Key(v)
      /\ job'[u].pc = "idle" /\ OneAtATime'
  BY <1>1, <1>3, <1>5, JobEnds
<1>7. /\ seen' \in [Procs -> Seq(Keys)] /\ seen'[p] = r /\ \A q \in Procs \ {p} : seen'[q] = seen[q]
      /\ evicted' \in [Procs -> Nat] /\ evicted'[p] = evicted[p] + gone
      /\ \A q \in Procs \ {p} : evicted'[q] = evicted[q]
      /\ evicted \in [Procs -> Nat]
  BY <1>1, <1>2, <1>4, <1>5 DEF Types, TypeOK
<1>8. /\ faults' \in [FaultKinds -> Nat] /\ faults'["throw"] = faults["throw"] /\ faults'["crash"] = faults["crash"]
      /\ faults["throw"] \in Nat /\ faults["crash"] \in Nat
  <2>1. Fault("lost") \/ UNCHANGED faults
    BY <1>5 DEF Ack
  <2> QED
    BY <1>2, <2>1, FaultCounts DEF FaultKinds, Types
<1>9. acts[p][k] > 0
  BY <1>1, <1>2, <1>3 DEF ActedInv
<1>10. Answered(m, job[u].n)
  BY <1>1, <1>3, <1>5, <1>9 DEF Answered, Ack, HadEffect
<1>11. \A x \in Msgs : HadEffect(x) => HadEffect(x)'
  BY <1>5 DEF HadEffect
<1>12. /\ srv' \in [Msgs -> {"ready", "out", "naked", "acked", "parked"}] /\ AckedIsHandled'
       /\ \A x \in Msgs : srv'[x] = "parked" => srv[x] = "parked"
  BY <1>2, <1>3, <1>10, <1>11, AnswerKeeps
<1>13. Types'
  <2>1. \A q \in Procs : Range(seen'[q]) \subseteq Keys /\ Len(seen'[q]) <= MaxSeen
    <3>1. \A q \in Procs : Range(seen[q]) \subseteq Keys /\ Len(seen[q]) <= MaxSeen
      BY <1>2 DEF TypeOK
    <3>2. p \in Procs /\ k \in Keys
      BY <1>1, <1>3
    <3>3. Range(r) \subseteq Keys /\ Len(r) <= MaxSeen
      BY <1>4, <3>1, <3>2
    <3> QED
      BY <1>7, <3>1, <3>3
  <2> QED
    BY <1>2, <1>5, <1>6, <1>7, <1>8, <1>12, <2>1 DEF Types, TypeOK
<1>14. SeenInv'
  BY <1>2, <1>4, <1>5, <1>7, <1>9 DEF SeenInv
<1>15. ActedInv'
  BY <1>2, <1>5, <1>6 DEF ActedInv
<1>16. FreshInv'
  <2> SUFFICES ASSUME NEW v \in Pumps, job'[v].pc # "idle"
               PROVE  Key(v)' \notin Range(seen'[Proc(v)])
    BY DEF FreshInv, Working
  <2>1. v # u /\ Working(v) /\ Working(u) /\ Key(v)' = Key(v)
    BY <1>3, <1>6 DEF Working
  <2>2. Key(v) \notin Range(seen[Proc(v)])
    BY <1>2, <2>1 DEF FreshInv
  <2>3. Proc(v) = p => Key(v) # k
    BY <1>1, <1>2, <2>1, JobIsOfMessage DEF OneAtATime
  <2> QED
    BY <1>4, <1>7, <2>1, <2>2, <2>3
<1>17. EffectsInv'
  <2> SUFFICES ASSUME NEW q \in Procs, NEW x \in Keys
               PROVE  acts[q][x] <= (IF Kept(q, x)' THEN 1 ELSE 0) + faults["throw"] + faults["crash"] + evicted'[q]
    BY <1>5, <1>8 DEF EffectsInv
  <2>1. /\ acts[q][x] <= (IF Kept(q, x) THEN 1 ELSE 0) + faults["throw"] + faults["crash"] + evicted[q]
        /\ acts[q][x] \in Nat
    BY <1>2 DEF EffectsInv, TypeOK
  <2>2. evicted'[q] \in Nat /\ evicted[q] \in Nat /\ evicted'[q] >= evicted[q]
    <3>1. gone \in Nat
      BY <1>4
    <3>2. CASE q = p
      BY <1>7, <3>1, <3>2
    <3>3. CASE q # p
      BY <1>7, <3>3
    <3> QED
      BY <3>2, <3>3
  <2>3. CASE Kept(q, x)'
    BY <1>8, <2>1, <2>2, <2>3
  <2>4. CASE ~Kept(q, x)'
    <3>1. x \notin Range(seen'[q])
      BY <2>4 DEF Kept
    <3>2. CASE x \in Range(seen[q])
      <4>1. q = p /\ gone > 0
        BY <1>4, <1>7, <3>1, <3>2
      <4>2. evicted'[q] >= evicted[q] + 1
        <5>1. gone \in Nat
          BY <1>4
        <5> QED
          BY <1>7, <2>2, <4>1, <5>1
      <4> QED
        BY <1>8, <2>1, <2>2, <4>2
    <3>3. CASE x \notin Range(seen[q])
      <4>1. ASSUME NEW v \in Pumps, Proc(v) = q, job[v].pc = "acted", Key(v) = x
            PROVE  FALSE
        <5>1. CASE v = u
          BY <1>1, <1>4, <1>7, <3>1, <4>1, <5>1
        <5>2. CASE v # u
          BY <1>6, <2>4, <4>1, <5>2 DEF Kept
        <5> QED
          BY <5>1, <5>2
      <4>2. ~Kept(q, x)
        BY <3>3, <4>1 DEF Kept
      <4> QED
        BY <1>8, <2>1, <2>2, <4>2
    <3> QED
      BY <3>2, <3>3
  <2> QED
    BY <2>3, <2>4
<1>18. LastInv'
  <2>1. \A x \in Msgs, v \in Pumps : Has(v, x, MaxDeliver) => Has(v, x, MaxDeliver)' \/ HadEffect(x)'
    <3>1. HadEffect(m)'
      BY <1>1, <1>3, <1>5, <1>9 DEF HadEffect
    <3> QED
      BY <1>1, <1>5, <1>6, <3>1 DEF Has
  <2> QED
    BY <1>2, <1>5, <1>11, <1>12, <2>1, LastStays
<1> QED
  BY <1>6, <1>12, <1>13, <1>14, <1>15, <1>16, <1>17, <1>18 DEF ConsumerInv

\* A handler that throws may have had its effect: that is a fault, and is counted.
LEMMA HandlerThrowsKeeps ==
  ASSUME ConsumerInv, NEW u \in Pumps, HandlerThrows(u)
  PROVE  ConsumerInv'
<1> USE PumpsOfProc
<1>1. PICK p, k, m, n : p \in Procs /\ p = Proc(u) /\ k = Key(u) /\ m = job[u].msg /\ n = job[u].n
  OBVIOUS
<1>2. Types /\ TypeOK /\ SeenInv /\ ActedInv /\ FreshInv /\ EffectsInv /\ AckedIsHandled /\ LastInv /\ OneAtATime
  BY DEF ConsumerInv, Types
<1>3. Working(u) /\ k \in Keys /\ m \in Msgs /\ n \in 1 .. MaxDeliver
  BY <1>1, <1>2, JobIsOfMessage DEF HandlerThrows, Working
<1>4. /\ held' = [held EXCEPT ![p] = @ \ {k}] /\ End(u) /\ Nak(m, n) /\ Fault("throw")
      /\ UNCHANGED <<count, on, inbox, seen, acts, dropped, evicted>>
  BY <1>1 DEF HandlerThrows
<1>5. /\ job' \in [Pumps -> Jobs \cup {Idle}] /\ held' \in [Procs -> SUBSET Keys]
      /\ \A v \in Pumps : job'[v].pc \in {"idle", "handle", "acted"}
      /\ job'[u] = Idle /\ \A v \in Pumps \ {u} : job'[v] = job[v] /\ Key(v)' = Key(v)
      /\ job'[u].pc = "idle" /\ OneAtATime'
  BY <1>1, <1>3, <1>4, JobEnds
<1>6. /\ faults' \in [FaultKinds -> Nat] /\ faults'["throw"] = faults["throw"] + 1
      /\ faults'["crash"] = faults["crash"] /\ faults["throw"] \in Nat /\ faults["crash"] \in Nat
  BY <1>2, <1>4, FaultCounts DEF FaultKinds, Types
<1>7. \A x \in Msgs : HadEffect(x) => HadEffect(x)'
  BY <1>4 DEF HadEffect
<1>8. /\ srv' \in [Msgs -> {"ready", "out", "naked", "acked", "parked"}] /\ announced' \subseteq Msgs
      /\ AckedIsHandled' /\ announced \subseteq announced'
      /\ \A x \in Msgs : srv'[x] = "parked" => srv[x] = "parked"
      /\ n = MaxDeliver => m \in announced' \/ HadEffect(m)'
  <2>1. Answered(m, n)
    BY <1>4 DEF Answered
  <2> QED
    BY <1>2, <1>3, <1>7, <2>1, AnswerKeeps
<1>9. Types'
  BY <1>2, <1>4, <1>5, <1>6, <1>8 DEF Types, TypeOK
<1>10. SeenInv' /\ ActedInv'
  BY <1>2, <1>4, <1>5 DEF SeenInv, ActedInv
<1>11. FreshInv'
  BY <1>2, <1>4, <1>5 DEF FreshInv, Working
<1>12. EffectsInv'
  <2> SUFFICES ASSUME NEW q \in Procs, NEW x \in Keys
               PROVE  acts[q][x] <= (IF Kept(q, x)' THEN 1 ELSE 0) + faults'["throw"] + faults'["crash"] + evicted[q]
    BY <1>4 DEF EffectsInv
  <2>1. acts[q][x] <= (IF Kept(q, x) THEN 1 ELSE 0) + faults["throw"] + faults["crash"] + evicted[q]
    BY <1>2 DEF EffectsInv
  <2>2. acts[q][x] \in Nat /\ evicted[q] \in Nat
    BY <1>2 DEF TypeOK
  <2> QED
    BY <1>6, <2>1, <2>2
<1>13. LastInv'
  <2>1. \A x \in Msgs, v \in Pumps : Has(v, x, MaxDeliver) =>
          Has(v, x, MaxDeliver)' \/ x \in announced' \cup dropped' \/ HadEffect(x)'
    BY <1>1, <1>4, <1>5, <1>8 DEF Has
  <2> QED
    BY <1>2, <1>4, <1>7, <1>8, <2>1, LastStays
<1> QED
  BY <1>5, <1>8, <1>9, <1>10, <1>11, <1>12, <1>13 DEF ConsumerInv

\* What goes with a process or a subscription is of messages.
LEMMA LastTriesOfMessages ==
  ASSUME NEW ds, \A d \in ds : d.n # 0 => d.msg \in Msgs
  PROVE  /\ LastTries(ds) \subseteq Msgs
         /\ \A d \in ds : d.n = MaxDeliver => d.msg \in LastTries(ds)
BY EventConsumerConstants DEF LastTries

\* What a subscription held is dropped, its last deliveries by name.
LEMMA AbortKeeps ==
  ASSUME ConsumerInv, NEW u \in Pumps, Abort(u)
  PROVE  ConsumerInv'
<1> USE PumpsOfProc
<1>1. /\ Fault("abort") /\ on' = [on EXCEPT ![u] = FALSE] /\ inbox' = [inbox EXCEPT ![u] = <<>>]
      /\ dropped' = dropped \cup LastTries(Range(inbox[u]))
      /\ UNCHANGED <<srv, count, job, held, seen, announced, acts, evicted>>
  BY DEF Abort, server
<1>2. Types /\ TypeOK /\ LastInv
  BY DEF ConsumerInv, Types
<1>3. faults' \in [FaultKinds -> Nat] /\ faults'["throw"] = faults["throw"] /\ faults'["crash"] = faults["crash"]
  BY <1>1, <1>2, FaultCounts DEF FaultKinds
<1>4. LastTries(Range(inbox[u])) \subseteq Msgs /\ \A d \in Range(inbox[u]) : d.n = MaxDeliver => d.msg \in dropped'
  <2>1. Range(inbox[u]) \subseteq Deliveries
    BY <1>2, RangeIsFinite DEF Types
  <2>2. \A d \in Range(inbox[u]) : d.msg \in Msgs
    BY <2>1 DEF Deliveries
  <2> QED
    BY <1>1, <2>2, LastTriesOfMessages
<1>5. inbox' \in [Pumps -> Seq(Deliveries)] /\ \A v \in Pumps : Len(inbox'[v]) <= Prefetch
  <2>1. <<>> \in Seq(Deliveries) /\ Len(<<>>) = 0 /\ 0 <= Prefetch
    BY EventConsumerConstants
  <2> QED
    BY <1>1, <1>2, <2>1 DEF Types, TypeOK
<1>6. Types'
  BY <1>1, <1>2, <1>3, <1>4, <1>5 DEF Types, TypeOK
<1>7. OneAtATime' /\ SeenInv' /\ ActedInv' /\ FreshInv' /\ EffectsInv'
  BY <1>1, <1>3, HandlersStay DEF ConsumerInv
<1>8. AckedIsHandled'
  BY <1>1 DEF ConsumerInv, AckedIsHandled, HadEffect
<1>9. LastInv'
  <2>1. \A x \in Msgs, v \in Pumps : Has(v, x, MaxDeliver) => Has(v, x, MaxDeliver)' \/ x \in dropped'
    <3> SUFFICES ASSUME NEW x \in Msgs, NEW v \in Pumps, Has(v, x, MaxDeliver), ~Has(v, x, MaxDeliver)'
                 PROVE  x \in dropped'
      OBVIOUS
    <3>1. v = u /\ [msg |-> x, n |-> MaxDeliver] \in Range(inbox[u])
      BY <1>1, <1>2 DEF Has, Types
    <3> QED
      BY <1>4, <3>1
  <2>2. \A x \in Msgs : HadEffect(x) => HadEffect(x)'
    BY <1>1 DEF HadEffect
  <2> QED
    BY <1>1, <1>2, <2>1, <2>2, LastStays
<1> QED
  BY <1>6, <1>7, <1>8, <1>9 DEF ConsumerInv

LEMMA SubscribeKeeps ==
  ASSUME ConsumerInv, NEW u \in Pumps, Subscribe(u)
  PROVE  ConsumerInv'
<1>1. /\ on' = [on EXCEPT ![u] = TRUE]
      /\ UNCHANGED <<srv, count, inbox, job, held, seen, announced, acts, faults, dropped, evicted>>
  BY DEF Subscribe, server
<1>2. Types'
  BY <1>1 DEF ConsumerInv, Types, TypeOK
<1>3. OneAtATime' /\ SeenInv' /\ ActedInv' /\ FreshInv' /\ EffectsInv'
  BY <1>1, HandlersStay DEF ConsumerInv
<1>4. AckedIsHandled' /\ LastInv'
  BY <1>1 DEF ConsumerInv, AckedIsHandled, LastInv, Worked, HadEffect
<1> QED
  BY <1>2, <1>3, <1>4 DEF ConsumerInv

\* A process forgets its keys: the crash is counted, and what it had in its
\* handlers and ahead of them is dropped.
LEMMA CrashKeeps ==
  ASSUME ConsumerInv, NEW p \in Procs, Crash(p)
  PROVE  ConsumerInv'
<1> USE PumpsOfProc
<1>1. /\ Fault("crash") /\ held' = [held EXCEPT ![p] = {}] /\ seen' = [seen EXCEPT ![p] = <<>>]
      /\ on' = [u \in Pumps |-> IF Proc(u) = p THEN u[2] = 1 ELSE on[u]]
      /\ inbox' = [u \in Pumps |-> IF Proc(u) = p THEN <<>> ELSE inbox[u]]
      /\ job' = [u \in Pumps |-> IF Proc(u) = p THEN Idle ELSE job[u]]
      /\ UNCHANGED <<srv, count, announced, acts, evicted>>
  BY DEF Crash, server
<1>2. Types /\ TypeOK /\ LastInv /\ OneAtATime /\ SeenInv /\ ActedInv /\ FreshInv /\ EffectsInv
  BY DEF ConsumerInv, Types
<1>3. /\ faults' \in [FaultKinds -> Nat] /\ faults'["throw"] = faults["throw"]
      /\ faults'["crash"] = faults["crash"] + 1 /\ faults["throw"] \in Nat /\ faults["crash"] \in Nat
  BY <1>1, <1>2, FaultCounts DEF FaultKinds, Types
<1>4. /\ dropped \subseteq dropped' /\ dropped' \subseteq Msgs
      /\ \A u \in Pumps, x \in Msgs : Proc(u) = p /\ Has(u, x, MaxDeliver) => x \in dropped'
  <2> DEFINE ds(i) == {job[<<p, i>>]} \cup Range(inbox[<<p, i>>])
  <2>1. ASSUME NEW i \in {1, 2}
        PROVE  \A d \in ds(i) : d.n # 0 => d.msg \in Msgs
    <3>1. Range(inbox[<<p, i>>]) \subseteq Deliveries
      BY <1>2, RangeIsFinite DEF Types
    <3>2. job[<<p, i>>] \in Jobs \cup {Idle}
      BY <1>2 DEF Types
    <3> QED
      BY <3>1, <3>2 DEF Deliveries, Jobs, Idle
  <2>2. dropped' = dropped \cup UNION {LastTries(ds(i)) : i \in {1, 2}}
    BY DEF Crash
  <2>3. \A i \in {1, 2} : LastTries(ds(i)) \subseteq Msgs /\ \A d \in ds(i) : d.n = MaxDeliver => d.msg \in LastTries(ds(i))
    BY <2>1, LastTriesOfMessages
  <2>4. \A i \in {1, 2} : LastTries(ds(i)) \subseteq dropped'
    BY <2>2
  <2>5. ASSUME NEW u \in Pumps, NEW x \in Msgs, Proc(u) = p, Has(u, x, MaxDeliver)
        PROVE  x \in dropped'
    <3>1. PICK i \in {1, 2} : u = <<p, i>>
      BY <2>5
    <3>2. \E d \in ds(i) : d.n = MaxDeliver /\ d.msg = x
      <4>1. CASE job[u].msg = x /\ job[u].n = MaxDeliver
        BY <3>1, <4>1
      <4>2. CASE [msg |-> x, n |-> MaxDeliver] \in Range(inbox[u])
        BY <3>1, <4>2
      <4> QED
        BY <2>5, <4>1, <4>2 DEF Has
    <3> QED
      BY <2>3, <2>4, <3>2
  <2>6. dropped' \subseteq Msgs
    <3>1. dropped \subseteq Msgs
      BY <1>2 DEF TypeOK
    <3>2. \A i \in {1, 2} : LastTries(ds(i)) \subseteq Msgs
      BY <2>3
    <3> HIDE DEF ds
    <3> QED
      BY <2>2, <3>1, <3>2
  <2> QED
    BY <2>2, <2>5, <2>6
<1>5. /\ \A u \in Pumps : Proc(u) = p => job'[u] = Idle /\ job'[u].pc = "idle" /\ inbox'[u] = <<>>
      /\ \A u \in Pumps : Proc(u) # p => job'[u] = job[u] /\ inbox'[u] = inbox[u] /\ Key(u)' = Key(u)
      /\ seen'[p] = <<>> /\ \A q \in Procs \ {p} : seen'[q] = seen[q] /\ held'[q] = held[q]
  BY <1>1, <1>2 DEF Types, TypeOK, Idle, Key
<1>6. /\ Range(<<>>) = {} /\ \A S : <<>> \in Seq(S) /\ Len(<<>>) = 0
      /\ 0 <= MaxSeen /\ 0 <= Prefetch
  BY EventConsumerConstants DEF Range
<1>7. Types'
  <2>1. inbox' \in [Pumps -> Seq(Deliveries)] /\ seen' \in [Procs -> Seq(Keys)]
    BY <1>1, <1>2, <1>6 DEF Types
  <2>2. job' \in [Pumps -> Jobs \cup {Idle}] /\ on' \in [Pumps -> BOOLEAN] /\ held' \in [Procs -> SUBSET Keys]
    BY <1>1, <1>2 DEF Types, TypeOK
  <2>3. \A u \in Pumps : job'[u].pc \in {"idle", "handle", "acted"} /\ Len(inbox'[u]) <= Prefetch
    <3> SUFFICES ASSUME NEW u \in Pumps
                 PROVE  job'[u].pc \in {"idle", "handle", "acted"} /\ Len(inbox'[u]) <= Prefetch
      OBVIOUS
    <3>1. job[u].pc \in {"idle", "handle", "acted"} /\ Len(inbox[u]) <= Prefetch
      BY <1>2 DEF TypeOK
    <3>2. CASE Proc(u) = p
      BY <1>5, <1>6, <3>2
    <3>3. CASE Proc(u) # p
      BY <1>5, <3>1, <3>3
    <3> QED
      BY <3>2, <3>3
  <2>4. \A q \in Procs : Range(seen'[q]) \subseteq Keys /\ Len(seen'[q]) <= MaxSeen
    <3> SUFFICES ASSUME NEW q \in Procs
                 PROVE  Range(seen'[q]) \subseteq Keys /\ Len(seen'[q]) <= MaxSeen
      OBVIOUS
    <3>1. Range(seen[q]) \subseteq Keys /\ Len(seen[q]) <= MaxSeen
      BY <1>2 DEF TypeOK
    <3>2. CASE q = p
      BY <1>5, <1>6, <3>2
    <3>3. CASE q # p
      BY <1>5, <3>1, <3>3
    <3> QED
      BY <3>2, <3>3
  <2> QED
    BY <1>1, <1>2, <1>3, <1>4, <2>1, <2>2, <2>3, <2>4 DEF Types, TypeOK
<1>8. OneAtATime'
  BY <1>2, <1>5 DEF OneAtATime
<1>9. SeenInv' /\ ActedInv'
  BY <1>1, <1>2, <1>5, <1>6 DEF SeenInv, ActedInv
<1>10. FreshInv'
  BY <1>2, <1>5 DEF FreshInv, Working
<1>11. EffectsInv'
  <2> SUFFICES ASSUME NEW q \in Procs, NEW x \in Keys
               PROVE  acts[q][x] <= (IF Kept(q, x)' THEN 1 ELSE 0) + faults'["throw"] + faults'["crash"] + evicted[q]
    BY <1>1 DEF EffectsInv
  <2>1. acts[q][x] <= (IF Kept(q, x) THEN 1 ELSE 0) + faults["throw"] + faults["crash"] + evicted[q]
    BY <1>2 DEF EffectsInv
  <2>2. acts[q][x] \in Nat /\ evicted[q] \in Nat
    BY <1>2 DEF TypeOK
  <2> QED
    BY <1>3, <2>1, <2>2
<1>12. AckedIsHandled'
  BY <1>1 DEF ConsumerInv, AckedIsHandled, HadEffect
<1>13. LastInv'
  <2>1. \A x \in Msgs, v \in Pumps : Has(v, x, MaxDeliver) => Has(v, x, MaxDeliver)' \/ x \in dropped'
    BY <1>4, <1>5 DEF Has
  <2>2. \A x \in Msgs : HadEffect(x) => HadEffect(x)'
    BY <1>1 DEF HadEffect
  <2> QED
    BY <1>1, <1>2, <1>4, <2>1, <2>2, LastStays
<1> QED
  BY <1>7, <1>8, <1>9, <1>10, <1>11, <1>12, <1>13 DEF ConsumerInv

-----------------------------------------------------------------------------
(* Theorems                                                                *)

LEMMA InitConsumer ==
  ASSUME Init
  PROVE  ConsumerInv
<1> USE EventConsumerConstants
<1>1. Range(<<>>) = {} /\ \A S : <<>> \in Seq(S) /\ Len(<<>>) = 0
  BY DEF Range
<1>2. TypeOK
  BY <1>1 DEF Init, TypeOK, Idle, Pumps
<1>3. Types
  BY <1>1, <1>2 DEF Init, Types
<1>4. OneAtATime /\ SeenInv /\ ActedInv /\ FreshInv
  BY <1>1, PumpsOfProc DEF Init, OneAtATime, SeenInv, ActedInv, FreshInv, Working, Idle
<1>5. EffectsInv
  <2>1. \A p \in Procs, k \in Keys : acts[p][k] = 0 /\ evicted[p] = 0
    BY DEF Init
  <2>2. faults["throw"] = 0 /\ faults["crash"] = 0
    BY DEF Init, FaultKinds
  <2> QED
    BY <2>1, <2>2 DEF EffectsInv
<1>6. LastInv /\ AckedIsHandled
  BY DEF Init, LastInv, AckedIsHandled
<1> QED
  BY <1>3, <1>4, <1>5, <1>6 DEF ConsumerInv

LEMMA NextKeeps ==
  ASSUME ConsumerInv, [Next]_vars
  PROVE  ConsumerInv'
<1>1. CASE Next
  BY <1>1, BeginKeeps, HandlerActsKeeps, HandlerReturnsKeeps, HandlerThrowsKeeps, AbortKeeps,
     SubscribeKeeps, DeliverKeeps, ExpireKeeps, CrashKeeps DEF Next, PumpStep
<1>2. CASE UNCHANGED vars
  <2>1. Types' /\ AckedIsHandled' /\ LastInv'
    <3>1. Types'
      BY <1>2 DEF ConsumerInv, Types, TypeOK, vars, server
    <3>2. AckedIsHandled'
      BY <1>2 DEF ConsumerInv, AckedIsHandled, HadEffect, vars, server
    <3>3. LastInv'
      BY <1>2 DEF ConsumerInv, LastInv, Worked, HadEffect, vars, server
    <3> QED
      BY <3>1, <3>2, <3>3
  <2>2. OneAtATime' /\ SeenInv' /\ ActedInv' /\ FreshInv' /\ EffectsInv'
    BY <1>2, HandlersStay DEF ConsumerInv, vars
  <2> QED
    BY <2>1, <2>2 DEF ConsumerInv
<1> QED
  BY <1>1, <1>2

\* ConsumerInv holds initially and is kept by every step.
THEOREM ConsumerInvariant == Spec => []ConsumerInv
<1>1. Init => ConsumerInv
  BY InitConsumer
<1>2. ConsumerInv /\ [Next]_vars => ConsumerInv'
  BY NextKeeps
<1> QED
  BY <1>1, <1>2, PTL DEF Spec

\* idempotent() and the pump: an acknowledged message has had its effect, whatever
\* was redelivered, lost, thrown, aborted or forgotten on the way.
THEOREM AckedIsHandledAlways == Spec => []AckedIsHandled
<1>1. ConsumerInv => AckedIsHandled
  BY DEF ConsumerInv
<1> QED
  BY <1>1, ConsumerInvariant, PTL

\* MemorySeenStore: a handler repeats its effect on a key only if a handler threw,
\* a process died or the store forgot a key at its limit, as often as that was.
THEOREM RepeatsAreCausedAlways == Spec => []RepeatsAreCaused
<1>1. ConsumerInv => RepeatsAreCaused
  <2> SUFFICES ASSUME ConsumerInv, NEW p \in Procs, NEW k \in Keys
               PROVE  acts[p][k] <= 1 + faults["throw"] + faults["crash"] + evicted[p]
    BY DEF RepeatsAreCaused
  <2>1. acts[p][k] <= (IF Kept(p, k) THEN 1 ELSE 0) + faults["throw"] + faults["crash"] + evicted[p]
    BY DEF ConsumerInv, EffectsInv
  <2>2. acts[p][k] \in Nat /\ evicted[p] \in Nat /\ faults["throw"] \in Nat /\ faults["crash"] \in Nat
    BY DEF ConsumerInv, Types, TypeOK, FaultKinds
  <2> QED
    BY <2>1, <2>2
<1> QED
  BY <1>1, ConsumerInvariant, PTL

\* The guard's limits, one handler of a key at a time in a process, and
\* bus.message_abandoned: a message the server gave up that nobody works on was
\* handled, announced, or dropped with its process or subscription.
THEOREM DeliveriesStayConsistent == Spec => []DeliveriesConsistent
<1>1. ConsumerInv => DeliveriesConsistent
  BY DEF ConsumerInv, Types, LastInv, DeliveriesConsistent, GivenUpIsAnnounced
<1> QED
  BY <1>1, ConsumerInvariant, PTL
=============================================================================
