--------------------------- MODULE EventConsumer ---------------------------
(***************************************************************************)
(* A durable consumer: JetStream's redelivery, the pump of a subscription  *)
(* and the idempotent() guard with its memory of handled keys              *)
(* (packages/events/src/jetstream-bus.ts, bus.ts).                         *)
(*                                                                         *)
(* A process has one store of keys and at most one live subscription; a    *)
(* subscription that was aborted may still be inside a handler when the    *)
(* process subscribes again.  Two messages have one key when the producer  *)
(* published again outside the server's window.  A handler that throws     *)
(* something other than an Error also ends its pump: that is HandlerThrows *)
(* and then Abort or Crash.                                                *)
(***************************************************************************)
EXTENDS Integers, FiniteSets, Sequences, SequencesExt

CONSTANTS
  Msgs, Keys,
  KeyOf,        \* the idempotency key of a message
  Procs,        \* processes: each its own MemorySeenStore
  MaxDeliver,   \* max_deliver of the durable
  MaxSeen,      \* size of a MemorySeenStore
  Prefetch,     \* bound: messages a subscription holds ahead of its handler
  MaxThrows,    \* bound: handlers that throw
  MaxLate,      \* bound: ack_wait runs out on a delivery still being worked on
  MaxLost,      \* bound: acks that are lost
  MaxCrashes,   \* bound: processes that die
  MaxAborts     \* bound: subscriptions aborted

ASSUME EventConsumerConstants ==
  /\ KeyOf \in [Msgs -> Keys]
  /\ MaxDeliver \in Nat \ {0} /\ MaxSeen \in Nat \ {0} /\ Prefetch \in Nat \ {0}
  /\ {MaxThrows, MaxLate, MaxLost, MaxCrashes, MaxAborts} \subseteq Nat

Pumps == Procs \X {1, 2}
Proc(u) == u[1]

VARIABLES
  srv,        \* the server's state of a message
  count,      \* its deliveries so far
  on,         \* the subscription pulls messages
  inbox,      \* deliveries a subscription holds: [msg, n]
  job,        \* the delivery in the handler: [pc, msg, n]
  held,       \* per process: keys in flight
  seen,       \* per process: keys whose handler succeeded, oldest first
  announced,  \* messages named in a bus.message_abandoned line
  dropped,    \* history: messages whose last delivery went with a process or
              \* with what an aborted subscription held
  evicted,    \* history, per process: keys forgotten at the store's limit
  acts,       \* effects of handlers, per process and key
  faults      \* how often each fault happened

server == <<srv, count>>
vars == <<server, on, inbox, job, held, seen, announced, dropped, evicted, acts, faults>>

FaultKinds == {"throw", "late", "lost", "crash", "abort"}
Bound == [throw |-> MaxThrows, late |-> MaxLate, lost |-> MaxLost, crash |-> MaxCrashes, abort |-> MaxAborts]
NoMsg == "none"
Idle == [pc |-> "idle", msg |-> NoMsg, n |-> 0]

Init ==
  /\ srv = [m \in Msgs |-> "ready"]
  /\ count = [m \in Msgs |-> 0]
  /\ on = [u \in Pumps |-> u[2] = 1]
  /\ inbox = [u \in Pumps |-> <<>>]
  /\ job = [u \in Pumps |-> Idle]
  /\ held = [p \in Procs |-> {}]
  /\ seen = [p \in Procs |-> <<>>]
  /\ announced = {}
  /\ dropped = {}
  /\ evicted = [p \in Procs |-> 0]
  /\ acts = [p \in Procs |-> [k \in Keys |-> 0]]
  /\ faults = [f \in FaultKinds |-> 0]

Fault(f) == faults[f] < Bound[f] /\ faults' = [faults EXCEPT ![f] = @ + 1]
Key(u) == KeyOf[job[u].msg]
HadEffect(m) == \E p \in Procs : acts[p][KeyOf[m]] > 0
End(u) == job' = [job EXCEPT ![u] = Idle]

-----------------------------------------------------------------------------
(* The server (external: NATS JetStream).                                  *)

Deliver(u, m) ==
  /\ on[u] /\ Len(inbox[u]) < Prefetch
  /\ srv[m] = "ready" /\ count[m] < MaxDeliver
  /\ srv' = [srv EXCEPT ![m] = "out"]
  /\ count' = [count EXCEPT ![m] = @ + 1]
  /\ inbox' = [inbox EXCEPT ![u] = Append(@, [msg |-> m, n |-> count[m] + 1])]
  /\ UNCHANGED <<on, job, held, seen, announced, acts, faults, dropped, evicted>>

\* Somebody still has the last delivery of m and will answer for it.
Worked(m) ==
  \E u \in Pumps : \/ job[u].msg = m /\ job[u].n = count[m]
                   \/ \E i \in DOMAIN inbox[u] : inbox[u][i] = [msg |-> m, n |-> count[m]]

\* ack_wait, or the delay of a nak, has passed: m is offered again, or given up.
Expire(m) ==
  /\ srv[m] \in {"out", "naked"}
  /\ IF srv[m] = "out" /\ Worked(m) THEN Fault("late") ELSE UNCHANGED faults
  /\ srv' = [srv EXCEPT ![m] = IF count[m] < MaxDeliver THEN "ready" ELSE "parked"]
  /\ UNCHANGED <<count, on, inbox, job, held, seen, announced, acts, dropped, evicted>>

\* What an ack or a nak of any delivery of m does at the server.
Acked(m) == [srv EXCEPT ![m] = IF @ = "parked" THEN @ ELSE "acked"]
Naked(m) == [srv EXCEPT ![m] = IF @ = "out" THEN "naked" ELSE @]

\* msg.ack() is sent and not confirmed.  (A nak that is lost is one that waits
\* for ack_wait instead.)
Ack(m) ==
  \/ srv' = Acked(m) /\ UNCHANGED faults
  \/ UNCHANGED srv /\ Fault("lost")

-----------------------------------------------------------------------------
(* The pump and idempotent()                                               *)

\* The catch of the pump: the last delivery is announced, then nak'd.
Nak(m, n) ==
  /\ announced' = IF n >= MaxDeliver THEN announced \cup {m} ELSE announced
  /\ srv' = Naked(m)

\* Mutant of Begin: a key in flight is taken for a key handled.
BeginHeldIsSeen(u) ==
  /\ job[u] = Idle /\ inbox[u] # <<>>
  /\ inbox' = [inbox EXCEPT ![u] = Tail(@)]
  /\ LET d == Head(inbox[u])
         k == KeyOf[d.msg]
     IN  IF k \in held[Proc(u)] \cup Range(seen[Proc(u)])
           THEN Ack(d.msg) /\ UNCHANGED <<job, held, announced>>
           ELSE /\ held' = [held EXCEPT ![Proc(u)] = @ \cup {k}]
                /\ job' = [job EXCEPT ![u] = [pc |-> "handle", msg |-> d.msg, n |-> d.n]]
                /\ UNCHANGED <<srv, announced, faults>>
  /\ UNCHANGED <<count, on, seen, acts, dropped, evicted>>

\* Mutant of Begin: keys in flight are not looked at.
BeginUnheld(u) ==
  /\ job[u] = Idle /\ inbox[u] # <<>>
  /\ inbox' = [inbox EXCEPT ![u] = Tail(@)]
  /\ LET d == Head(inbox[u])
         k == KeyOf[d.msg]
     IN  IF k \in Range(seen[Proc(u)])
           THEN Ack(d.msg) /\ UNCHANGED <<job, held, announced>>
           ELSE /\ held' = [held EXCEPT ![Proc(u)] = @ \cup {k}]
                /\ job' = [job EXCEPT ![u] = [pc |-> "handle", msg |-> d.msg, n |-> d.n]]
                /\ UNCHANGED <<srv, announced, faults>>
  /\ UNCHANGED <<count, on, seen, acts, dropped, evicted>>

\* The pump takes the next delivery.  A key in flight is refused, a key that
\* was handled is acknowledged, and any other goes to the handler.
Begin(u) ==
  /\ job[u] = Idle /\ inbox[u] # <<>>
  /\ inbox' = [inbox EXCEPT ![u] = Tail(@)]
  /\ LET d == Head(inbox[u])
         k == KeyOf[d.msg]
     IN  \/ /\ k \in held[Proc(u)]
            /\ Nak(d.msg, d.n)
            /\ UNCHANGED <<job, held, faults>>
         \/ /\ k \in Range(seen[Proc(u)]) \ held[Proc(u)]
            /\ Ack(d.msg)
            /\ UNCHANGED <<job, held, announced>>
         \/ /\ k \notin Range(seen[Proc(u)]) \cup held[Proc(u)]
            /\ held' = [held EXCEPT ![Proc(u)] = @ \cup {k}]
            /\ job' = [job EXCEPT ![u] = [pc |-> "handle", msg |-> d.msg, n |-> d.n]]
            /\ UNCHANGED <<srv, announced, faults>>
  /\ UNCHANGED <<count, on, seen, acts, dropped, evicted>>

\* The handler's effect is in place; it has yet to return.
HandlerActs(u) ==
  /\ job[u].pc = "handle"
  /\ acts' = [acts EXCEPT ![Proc(u)][Key(u)] = @ + 1]
  /\ job' = [job EXCEPT ![u].pc = "acted"]
  /\ UNCHANGED <<server, on, inbox, held, seen, announced, faults, dropped, evicted>>

\* Mutant of Remember: a key is kept only while the store has room.
RememberWhileRoom(s, k) ==
  IF k \in Range(s) \/ Len(s) >= MaxSeen THEN s ELSE Append(s, k)

\* MemorySeenStore.commit
Remember(s, k) ==
  IF k \in Range(s) THEN s ELSE Append(IF Len(s) >= MaxSeen THEN Tail(s) ELSE s, k)

\* The handler returned: commit, the key is no longer in flight, ack.
HandlerReturns(u) ==
  /\ job[u].pc = "acted"
  /\ seen' = [seen EXCEPT ![Proc(u)] = Remember(@, Key(u))]
  /\ evicted' = [evicted EXCEPT ![Proc(u)] = @ + Cardinality(Range(seen[Proc(u)]) \ Range(seen'[Proc(u)]))]
  /\ held' = [held EXCEPT ![Proc(u)] = @ \ {Key(u)}]
  /\ Ack(job[u].msg)
  /\ End(u)
  /\ UNCHANGED <<count, on, inbox, announced, acts, dropped>>

\* Mutant of HandlerThrows: the failed message is acknowledged.
HandlerThrowsAcks(u) ==
  /\ job[u].pc \in {"handle", "acted"} /\ Fault("throw")
  /\ held' = [held EXCEPT ![Proc(u)] = @ \ {Key(u)}]
  /\ srv' = Acked(job[u].msg)
  /\ End(u)
  /\ UNCHANGED <<count, on, inbox, seen, announced, acts, dropped, evicted>>

\* The handler threw, its effect in place or not: release, then nak.
HandlerThrows(u) ==
  /\ job[u].pc \in {"handle", "acted"} /\ Fault("throw")
  /\ held' = [held EXCEPT ![Proc(u)] = @ \ {Key(u)}]
  /\ Nak(job[u].msg, job[u].n)
  /\ End(u)
  /\ UNCHANGED <<count, on, inbox, seen, acts, dropped, evicted>>

\* What a subscription holds goes with it: the last delivery of a message is
\* then redelivered by nobody.
LastTries(ds) == {d.msg : d \in {x \in ds : x.n = MaxDeliver}}

\* The signal of a subscription: what it holds is dropped, the handler goes on.
Abort(u) ==
  /\ on[u] /\ Fault("abort")
  /\ on' = [on EXCEPT ![u] = FALSE]
  /\ inbox' = [inbox EXCEPT ![u] = <<>>]
  /\ dropped' = dropped \cup LastTries(Range(inbox[u]))
  /\ UNCHANGED <<server, job, held, seen, announced, acts, evicted>>

\* The process subscribes again, with the store it has.
Subscribe(u) ==
  /\ \A i \in {1, 2} : ~on[<<Proc(u), i>>]
  /\ job[u] = Idle
  /\ on' = [on EXCEPT ![u] = TRUE]
  /\ UNCHANGED <<server, inbox, job, held, seen, announced, acts, faults, dropped, evicted>>

\* A process dies and comes back with an empty store.
Crash(p) ==
  /\ Fault("crash")
  /\ held' = [held EXCEPT ![p] = {}]
  /\ seen' = [seen EXCEPT ![p] = <<>>]
  /\ dropped' = dropped \cup UNION {LastTries({job[<<p, i>>]} \cup Range(inbox[<<p, i>>])) : i \in {1, 2}}
  /\ on' = [u \in Pumps |-> IF Proc(u) = p THEN u[2] = 1 ELSE on[u]]
  /\ inbox' = [u \in Pumps |-> IF Proc(u) = p THEN <<>> ELSE inbox[u]]
  /\ job' = [u \in Pumps |-> IF Proc(u) = p THEN Idle ELSE job[u]]
  /\ UNCHANGED <<server, announced, acts, evicted>>

-----------------------------------------------------------------------------
PumpStep(u) == Begin(u) \/ HandlerActs(u) \/ HandlerReturns(u)

Next ==
  \/ \E u \in Pumps : PumpStep(u) \/ HandlerThrows(u) \/ Abort(u) \/ Subscribe(u)
  \/ \E u \in Pumps, m \in Msgs : Deliver(u, m)
  \/ \E m \in Msgs : Expire(m)
  \/ \E p \in Procs : Crash(p)

Spec == Init /\ [][Next]_vars
FairSpec ==
  /\ Spec
  /\ \A u \in Pumps : WF_vars(PumpStep(u)) /\ WF_vars(Subscribe(u))
  /\ \A m \in Msgs : WF_vars(\E u \in Pumps : Deliver(u, m)) /\ WF_vars(Expire(m))

-----------------------------------------------------------------------------
(* Properties                                                              *)

\* Deliveries stay within maxDeliver, the buffer within its prefetch and the
\* store of seen keys within its limit.
TypeOK ==
  /\ srv \in [Msgs -> {"ready", "out", "naked", "acked", "parked"}]
  /\ count \in [Msgs -> 0 .. MaxDeliver]
  /\ on \in [Pumps -> BOOLEAN]
  /\ \A u \in Pumps : job[u].pc \in {"idle", "handle", "acted"} /\ Len(inbox[u]) <= Prefetch
  /\ held \in [Procs -> SUBSET Keys]
  /\ \A p \in Procs : Range(seen[p]) \subseteq Keys /\ Len(seen[p]) <= MaxSeen
  /\ announced \subseteq Msgs /\ dropped \subseteq Msgs
  /\ evicted \in [Procs -> Nat] /\ acts \in [Procs -> [Keys -> Nat]]

\* idempotent(): "Returning on it lets the JetStream pump ack, and the handler
\* never succeeds."  A message that was acknowledged has had its effect, whoever
\* redelivered, threw, died or was aborted on the way.
AckedIsHandled == \A m \in Msgs : srv[m] = "acked" => HadEffect(m)

\* A process is never inside two handlers of one key, and knows what it is in.
OneAtATime ==
  \A u, v \in Pumps :
    /\ job[u] # Idle => Key(u) \in held[Proc(u)]
    /\ u # v /\ Proc(u) = Proc(v) /\ job[u] # Idle /\ job[v] # Idle => Key(u) # Key(v)

\* In one process a handler has its effect on a key a second time only for a
\* reason: a handler threw, the process died, or its store forgot a key at the
\* limit.  A redelivery, a lost ack or a new subscription is not one.
RepeatsAreCaused ==
  \A p \in Procs, k \in Keys :
    acts[p][k] <= 1 + faults["throw"] + faults["crash"] + evicted[p]

\* SubscribeOptions.maxDeliver: "the bus prints one structured
\* bus.message_abandoned error as it happens".  A message the server gave up on,
\* that nobody is working on, was handled or was announced.  The one exception:
\* its last delivery died with its process or was in the buffer of an aborted
\* subscription; then no catch runs and nothing is printed.
GivenUpIsAnnounced ==
  \A m \in Msgs : srv[m] = "parked" /\ ~Worked(m) =>
    m \in announced \cup dropped \/ HadEffect(m)

\* Every message comes to an end: it is handled, announced as abandoned, or its
\* last delivery was dropped.  It does not wait for ever behind a key in flight,
\* a lost ack or a dead subscription.
EveryMessageEnds ==
  \A m \in Msgs : <>(HadEffect(m) \/ m \in announced \cup dropped)

\* What the guard keeps is in order: within its limits, one handler of a key at a
\* time in a process, and no message given up without a word.
DeliveriesConsistent == TypeOK /\ OneAtATime /\ GivenUpIsAnnounced
=============================================================================
