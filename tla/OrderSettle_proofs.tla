-------------------------- MODULE OrderSettle_proofs --------------------------
(***************************************************************************)
(* Safety of funded orders, their fills and the release of their holds,    *)
(* for every set of orders and processes and any quantities.  The argument *)
(* is about matches, not about amounts: of each order the matches the      *)
(* engine made, those whose leg is recorded and those that are booked are  *)
(* nested, and every amount is the size of one of them (BookInv, MoneyInv, *)
(* SumInv).  What is missing between two of them is on the bus until       *)
(* somebody has seen to it (EventInv, CancelInv, RefreshInv).              *)
(***************************************************************************)
EXTENDS OrderSettle, FiniteSetTheorems, SequenceTheorems, TLAPS

Matches == {x \in [seq : Nat, mk : Orders, tk : Orders] : x.mk \in Sells <=> x.tk \in Buys}
FillOf(x) == [kind |-> "fill", of |-> x]
CancelOf(o) == [kind |-> "cancel", of |-> o]
Events == [kind : {"fill"}, of : Matches] \cup [kind : {"cancel"}, of : Orders]

\* The leg of match x at its order o.
Leg(x, role) == [of |-> x, role |-> role]
LegAt(x, o) == Leg(x, IF x.mk = o THEN "maker" ELSE "taker")

\* Of the matches of o, those recorded and those booked.
Recorded(o) == {x \in FillsOf(o) : LegAt(x, o) \in legs}
PostedOf(o) == FillsOf(o) \cap posted

Filling == {"maker", "taker", "sumMaker", "writeMaker", "sumTaker", "writeTaker", "post"}
JobType ==
  [pc : {"idle", "submit", "close"} \cup Filling, order : Orders \cup {NoOrder}, todo : Seq(Matches),
   cancels : SUBSET Orders, touched : SUBSET Orders, ack : SUBSET Events, num : Nat]

\* What the variables hold, beyond TypeOK.
Types ==
  /\ eng \in [Orders -> [st : {"new", "live", "gone"}, left : Nat]]
  /\ IsFiniteSet(printed) /\ printed \subseteq Matches /\ posted \subseteq printed
  /\ legs \subseteq [of : printed, role : {"maker", "taker"}]
  /\ bus \subseteq Events
  /\ status \in [Orders -> {"open", "filled", "cancelled"}]
  /\ filled \in [Orders -> Nat] /\ pot \in [Orders -> Nat] /\ freed \in [Orders -> Nat \cup {-1}]
  /\ job \in [Procs -> JobType]
  /\ raced \in [Orders -> SUBSET Races]

\* An order has filled what it has not left; before it is placed it has not filled,
\* and while it rests something is left.
BookInv ==
  \A o \in Orders :
    /\ Cardinality(FillsOf(o)) + eng[o].left = Qty[o]
    /\ eng[o].st = "new" => FillsOf(o) = {}
    /\ eng[o].st = "live" => eng[o].left > 0

\* An order is placed once, by one process.
PlaceInv ==
  \A p \in Procs : At(p, "submit") =>
    /\ job[p].order \in Orders /\ eng[job[p].order].st = "new"
    /\ \A q \in Procs : job[q].order = job[p].order => p = q

\* A job that settles fills has some left, which the engine made; it has recorded
\* the legs it is past.
WorkInv ==
  \A p \in Procs :
    /\ job[p].pc \in Filling <=> job[p].todo # <<>>
    /\ \A i \in DOMAIN job[p].todo : job[p].todo[i] \in printed
    /\ job[p].pc \in Filling \ {"maker"} => Leg(Cur(p), "maker") \in legs
    /\ job[p].pc \in Filling \ {"maker", "taker"} => Leg(Cur(p), "taker") \in legs
    /\ job[p].pc \in {"idle", "submit"} => job[p].ack = {} /\ job[p].cancels = {}
    /\ job[p].pc = "idle" => job[p].order = NoOrder

\* What an event's handler has still to do, and has done.
AckInv ==
  \A p \in Procs : \A e \in job[p].ack :
    /\ job[p].ack = {e} /\ job[p].order = NoOrder
    /\ e.kind = "fill" =>
         /\ job[p].cancels = {}
         /\ job[p].pc \in Filling => job[p].todo = <<e.of>> /\ {e.of.mk, e.of.tk} \subseteq job[p].touched
         /\ job[p].pc = "close" => e.of \in posted
    /\ e.kind = "cancel" =>
         /\ job[p].pc = "close"
         /\ e.of \in job[p].cancels \/ status[e.of] # "open"

\* A match is on the bus until it is booked, and it is booked once its legs are
\* recorded.
EventInv ==
  /\ \A x \in printed : x \in posted \/ FillOf(x) \in bus
  /\ \A x \in posted : Leg(x, "maker") \in legs /\ Leg(x, "taker") \in legs
  /\ \A e \in bus : e.kind = "fill" => e.of \in printed

\* An order that is cancelled is off the book; one that left it unfilled is on the
\* bus until it has ended.
CancelInv ==
  \A o \in Orders :
    /\ CancelOf(o) \in bus \/ (\E p \in Procs : o \in job[p].cancels) => eng[o].st = "gone"
    /\ eng[o].st = "gone" /\ eng[o].left > 0 /\ status[o] = "open" => CancelOf(o) \in bus

\* Who cancels an order for an event, or the order it submitted itself, has
\* recorded every match of it or is about to.
AheadInv ==
  \A p \in Procs : \A o \in job[p].cancels :
    job[p].ack # {} \/ job[p].order = o =>
      status[o] # "open" \/ FillsOf(o) \subseteq Recorded(o) \cup Range(job[p].todo)

\* A hold is in its pot, booked or given back; what was given back is what no
\* match will take.
MoneyInv ==
  \A o \in Orders :
    /\ pot[o] + Cardinality(PostedOf(o)) + (IF freed[o] >= 0 THEN freed[o] ELSE 0) = Qty[o] + Dust
    /\ status[o] # "open" => freed[o] >= 0
    /\ freed[o] >= 0 /\ "ahead" \notin raced[o] =>
         eng[o].st = "gone" /\ Recorded(o) = FillsOf(o) /\ freed[o] = eng[o].left + Dust

\* A process has summed the fills of o and not written the sum, or has not summed.
Writes(p, o) == (At(p, "writeMaker") /\ Cur(p).mk = o) \/ (At(p, "writeTaker") /\ Cur(p).tk = o)
Unsummed(p, o) ==
  job[p].pc \in {"maker", "taker", "sumMaker"} \/ (job[p].pc \in {"writeMaker", "sumTaker"} /\ Cur(p).tk = o)

\* No sum is of more than is recorded.
SumInv ==
  \A o \in Orders :
    /\ filled[o] <= Cardinality(Recorded(o))
    /\ \A p \in Procs : Writes(p, o) => job[p].num <= Cardinality(Recorded(o))

\* A match of o whose handlers will write more than n.
Raises(x, o, n) ==
  FillOf(x) \in bus /\ \A p \in Procs : FillOf(x) \in job[p].ack => Unsummed(p, o) \/ (Writes(p, o) /\ n < job[p].num)

\* A match of o whose handlers will look whether o is complete.
Completes(x, o) == FillOf(x) \in bus /\ \A p \in Procs : FillOf(x) \in job[p].ack => o \in job[p].touched

\* Unless two refreshes of o overlapped: what is recorded and not in filled_qty will
\* be, and an order that is complete will end, by a match still on the bus.
RefreshInv ==
  \A o \in Orders : "refresh" \notin raced[o] =>
    /\ \A p \in Procs : Writes(p, o) => filled[o] <= job[p].num /\ \A q \in Procs : Writes(q, o) => p = q
    /\ \A n \in 0 .. Qty[o] : filled[o] <= n /\ n < Cardinality(Recorded(o)) => \E x \in FillsOf(o) : Raises(x, o, n)
    /\ filled[o] >= Qty[o] /\ status[o] = "open" => \E x \in FillsOf(o) : Completes(x, o)

SettleInv ==
  /\ Types /\ BookInv /\ PlaceInv /\ WorkInv /\ AckInv /\ EventInv /\ CancelInv /\ AheadInv
  /\ MoneyInv /\ SumInv /\ RefreshInv

-----------------------------------------------------------------------------
(* Sets of matches and their sizes                                         *)

\* The matches of an order, with a leg at it, and booked.
LEMMA MatchSets ==
  ASSUME Types, EventInv, NEW o \in Orders
  PROVE  /\ IsFiniteSet(FillsOf(o)) /\ IsFiniteSet(Recorded(o)) /\ IsFiniteSet(PostedOf(o))
         /\ PostedOf(o) \subseteq Recorded(o) /\ Recorded(o) \subseteq FillsOf(o)
         /\ FillsOf(o) \subseteq printed
<1>1. FillsOf(o) \subseteq printed /\ Recorded(o) \subseteq FillsOf(o)
  BY DEF FillsOf, Recorded
<1>2. PostedOf(o) \subseteq Recorded(o)
  BY DEF PostedOf, Recorded, EventInv, LegAt
<1> QED
  BY <1>1, <1>2, FS_Subset DEF Types

LEMMA MatchSizes ==
  ASSUME Types, EventInv, NEW o \in Orders
  PROVE  /\ Cardinality(FillsOf(o)) \in Nat /\ Cardinality(Recorded(o)) \in Nat
         /\ Cardinality(PostedOf(o)) \in Nat
         /\ Cardinality(PostedOf(o)) <= Cardinality(Recorded(o))
         /\ Cardinality(Recorded(o)) <= Cardinality(FillsOf(o))
         /\ Cardinality(Recorded(o)) = Cardinality(FillsOf(o)) => Recorded(o) = FillsOf(o)
<1>1. /\ IsFiniteSet(FillsOf(o)) /\ IsFiniteSet(Recorded(o)) /\ IsFiniteSet(PostedOf(o))
      /\ PostedOf(o) \subseteq Recorded(o) /\ Recorded(o) \subseteq FillsOf(o)
  BY MatchSets
<1>2. /\ Cardinality(FillsOf(o)) \in Nat /\ Cardinality(Recorded(o)) \in Nat
      /\ Cardinality(PostedOf(o)) \in Nat
  BY <1>1, FS_CardinalityType
<1>3. Cardinality(PostedOf(o)) <= Cardinality(Recorded(o))
  BY <1>1, FS_Subset
<1>4. /\ Cardinality(Recorded(o)) <= Cardinality(FillsOf(o))
      /\ Cardinality(FillsOf(o)) = Cardinality(Recorded(o)) => FillsOf(o) = Recorded(o)
  BY <1>1, FS_Subset
<1> QED
  BY <1>2, <1>3, <1>4

\* A match has two orders, of the two sides.
LEMMA TwoSides ==
  ASSUME NEW x \in Matches
  PROVE  x.mk \in Orders /\ x.tk \in Orders /\ x.mk # x.tk /\ x.seq \in Nat
BY OrderSettleConstants DEF Matches, Orders

\* The legs of an order and its recorded matches are equally many.
LEMMA LegsCounted ==
  ASSUME Types, EventInv, NEW o \in Orders, NEW P
  PROVE  Cardinality({l \in legs : LegOrder(l) = o /\ l.of \notin P}) = Cardinality(Recorded(o) \ P)
<1> DEFINE L == {l \in legs : LegOrder(l) = o /\ l.of \notin P}
           R == Recorded(o) \ P
           f == [x \in R |-> LegAt(x, o)]
<1>1. IsFiniteSet(R)
  BY MatchSets, FS_Subset
<1>2. \A l \in legs : /\ l.of \in printed /\ l.of \in Matches /\ l.role \in {"maker", "taker"}
                      /\ l = Leg(l.of, l.role)
  BY DEF Types, Leg
<1>3. \A l \in L : l.of \in R /\ f[l.of] = l
  <2> SUFFICES ASSUME NEW l \in L PROVE l.of \in R /\ f[l.of] = l
    OBVIOUS
  <2>1. l.of.mk # l.of.tk
    BY <1>2, TwoSides
  <2>2. o \in {l.of.mk, l.of.tk} /\ LegAt(l.of, o) = l
    BY <1>2, <2>1 DEF LegOrder, LegAt, Leg
  <2> QED
    BY <1>2, <2>2 DEF Recorded, FillsOf
<1>4. \A x \in R : f[x] \in L
  <2> SUFFICES ASSUME NEW x \in R PROVE f[x] \in L
    OBVIOUS
  <2>1. x \in printed /\ x \in Matches /\ o \in {x.mk, x.tk} /\ LegAt(x, o) \in legs /\ x \notin P
    BY DEF Recorded, FillsOf, Types
  <2>2. LegAt(x, o).of = x /\ LegOrder(LegAt(x, o)) = o
    BY <2>1 DEF LegAt, Leg, LegOrder
  <2> QED
    BY <2>1, <2>2
<1>5. \A x, y \in R : f[x] = f[y] => x = y
  BY DEF LegAt, Leg
<1>6. f \in Bijection(R, L)
  BY <1>3, <1>4, <1>5 DEF Bijection, Injection, Surjection, IsInjective
<1>7. ExistsBijection(R, L)
  BY <1>6 DEF ExistsBijection
<1> QED
  BY <1>1, <1>7, FS_Bijection

LEMMA SumIsRecorded ==
  ASSUME Types, EventInv, NEW o \in Orders
  PROVE  SumOfFills(o) = Cardinality(Recorded(o))
<1>1. Cardinality({l \in legs : LegOrder(l) = o /\ l.of \notin {}}) = Cardinality(Recorded(o) \ {})
  BY LegsCounted
<1>2. /\ {l \in legs : LegOrder(l) = o /\ l.of \notin {}} = {l \in legs : LegOrder(l) = o}
      /\ Recorded(o) \ {} = Recorded(o)
  OBVIOUS
<1> QED
  BY <1>1, <1>2 DEF SumOfFills

-----------------------------------------------------------------------------
(* What a step does to the state, field by field                           *)

\* Events are told apart by what they are of.
LEMMA EventsDiffer ==
  /\ \A x, y : FillOf(x) = FillOf(y) => x = y
  /\ \A x, o : FillOf(x) # CancelOf(o)
  /\ \A o, u : CancelOf(o) = CancelOf(u) => o = u
  /\ \A x : FillOf(x).kind = "fill" /\ FillOf(x).of = x
  /\ \A o : CancelOf(o).kind = "cancel" /\ CancelOf(o).of = o
  /\ \A e \in Events : e.kind = "fill" => e = FillOf(e.of) /\ e.of \in Matches
  /\ \A e \in Events : e.kind = "cancel" => e = CancelOf(e.of) /\ e.of \in Orders
  /\ \A e \in Events : e.kind \in {"fill", "cancel"}
  /\ \A x \in Matches : FillOf(x) \in Events
  /\ \A o \in Orders : CancelOf(o) \in Events
<1>1. \A x, o : FillOf(x).kind # CancelOf(o).kind
  BY DEF FillOf, CancelOf
<1>2. \A x : FillOf(x).kind = "fill" /\ FillOf(x).of = x
  BY DEF FillOf
<1>3. \A o : CancelOf(o).kind = "cancel" /\ CancelOf(o).of = o
  BY DEF CancelOf
<1>4. \A e \in Events : e.kind = "fill" => e = FillOf(e.of) /\ e.of \in Matches
  BY DEF Events, FillOf
<1>5. \A e \in Events : e.kind = "cancel" => e = CancelOf(e.of) /\ e.of \in Orders
  BY DEF Events, CancelOf
<1>6. \A e \in Events : e.kind \in {"fill", "cancel"}
  BY DEF Events
<1>7. /\ \A x \in Matches : FillOf(x) \in Events
      /\ \A o \in Orders : CancelOf(o) \in Events
  BY DEF Events, FillOf, CancelOf
<1>8. \A x, o : FillOf(x) # CancelOf(o)
  BY <1>1
<1>9. \A x, y : FillOf(x) = FillOf(y) => x = y
  BY <1>2
<1>10. \A o, u : CancelOf(o) = CancelOf(u) => o = u
  BY <1>3
<1> QED
  BY <1>2, <1>3, <1>4, <1>5, <1>6, <1>7, <1>8, <1>9, <1>10

LEMMA MatchesStay ==
  ASSUME UNCHANGED <<printed, legs, posted>>
  PROVE  \A o : FillsOf(o)' = FillsOf(o) /\ Recorded(o)' = Recorded(o) /\ PostedOf(o)' = PostedOf(o)
BY DEF FillsOf, Recorded, PostedOf

\* What a process holds.
LEMMA JobFields ==
  ASSUME Types, NEW p \in Procs
  PROVE  /\ job[p] \in JobType /\ job[p].pc \in {"idle", "submit", "close"} \cup Filling
         /\ job[p].order \in Orders \cup {NoOrder}
         /\ job[p].todo \in Seq(Matches) /\ job[p].cancels \subseteq Orders /\ job[p].touched \subseteq Orders
         /\ job[p].ack \subseteq Events /\ job[p].num \in Nat
BY DEF Types, JobType

\* The match a process settles.
LEMMA CurIsMatch ==
  ASSUME Types, WorkInv, NEW p \in Procs, job[p].pc \in Filling
  PROVE  /\ Cur(p) \in printed /\ Cur(p) \in Matches /\ Cur(p) = job[p].todo[1] /\ job[p].todo # <<>>
         /\ 1 \in DOMAIN job[p].todo
         /\ Cur(p).mk \in Orders /\ Cur(p).tk \in Orders /\ Cur(p).mk # Cur(p).tk
<1>1. job[p].todo \in Seq(Matches) /\ job[p].todo # <<>>
  BY JobFields DEF WorkInv
<1>2. Cur(p) = job[p].todo[1] /\ 1 \in DOMAIN job[p].todo
  BY <1>1 DEF Cur
<1>3. Cur(p) \in printed
  BY <1>2 DEF WorkInv
<1>4. Cur(p) \in Matches
  BY <1>3 DEF Types
<1> QED
  BY <1>1, <1>2, <1>3, <1>4, TwoSides

\* The handler of a match's event settles that match.
LEMMA HandlerSettles ==
  ASSUME Types, WorkInv, AckInv, NEW p \in Procs, NEW x, FillOf(x) \in job[p].ack
  PROVE  /\ job[p].pc \in Filling => Cur(p) = x /\ x.mk \in job[p].touched /\ x.tk \in job[p].touched
         /\ job[p].pc \in Filling \cup {"close"}
         /\ job[p].pc = "close" => x \in posted
<1>1. FillOf(x).kind = "fill" /\ FillOf(x).of = x
  BY EventsDiffer
<1>2. job[p].pc \in Filling => job[p].todo = <<x>> /\ {x.mk, x.tk} \subseteq job[p].touched
  BY <1>1 DEF AckInv
<1>3. job[p].pc = "close" => x \in posted
  BY <1>1 DEF AckInv
<1>4. job[p].pc \in Filling \cup {"close"}
  BY JobFields DEF WorkInv
<1> QED
  BY <1>2, <1>3, <1>4 DEF Cur

\* One process moves.
OneJob(p) == job' \in [Procs -> JobType] /\ \A q \in Procs : q # p => job'[q] = job[q]
Keeps(p) ==
  /\ job'[p].order = job[p].order /\ job'[p].todo = job[p].todo /\ job'[p].cancels = job[p].cancels
  /\ job'[p].touched = job[p].touched /\ job'[p].ack = job[p].ack
Goes(p, pc) == OneJob(p) /\ Keeps(p) /\ job'[p].pc = pc /\ job'[p].num = job[p].num
Ends(p) == OneJob(p) /\ job'[p] = Idle

LEMMA IdleRests ==
  /\ Idle \in JobType /\ Idle.pc = "idle" /\ Idle.order = NoOrder /\ Idle.todo = <<>> /\ Idle.cancels = {}
  /\ Idle.touched = {} /\ Idle.ack = {} /\ Idle.num = 0
BY DEF Idle, JobType

LEMMA EndEnds ==
  ASSUME Types, NEW p \in Procs, End(p)
  PROVE  Ends(p)
BY IdleRests DEF Types, End, Ends, OneJob

LEMMA GotoGoes ==
  ASSUME Types, NEW p \in Procs, NEW pc \in {"idle", "submit", "close"} \cup Filling, Goto(p, pc)
  PROVE  Goes(p, pc)
<1>1. job' = [job EXCEPT ![p].pc = pc] /\ job \in [Procs -> JobType]
  BY DEF Goto, Types
<1>2. job'[p] = [job[p] EXCEPT !.pc = pc] /\ \A q \in Procs : q # p => job'[q] = job[q]
  BY <1>1
<1>3. job[p] \in JobType
  BY <1>1
<1> PICK j : j = [job[p] EXCEPT !.pc = pc]
  OBVIOUS
<1>4. /\ j \in JobType /\ j.pc = pc /\ j.order = job[p].order /\ j.todo = job[p].todo
      /\ j.cancels = job[p].cancels /\ j.touched = job[p].touched /\ j.ack = job[p].ack
      /\ j.num = job[p].num
  BY <1>3 DEF JobType
<1>5. job'[p] = j /\ job' \in [Procs -> JobType]
  BY <1>1, <1>2, <1>4
<1> QED
  BY <1>2, <1>4, <1>5 DEF Goes, OneJob, Keeps

\* What the others do stays.
LEMMA OthersStay ==
  ASSUME NEW p \in Procs, OneJob(p)
  PROVE  \A q \in Procs : q # p =>
           /\ job'[q] = job[q] /\ Cur(q)' = Cur(q)
           /\ \A o : (Writes(q, o)' <=> Writes(q, o)) /\ (Unsummed(q, o)' <=> Unsummed(q, o))
BY DEF OneJob, Cur, Writes, Unsummed, At

\* A process that settles nothing writes nothing.
LEMMA IdleWrites ==
  ASSUME NEW p \in Procs, job[p].pc \notin Filling
  PROVE  \A o : ~Writes(p, o) /\ ~Unsummed(p, o)
BY DEF Writes, Unsummed, At, Filling

MayNote == raced' \in [Orders -> SUBSET Races] /\ \A o \in Orders : raced[o] \subseteq raced'[o]

\* What a step is for the invariant that leaves all but jobs and the marks alone.
LEMMA RestStays ==
  ASSUME SettleInv, MayNote, UNCHANGED <<engine, money, tables, bus>>
  PROVE  /\ BookInv' /\ EventInv' /\ MoneyInv'
         /\ job' \in [Procs -> JobType] => Types'
         /\ \A o : FillsOf(o)' = FillsOf(o) /\ Recorded(o)' = Recorded(o) /\ PostedOf(o)' = PostedOf(o)
         /\ UNCHANGED <<eng, printed, bus, legs, status, filled, posted, pot, freed>>
<1>1. UNCHANGED <<eng, printed, bus, legs, status, filled, posted, pot, freed>>
  BY DEF engine, money, tables
<1>2. \A o : FillsOf(o)' = FillsOf(o) /\ Recorded(o)' = Recorded(o) /\ PostedOf(o)' = PostedOf(o)
  BY <1>1, MatchesStay
<1>3. BookInv'
  BY <1>1, <1>2 DEF SettleInv, BookInv
<1>4. EventInv'
  BY <1>1 DEF SettleInv, EventInv
<1>5. MoneyInv'
  BY <1>1, <1>2 DEF SettleInv, MoneyInv, MayNote
<1>6. job' \in [Procs -> JobType] => Types'
  BY <1>1 DEF SettleInv, Types, MayNote
<1> QED
  BY <1>1, <1>2, <1>3, <1>4, <1>5, <1>6

\* A process that ends leaves its promises to the bus.
LEMMA EndsKeep ==
  ASSUME SettleInv, NEW p \in Procs, Ends(p), MayNote, UNCHANGED <<engine, posted, tables, bus>>,
         pot' \in [Orders -> Nat], freed' \in [Orders -> Nat \cup {-1}], MoneyInv'
  PROVE  SettleInv'
<1>1. /\ job'[p].pc = "idle" /\ job'[p].order = NoOrder /\ job'[p].todo = <<>> /\ job'[p].cancels = {}
      /\ job'[p].touched = {} /\ job'[p].ack = {} /\ job'[p].num = 0
      /\ OneJob(p) /\ job' \in [Procs -> JobType]
  BY IdleRests DEF Ends, OneJob
<1>2. /\ BookInv' /\ EventInv' /\ MoneyInv' /\ Types'
      /\ \A o : FillsOf(o)' = FillsOf(o) /\ Recorded(o)' = Recorded(o) /\ PostedOf(o)' = PostedOf(o)
      /\ UNCHANGED <<eng, printed, bus, legs, status, filled, posted>>
  <2>1. UNCHANGED <<eng, printed, bus, legs, status, filled, posted>>
    BY DEF engine, tables
  <2>2. \A o : FillsOf(o)' = FillsOf(o) /\ Recorded(o)' = Recorded(o) /\ PostedOf(o)' = PostedOf(o)
    BY <2>1, MatchesStay
  <2>3. BookInv' /\ EventInv'
    BY <2>1, <2>2 DEF SettleInv, BookInv, EventInv
  <2>4. Types'
    BY <1>1, <2>1 DEF SettleInv, Types, MayNote
  <2> QED
    BY <2>1, <2>2, <2>3, <2>4
<1>3. \A q \in Procs : q # p =>
           /\ job'[q] = job[q] /\ Cur(q)' = Cur(q)
           /\ \A o : (Writes(q, o)' <=> Writes(q, o)) /\ (Unsummed(q, o)' <=> Unsummed(q, o))
  BY <1>1, OthersStay
<1>4. \A o : ~Writes(p, o)'
  BY <1>1 DEF Writes, At
<1>5. PlaceInv'
  <2>1. \A q \in Procs : job'[q].pc = "submit" => q # p
    BY <1>1
  <2>2. job'[p].order \notin Orders
    BY <1>1, OrderSettleConstants DEF NoOrder
  <2> QED
    BY <1>2, <1>3, <2>1, <2>2 DEF SettleInv, PlaceInv, At
<1>6. WorkInv'
  BY <1>1, <1>2, <1>3 DEF SettleInv, WorkInv, Filling
<1>7. AckInv'
  BY <1>1, <1>2, <1>3 DEF SettleInv, AckInv
<1>8. CancelInv'
  BY <1>1, <1>2, <1>3 DEF SettleInv, CancelInv
<1>9. AheadInv'
  BY <1>1, <1>2, <1>3 DEF SettleInv, AheadInv
<1>10. SumInv'
  BY <1>2, <1>3, <1>4 DEF SettleInv, SumInv
<1>11. RefreshInv'
  <2>1. \A o \in Orders : "refresh" \notin raced'[o] => "refresh" \notin raced[o]
    BY DEF MayNote
  <2>2. \A x, o, n : Raises(x, o, n) => Raises(x, o, n)'
    BY <1>1, <1>2, <1>3 DEF Raises
  <2>3. \A x, o : Completes(x, o) => Completes(x, o)'
    BY <1>1, <1>2, <1>3 DEF Completes
  <2> QED
    BY <1>2, <1>3, <1>4, <2>1, <2>2, <2>3 DEF SettleInv, RefreshInv
<1> QED
  BY <1>2, <1>5, <1>6, <1>7, <1>8, <1>9, <1>10, <1>11 DEF SettleInv

LEMMA EndKeeps ==
  ASSUME SettleInv, NEW p \in Procs, Ends(p), MayNote, UNCHANGED <<engine, money, tables, bus>>
  PROVE  SettleInv'
<1>1. MoneyInv' /\ UNCHANGED <<posted, pot, freed>>
  BY RestStays
<1> QED
  BY <1>1, EndsKeep DEF SettleInv, Types

-----------------------------------------------------------------------------
(* Every step keeps the invariant                                          *)

LEMMA CrashKeeps ==
  ASSUME SettleInv, NEW p \in Procs, Crash(p)
  PROVE  SettleInv'
<1>1. Ends(p)
  BY EndEnds DEF SettleInv, Crash
<1>2. MayNote
  BY DEF SettleInv, Types, Crash, MayNote
<1> QED
  BY <1>1, <1>2, EndKeeps DEF Crash

LEMMA PlaceKeeps ==
  ASSUME SettleInv, NEW p \in Procs, NEW o \in Orders, Place(p, o)
  PROVE  SettleInv'
<1>1. /\ job[p].pc = "idle" /\ eng[o].st = "new" /\ \A q \in Procs : job[q].order # o
      /\ MayNote /\ UNCHANGED <<engine, money, tables, bus>>
  BY DEF Place, At, MayNote, SettleInv, Types
<1>2. /\ job'[p].pc = "submit" /\ job'[p].order = o /\ job'[p].todo = <<>> /\ job'[p].cancels = {}
      /\ job'[p].touched = {} /\ job'[p].ack = {} /\ OneJob(p) /\ job' \in [Procs -> JobType]
  <2>1. job' = [job EXCEPT ![p] = [Idle EXCEPT !.pc = "submit", !.order = o]]
    BY DEF Place
  <2>2. [Idle EXCEPT !.pc = "submit", !.order = o] \in JobType
    BY IdleRests DEF JobType
  <2>3. job \in [Procs -> JobType]
    BY DEF SettleInv, Types
  <2> QED
    BY <2>1, <2>2, <2>3, IdleRests DEF OneJob, JobType
<1>3. /\ BookInv' /\ EventInv' /\ MoneyInv' /\ Types'
      /\ \A u : FillsOf(u)' = FillsOf(u) /\ Recorded(u)' = Recorded(u) /\ PostedOf(u)' = PostedOf(u)
      /\ UNCHANGED <<eng, printed, bus, legs, status, filled, posted, pot, freed>>
  BY <1>1, <1>2, RestStays
<1>4. \A q \in Procs : q # p =>
           /\ job'[q] = job[q] /\ Cur(q)' = Cur(q)
           /\ \A u : (Writes(q, u)' <=> Writes(q, u)) /\ (Unsummed(q, u)' <=> Unsummed(q, u))
  BY <1>2, OthersStay
<1>5. \A u : ~Writes(p, u)'
  BY <1>2 DEF Writes, At
<1>6. PlaceInv'
  BY <1>1, <1>2, <1>3, <1>4 DEF SettleInv, PlaceInv, At
<1>7. WorkInv'
  BY <1>2, <1>3, <1>4 DEF SettleInv, WorkInv, Filling
<1>8. AckInv' /\ CancelInv' /\ AheadInv'
  BY <1>2, <1>3, <1>4 DEF SettleInv, AckInv, CancelInv, AheadInv
<1>9. SumInv'
  BY <1>3, <1>4, <1>5 DEF SettleInv, SumInv
<1>10. RefreshInv'
  BY <1>1, <1>2, <1>3, <1>4, <1>5 DEF SettleInv, RefreshInv, Raises, Completes, MayNote
<1> QED
  BY <1>3, <1>6, <1>7, <1>8, <1>9, <1>10 DEF SettleInv

\* A handler of a match starts before both of its legs.
LEMMA FillEventKeeps ==
  ASSUME SettleInv, NEW p \in Procs, NEW e \in bus, FillEvent(p, e)
  PROVE  SettleInv'
<1> DEFINE x == e.of
<1>1. /\ e = FillOf(x) /\ x \in printed /\ x \in Matches /\ x.mk \in Orders /\ x.tk \in Orders
      /\ e \in Events
  BY EventsDiffer, TwoSides DEF SettleInv, Types, EventInv, FillEvent
<1>2. /\ job[p].pc = "idle" /\ MayNote /\ UNCHANGED <<engine, money, tables, bus>>
  BY DEF FillEvent, At, MayNote, SettleInv, Types
<1>3. /\ job'[p].pc = "maker" /\ job'[p].order = NoOrder /\ job'[p].todo = <<x>> /\ job'[p].cancels = {}
      /\ job'[p].touched = {x.mk, x.tk} /\ job'[p].ack = {e} /\ OneJob(p) /\ job' \in [Procs -> JobType]
  <2> DEFINE j == [Idle EXCEPT !.pc = "maker", !.todo = <<x>>, !.touched = {x.mk, x.tk}, !.ack = {e}]
  <2>1. job' = [job EXCEPT ![p] = j]
    BY DEF FillEvent
  <2>2. j \in JobType
    <3>1. <<x>> \in Seq(Matches) /\ {x.mk, x.tk} \subseteq Orders /\ {e} \subseteq Events
      BY <1>1
    <3> HIDE DEF x
    <3> QED
      BY <3>1, IdleRests DEF JobType, Filling, Idle
  <2>3. job \in [Procs -> JobType]
    BY DEF SettleInv, Types
  <2>4. /\ j.pc = "maker" /\ j.order = NoOrder /\ j.todo = <<x>> /\ j.cancels = {}
        /\ j.touched = {x.mk, x.tk} /\ j.ack = {e}
    BY DEF Idle
  <2> HIDE DEF j
  <2> QED
    BY <2>1, <2>2, <2>3, <2>4 DEF OneJob
<1> HIDE DEF x
<1>4. /\ BookInv' /\ EventInv' /\ MoneyInv' /\ Types'
      /\ \A u : FillsOf(u)' = FillsOf(u) /\ Recorded(u)' = Recorded(u) /\ PostedOf(u)' = PostedOf(u)
      /\ UNCHANGED <<eng, printed, bus, legs, status, filled, posted, pot, freed>>
  BY <1>2, <1>3, RestStays
<1>5. \A q \in Procs : q # p =>
           /\ job'[q] = job[q] /\ Cur(q)' = Cur(q)
           /\ \A u : (Writes(q, u)' <=> Writes(q, u)) /\ (Unsummed(q, u)' <=> Unsummed(q, u))
  BY <1>3, OthersStay
<1>6. \A u : ~Writes(p, u)' /\ Unsummed(p, u)'
  BY <1>3 DEF Writes, Unsummed, At
<1>7. PlaceInv'
  BY <1>2, <1>3, <1>4, <1>5, OrderSettleConstants DEF SettleInv, PlaceInv, At, NoOrder
<1>8. WorkInv'
  <2>1. <<x>> # <<>> /\ \A i \in DOMAIN <<x>> : <<x>>[i] = x
    OBVIOUS
  <2>2. job'[p].todo # <<>> /\ \A i \in DOMAIN job'[p].todo : job'[p].todo[i] \in printed
    BY <1>1, <1>3, <2>1
  <2> QED
    BY <1>3, <1>4, <1>5, <2>2 DEF SettleInv, WorkInv, Filling
<1>9. AckInv'
  <2>1. e.kind = "fill"
    BY DEF FillEvent
  <2>2. \A u \in job'[p].ack : u = e
    BY <1>3
  <2> QED
    BY <1>3, <1>4, <1>5, <2>1, <2>2 DEF SettleInv, AckInv, x, Filling
<1>10. CancelInv' /\ AheadInv'
  BY <1>3, <1>4, <1>5 DEF SettleInv, CancelInv, AheadInv
<1>11. SumInv'
  BY <1>4, <1>5, <1>6 DEF SettleInv, SumInv
<1>12. \A u \in Orders : \A y \in FillsOf(u) : FillOf(y) = e => u \in {x.mk, x.tk}
  BY <1>1, EventsDiffer DEF FillsOf
<1>13. RefreshInv'
  BY <1>2, <1>3, <1>4, <1>5, <1>6, <1>12 DEF SettleInv, RefreshInv, Raises, Completes, MayNote
<1> QED
  BY <1>4, <1>7, <1>8, <1>9, <1>10, <1>11, <1>13 DEF SettleInv

\* Who is told of a cancellation has seen every match of the order recorded.
LEMMA CancelEventKeeps ==
  ASSUME SettleInv, NEW p \in Procs, NEW e \in bus, CancelEvent(p, e)
  PROVE  SettleInv'
<1> DEFINE o == e.of
<1>1. e = CancelOf(o) /\ o \in Orders /\ e \in Events /\ e.kind = "cancel"
  BY EventsDiffer DEF SettleInv, Types, CancelEvent
<1>2. /\ job[p].pc = "idle" /\ MayNote /\ UNCHANGED <<engine, money, tables, bus>>
  BY DEF CancelEvent, At, MayNote, SettleInv, Types
<1>3. /\ job'[p].pc = "close" /\ job'[p].order = NoOrder /\ job'[p].todo = <<>> /\ job'[p].cancels = {o}
      /\ job'[p].touched = {} /\ job'[p].ack = {e} /\ OneJob(p) /\ job' \in [Procs -> JobType]
  <2> DEFINE j == [Idle EXCEPT !.pc = "close", !.cancels = {o}, !.ack = {e}]
  <2>1. job' = [job EXCEPT ![p] = j]
    BY DEF CancelEvent
  <2>2. j \in JobType
    BY <1>1, IdleRests DEF JobType, Filling
  <2>3. job \in [Procs -> JobType]
    BY DEF SettleInv, Types
  <2>4. /\ j.pc = "close" /\ j.order = NoOrder /\ j.todo = <<>> /\ j.cancels = {o}
        /\ j.touched = {} /\ j.ack = {e}
    BY DEF Idle
  <2> HIDE DEF j
  <2> QED
    BY <2>1, <2>2, <2>3, <2>4 DEF OneJob
<1>4. status[o] # "open" \/ FillsOf(o) = Recorded(o)
  <2>1. SumOfFills(o) = Cardinality(Recorded(o))
    BY <1>1, SumIsRecorded DEF SettleInv
  <2>2. /\ Cardinality(FillsOf(o)) \in Nat /\ Cardinality(Recorded(o)) \in Nat
        /\ Cardinality(Recorded(o)) <= Cardinality(FillsOf(o))
        /\ Cardinality(Recorded(o)) = Cardinality(FillsOf(o)) => Recorded(o) = FillsOf(o)
    BY <1>1, MatchSizes DEF SettleInv
  <2>3. Cardinality(FillsOf(o)) = Qty[o] - eng[o].left
    <3>1. Cardinality(FillsOf(o)) + eng[o].left = Qty[o] /\ eng[o].left \in Nat /\ Qty[o] \in Nat
      BY <1>1, OrderSettleConstants DEF SettleInv, BookInv, Types
    <3> QED
      BY <3>1, <2>2
  <2>4. ~CancelAheadOfFill(o)
    BY DEF CancelEvent
  <2> HIDE DEF o
  <2> QED
    BY <2>1, <2>2, <2>3, <2>4 DEF CancelAheadOfFill
<1> HIDE DEF o
<1>5. /\ BookInv' /\ EventInv' /\ MoneyInv' /\ Types'
      /\ \A u : FillsOf(u)' = FillsOf(u) /\ Recorded(u)' = Recorded(u) /\ PostedOf(u)' = PostedOf(u)
      /\ UNCHANGED <<eng, printed, bus, legs, status, filled, posted, pot, freed>>
  BY <1>2, <1>3, RestStays
<1>6. \A q \in Procs : q # p =>
           /\ job'[q] = job[q] /\ Cur(q)' = Cur(q)
           /\ \A u : (Writes(q, u)' <=> Writes(q, u)) /\ (Unsummed(q, u)' <=> Unsummed(q, u))
  BY <1>3, OthersStay
<1>7. \A u : ~Writes(p, u)'
  BY <1>3 DEF Writes, At
<1>8. PlaceInv'
  BY <1>2, <1>3, <1>5, <1>6, OrderSettleConstants DEF SettleInv, PlaceInv, At, NoOrder
<1>9. WorkInv'
  BY <1>3, <1>5, <1>6 DEF SettleInv, WorkInv, Filling
<1>10. AckInv'
  <2>1. \A u \in job'[p].ack : u = e
    BY <1>3
  <2> QED
    BY <1>1, <1>3, <1>5, <1>6, <2>1 DEF SettleInv, AckInv, o, Filling
<1>11. CancelInv'
  BY <1>1, <1>3, <1>5, <1>6 DEF SettleInv, CancelInv
<1>12. AheadInv'
  BY <1>3, <1>4, <1>5, <1>6 DEF SettleInv, AheadInv
<1>13. SumInv'
  BY <1>5, <1>6, <1>7 DEF SettleInv, SumInv
<1>14. \A y : FillOf(y) \notin job'[p].ack
  BY <1>1, <1>3, EventsDiffer
<1>15. RefreshInv'
  BY <1>2, <1>5, <1>6, <1>7, <1>14 DEF SettleInv, RefreshInv, Raises, Completes, MayNote
<1> QED
  BY <1>5, <1>8, <1>9, <1>10, <1>11, <1>12, <1>13, <1>15 DEF SettleInv

LEMMA NoteNotes ==
  ASSUME Types, NEW o \in Orders, NEW race \in Races, NEW happens \in BOOLEAN, Note(o, race, happens)
  PROVE  MayNote /\ (happens => race \in raced'[o])
<1>1. raced \in [Orders -> SUBSET Races]
  BY DEF Types
<1>2. CASE happens
  <2>1. raced' = [raced EXCEPT ![o] = @ \cup {race}]
    BY <1>2 DEF Note
  <2> QED
    BY <1>1, <2>1 DEF MayNote
<1>3. CASE ~happens
  BY <1>1, <1>3 DEF Note, MayNote
<1> QED
  BY <1>2, <1>3

\* A sum is of all that is recorded; an overlapping one is noted.
LEMMA SumFillsKeeps ==
  ASSUME SettleInv, NEW p \in Procs, NEW pc, NEW o, NEW then, SumFills(p, pc, o, then),
         \/ pc = "sumMaker" /\ o = Cur(p).mk /\ then = "writeMaker"
         \/ pc = "sumTaker" /\ o = Cur(p).tk /\ then = "writeTaker"
  PROVE  SettleInv'
<1> DEFINE x == Cur(p)
<1>1. /\ job[p].pc = pc /\ pc \in Filling /\ then \in Filling /\ x \in Matches /\ x \in printed
      /\ x.mk \in Orders /\ x.tk \in Orders /\ x.mk # x.tk /\ o \in {x.mk, x.tk} /\ o \in Orders
  BY CurIsMatch DEF SettleInv, SumFills, At, Filling
<1>2. SumOfFills(o) = Cardinality(Recorded(o)) /\ Cardinality(Recorded(o)) \in Nat
  BY <1>1, SumIsRecorded, MatchSizes DEF SettleInv
<1>3. MayNote /\ ((\E q \in Procs \ {p} : Writes(q, o)) => "refresh" \in raced'[o])
  <2> DEFINE over == \E q \in Procs \ {p} : Writes(q, o)
  <2>1. Note(o, "refresh", over)
    BY DEF SumFills, Writes
  <2>2. over \in BOOLEAN /\ "refresh" \in Races /\ Types
    BY DEF Races, SettleInv
  <2> HIDE DEF over
  <2>3. MayNote /\ (over => "refresh" \in raced'[o])
    BY <1>1, <2>1, <2>2, NoteNotes
  <2> QED
    BY <2>3 DEF over
<1>4. UNCHANGED <<engine, money, tables, bus>>
  BY DEF SumFills
<1>5. /\ OneJob(p) /\ Keeps(p) /\ job'[p].pc = then /\ job'[p].num = Cardinality(Recorded(o))
      /\ job' \in [Procs -> JobType]
  <2> DEFINE j == [job[p] EXCEPT !.pc = then, !.num = SumOfFills(o)]
  <2>1. job \in [Procs -> JobType] /\ job[p] \in JobType
    BY DEF SettleInv, Types
  <2>2. job' = [job EXCEPT ![p] = j]
    BY DEF SumFills
  <2>3. /\ j \in JobType /\ j.pc = then /\ j.num = SumOfFills(o) /\ j.order = job[p].order
        /\ j.todo = job[p].todo /\ j.cancels = job[p].cancels /\ j.touched = job[p].touched
        /\ j.ack = job[p].ack
    BY <1>1, <1>2, <2>1 DEF JobType
  <2> HIDE DEF j
  <2> QED
    BY <1>2, <2>1, <2>2, <2>3 DEF OneJob, Keeps
<1>6. /\ BookInv' /\ EventInv' /\ MoneyInv' /\ Types'
      /\ \A u : FillsOf(u)' = FillsOf(u) /\ Recorded(u)' = Recorded(u) /\ PostedOf(u)' = PostedOf(u)
      /\ UNCHANGED <<eng, printed, bus, legs, status, filled, posted, pot, freed>>
  BY <1>3, <1>4, <1>5, RestStays
<1>7. \A q \in Procs : q # p =>
           /\ job'[q] = job[q] /\ Cur(q)' = Cur(q)
           /\ \A u : (Writes(q, u)' <=> Writes(q, u)) /\ (Unsummed(q, u)' <=> Unsummed(q, u))
  BY <1>5, OthersStay
<1>8. Cur(p)' = x
  BY <1>5 DEF Keeps, Cur
<1>9. \A u : /\ Writes(p, u)' <=> u = o
             /\ ~Writes(p, u)
             /\ Unsummed(p, u) => u = o \/ u \notin {x.mk, x.tk} \/ Unsummed(p, u)'
  BY <1>1, <1>5, <1>8 DEF Writes, Unsummed, At
<1> HIDE DEF x
<1>10. PlaceInv'
  BY <1>1, <1>5, <1>6, <1>7 DEF SettleInv, PlaceInv, At, Keeps, Filling
<1>11. WorkInv'
  BY <1>1, <1>5, <1>6, <1>7, <1>8 DEF SettleInv, WorkInv, Keeps, Filling, x
<1>12. AckInv'
  BY <1>1, <1>5, <1>6, <1>7 DEF SettleInv, AckInv, Keeps, Filling
<1>13. CancelInv' /\ AheadInv'
  BY <1>5, <1>6, <1>7 DEF SettleInv, CancelInv, AheadInv, Keeps
<1>14. SumInv'
  BY <1>2, <1>5, <1>6, <1>7, <1>9 DEF SettleInv, SumInv
<1>15. \A u \in Orders : \A y \in FillsOf(u) : FillOf(y) \in job[p].ack => y = x /\ u \in {x.mk, x.tk}
  BY <1>1, HandlerSettles DEF SettleInv, FillsOf, x
<1>16. RefreshInv'
  <2> SUFFICES ASSUME NEW u \in Orders, "refresh" \notin raced'[u]
      PROVE  /\ \A r \in Procs : Writes(r, u)' =>
                  filled[u] <= job'[r].num /\ \A q \in Procs : Writes(q, u)' => r = q
             /\ \A n \in 0 .. Qty[u] : filled[u] <= n /\ n < Cardinality(Recorded(u)) =>
                  \E y \in FillsOf(u) : Raises(y, u, n)'
             /\ filled[u] >= Qty[u] /\ status[u] = "open" => \E y \in FillsOf(u) : Completes(y, u)'
    BY <1>6 DEF RefreshInv
  <2>1. "refresh" \notin raced[u]
    BY <1>3 DEF MayNote
  <2>2. ASSUME NEW r \in Procs, Writes(r, u)'
        PROVE  filled[u] <= job'[r].num /\ \A q \in Procs : Writes(q, u)' => r = q
    <3>1. CASE u = o
      <4>1. r = p /\ \A q \in Procs : Writes(q, u)' => q = p
        BY <1>3, <1>7, <2>2, <3>1
      <4>2. filled[u] <= Cardinality(Recorded(u))
        BY DEF SettleInv, SumInv
      <4> QED
        BY <1>5, <3>1, <4>1, <4>2
    <3>2. CASE u # o
      BY <1>7, <1>9, <2>1, <2>2, <3>2 DEF SettleInv, RefreshInv
    <3> QED
      BY <3>1, <3>2
  <2>3. ASSUME NEW n \in 0 .. Qty[u], filled[u] <= n, n < Cardinality(Recorded(u))
        PROVE  \E y \in FillsOf(u) : Raises(y, u, n)'
    <3>1. PICK y \in FillsOf(u) : Raises(y, u, n)
      BY <2>1, <2>3 DEF SettleInv, RefreshInv
    <3>2. FillOf(y) \in job[p].ack => Unsummed(p, u)' \/ (Writes(p, u)' /\ n < job'[p].num)
      BY <1>5, <1>9, <1>15, <2>3, <3>1 DEF Raises
    <3>3. \A q \in Procs : FillOf(y) \in job'[q].ack => Unsummed(q, u)' \/ (Writes(q, u)' /\ n < job'[q].num)
      BY <1>5, <1>7, <3>1, <3>2 DEF Raises, Keeps
    <3> QED
      BY <1>6, <3>1, <3>3 DEF Raises
  <2>4. ASSUME filled[u] >= Qty[u], status[u] = "open"
        PROVE  \E y \in FillsOf(u) : Completes(y, u)'
    <3>1. PICK y \in FillsOf(u) : Completes(y, u)
      BY <2>1, <2>4 DEF SettleInv, RefreshInv
    <3> QED
      BY <1>5, <1>6, <1>7, <3>1 DEF Completes, Keeps
  <2> QED
    BY <2>2, <2>3, <2>4
<1> QED
  BY <1>6, <1>10, <1>11, <1>12, <1>13, <1>14, <1>16 DEF SettleInv

\* Writing a sum leaves what came after it to its handlers.
LEMMA WriteFilledKeeps ==
  ASSUME SettleInv, NEW p \in Procs, NEW pc, NEW o, NEW then, WriteFilled(p, pc, o, then),
         \/ pc = "writeMaker" /\ o = Cur(p).mk /\ then = "sumTaker"
         \/ pc = "writeTaker" /\ o = Cur(p).tk /\ then = "post"
  PROVE  SettleInv'
<1> DEFINE x == Cur(p)
<1>1. /\ job[p].pc = pc /\ pc \in Filling /\ then \in Filling /\ x \in Matches /\ x \in printed
      /\ x.mk \in Orders /\ x.tk \in Orders /\ x.mk # x.tk /\ o \in {x.mk, x.tk} /\ o \in Orders
  BY CurIsMatch DEF SettleInv, WriteFilled, At, Filling
<1>2. /\ Goes(p, then) /\ OneJob(p) /\ Keeps(p) /\ job'[p].pc = then /\ job'[p].num = job[p].num
      /\ job' \in [Procs -> JobType]
  BY <1>1, GotoGoes DEF SettleInv, WriteFilled, Goes, OneJob
<1>3. UNCHANGED <<eng, printed, bus, legs, status, posted, pot, freed, raced>>
  BY DEF WriteFilled, engine, money
<1>4. job[p].num \in Nat /\ filled \in [Orders -> Nat] /\ filled' = [filled EXCEPT ![o] = job[p].num]
  BY JobFields DEF SettleInv, Types, WriteFilled
<1>5. \A u : FillsOf(u)' = FillsOf(u) /\ Recorded(u)' = Recorded(u) /\ PostedOf(u)' = PostedOf(u)
  BY <1>3, MatchesStay
<1>6. \A q \in Procs : q # p =>
           /\ job'[q] = job[q] /\ Cur(q)' = Cur(q)
           /\ \A u : (Writes(q, u)' <=> Writes(q, u)) /\ (Unsummed(q, u)' <=> Unsummed(q, u))
  BY <1>2, OthersStay
<1>7. Cur(p)' = x
  BY <1>2 DEF Keeps, Cur
<1>8. \A u : /\ ~Writes(p, u)'
             /\ Writes(p, u) <=> u = o
             /\ Unsummed(p, u) => u # o /\ Unsummed(p, u)'
  BY <1>1, <1>2, <1>7 DEF Writes, Unsummed, At
<1> HIDE DEF x
<1>9. Types' /\ BookInv' /\ EventInv'
  <2>1. Types'
    BY <1>1, <1>2, <1>3, <1>4 DEF SettleInv, Types
  <2>2. BookInv' /\ EventInv'
    BY <1>3, <1>5 DEF SettleInv, BookInv, EventInv
  <2> QED
    BY <2>1, <2>2
<1>10. MoneyInv'
  BY <1>3, <1>5 DEF SettleInv, MoneyInv
<1>11. PlaceInv'
  BY <1>1, <1>2, <1>3, <1>6 DEF SettleInv, PlaceInv, At, Keeps, Filling
<1>12. WorkInv'
  BY <1>1, <1>2, <1>3, <1>6, <1>7 DEF SettleInv, WorkInv, Keeps, Filling, x
<1>13. AckInv'
  BY <1>1, <1>2, <1>3, <1>6 DEF SettleInv, AckInv, Keeps, Filling
<1>14. CancelInv' /\ AheadInv'
  BY <1>2, <1>3, <1>5, <1>6 DEF SettleInv, CancelInv, AheadInv, Keeps
<1>15. job[p].num <= Cardinality(Recorded(o))
  BY <1>1, <1>8 DEF SettleInv, SumInv
<1>16. \A u \in Orders : filled'[u] = IF u = o THEN job[p].num ELSE filled[u]
  BY <1>1, <1>4
<1>17. SumInv'
  BY <1>5, <1>6, <1>8, <1>15, <1>16 DEF SettleInv, SumInv
<1>18. RefreshInv'
  <2> SUFFICES ASSUME NEW u \in Orders, "refresh" \notin raced[u]
      PROVE  /\ \A r \in Procs : Writes(r, u)' =>
                  filled'[u] <= job'[r].num /\ \A q \in Procs : Writes(q, u)' => r = q
             /\ \A n \in 0 .. Qty[u] : filled'[u] <= n /\ n < Cardinality(Recorded(u)) =>
                  \E y \in FillsOf(u) : Raises(y, u, n)'
             /\ filled'[u] >= Qty[u] /\ status[u] = "open" => \E y \in FillsOf(u) : Completes(y, u)'
    BY <1>3, <1>5 DEF RefreshInv
  <2>1. /\ u = o => filled[u] <= job[p].num
        /\ filled[u] \in Nat /\ filled'[u] \in Nat /\ job[p].num \in Nat
    BY <1>1, <1>4, <1>8, <1>16 DEF SettleInv, RefreshInv
  <2>2. ASSUME NEW r \in Procs, Writes(r, u)'
        PROVE  filled'[u] <= job'[r].num /\ \A q \in Procs : Writes(q, u)' => r = q
    <3>1. r # p /\ Writes(r, u) /\ \A q \in Procs : Writes(q, u)' => Writes(q, u)
      BY <1>6, <1>8, <2>2
    <3>2. filled[u] <= job[r].num /\ \A q \in Procs : Writes(q, u) => r = q
      BY <3>1 DEF SettleInv, RefreshInv
    <3>3. u # o
      BY <1>8, <3>1, <3>2
    <3> QED
      BY <1>6, <1>16, <3>1, <3>2, <3>3
  <2>3. ASSUME NEW n \in 0 .. Qty[u], filled'[u] <= n, n < Cardinality(Recorded(u))
        PROVE  \E y \in FillsOf(u) : Raises(y, u, n)'
    <3>1. filled[u] <= n /\ (u = o => job[p].num <= n)
      BY <1>16, <2>1, <2>3
    <3>2. PICK y \in FillsOf(u) : Raises(y, u, n)
      BY <2>3, <3>1 DEF SettleInv, RefreshInv
    <3>3. FillOf(y) \in job[p].ack => Unsummed(p, u)'
      BY <1>8, <2>1, <3>1, <3>2 DEF Raises
    <3>4. \A q \in Procs : FillOf(y) \in job'[q].ack => Unsummed(q, u)' \/ (Writes(q, u)' /\ n < job'[q].num)
      BY <1>2, <1>6, <3>2, <3>3 DEF Raises, Keeps
    <3> QED
      BY <1>3, <3>2, <3>4 DEF Raises
  <2>4. ASSUME filled'[u] >= Qty[u], status[u] = "open"
        PROVE  \E y \in FillsOf(u) : Completes(y, u)'
    <3>1. \E y \in FillsOf(u) : Completes(y, u)
      <4>1. CASE filled[u] >= Qty[u]
        BY <2>4, <4>1 DEF SettleInv, RefreshInv
      <4>2. CASE ~(filled[u] >= Qty[u])
        <5>1. Qty[u] \in Nat \ {0} /\ Cardinality(Recorded(u)) \in Nat
          BY OrderSettleConstants, MatchSizes DEF SettleInv
        <5>2. u = o
          BY <1>16, <2>4, <4>2
        <5>3. /\ Qty[u] - 1 \in 0 .. Qty[u] /\ filled[u] <= Qty[u] - 1
              /\ Qty[u] - 1 < Cardinality(Recorded(u))
          BY <1>15, <1>16, <2>1, <2>4, <4>2, <5>1, <5>2
        <5>4. PICK y \in FillsOf(u) : Raises(y, u, Qty[u] - 1)
          BY <5>3 DEF SettleInv, RefreshInv
        <5>5. ASSUME NEW q \in Procs, FillOf(y) \in job[q].ack PROVE u \in job[q].touched
          <6>1. job[q].pc \in Filling
            BY <5>4, <5>5, IdleWrites DEF Raises
          <6>2. y.mk \in job[q].touched /\ y.tk \in job[q].touched
            BY <5>5, <6>1, HandlerSettles DEF SettleInv
          <6> QED
            BY <6>2 DEF FillsOf
        <5> QED
          BY <5>4, <5>5 DEF Raises, Completes
      <4> QED
        BY <4>1, <4>2
    <3>2. PICK y \in FillsOf(u) : Completes(y, u)
      BY <3>1
    <3> QED
      BY <1>2, <1>3, <1>6, <3>2 DEF Completes, Keeps
  <2> QED
    BY <2>2, <2>3, <2>4
<1> QED
  BY <1>9, <1>10, <1>11, <1>12, <1>13, <1>14, <1>17, <1>18 DEF SettleInv

\* A leg that is new adds one match to the recorded ones of its order.
LEMMA LegAdds ==
  ASSUME Types, EventInv, NEW x \in printed, NEW role \in {"maker", "taker"},
         legs' = legs \cup {Leg(x, role)}, UNCHANGED <<printed, posted>>
  PROVE  LET o == IF role = "maker" THEN x.mk ELSE x.tk IN
         /\ o \in Orders /\ x \in FillsOf(o)
         /\ Recorded(o)' = Recorded(o) \cup {x}
         /\ \A u \in Orders : /\ FillsOf(u)' = FillsOf(u) /\ PostedOf(u)' = PostedOf(u)
                              /\ u # o => Recorded(u)' = Recorded(u)
                              /\ Recorded(u) \subseteq Recorded(u)' /\ Recorded(u)' \subseteq FillsOf(u)
                              /\ Cardinality(Recorded(u)') \in Nat
                              /\ Cardinality(Recorded(u)) <= Cardinality(Recorded(u)')
         /\ Leg(x, role) \in legs => Cardinality(Recorded(o)') = Cardinality(Recorded(o))
         /\ Cardinality(Recorded(o)') <= Cardinality(Recorded(o)) + 1
<1> DEFINE o == IF role = "maker" THEN x.mk ELSE x.tk
<1>1. x \in Matches /\ x.mk \in Orders /\ x.tk \in Orders /\ x.mk # x.tk
  BY TwoSides DEF Types
<1>2. LegAt(x, o) = Leg(x, role) /\ o \in Orders /\ o \in {x.mk, x.tk}
  BY <1>1 DEF LegAt
<1>3. \A u : FillsOf(u)' = FillsOf(u) /\ PostedOf(u)' = PostedOf(u)
  BY DEF FillsOf, PostedOf
<1>4. \A u : \A y \in FillsOf(u) : LegAt(y, u) \in legs' <=> LegAt(y, u) \in legs \/ (y = x /\ LegAt(x, u) = Leg(x, role))
  BY DEF LegAt, Leg
<1>5. \A u \in Orders : x \in FillsOf(u) /\ LegAt(x, u) = Leg(x, role) => u = o
  BY <1>1, <1>2 DEF FillsOf, LegAt, Leg
<1>6. x \in FillsOf(o)
  BY <1>2 DEF FillsOf
<1> HIDE DEF o
<1>7. Recorded(o)' = Recorded(o) \cup {x}
  BY <1>2, <1>3, <1>4, <1>6 DEF Recorded
<1>8. \A u \in Orders : u # o => Recorded(u)' = Recorded(u)
  BY <1>3, <1>4, <1>5 DEF Recorded
<1>9. \A u \in Orders : Recorded(u) \subseteq Recorded(u)' /\ Recorded(u)' \subseteq FillsOf(u)
  BY <1>3 DEF Recorded
<1>10. \A u \in Orders : /\ Cardinality(Recorded(u)') \in Nat
                         /\ Cardinality(Recorded(u)) <= Cardinality(Recorded(u)')
  <2> SUFFICES ASSUME NEW u \in Orders
      PROVE  Cardinality(Recorded(u)') \in Nat /\ Cardinality(Recorded(u)) <= Cardinality(Recorded(u)')
    OBVIOUS
  <2>1. IsFiniteSet(FillsOf(u))
    BY MatchSets
  <2>2. IsFiniteSet(Recorded(u)')
    BY <1>9, <2>1, FS_Subset
  <2> QED
    BY <1>9, <2>2, FS_Subset, FS_CardinalityType
<1>11. /\ Leg(x, role) \in legs => Cardinality(Recorded(o)') = Cardinality(Recorded(o))
       /\ Cardinality(Recorded(o)') <= Cardinality(Recorded(o)) + 1
  <2>1. IsFiniteSet(Recorded(o)) /\ Cardinality(Recorded(o)) \in Nat
    BY <1>2, MatchSets, MatchSizes
  <2>2. Cardinality(Recorded(o) \cup {x}) = IF x \in Recorded(o) THEN Cardinality(Recorded(o)) ELSE Cardinality(Recorded(o)) + 1
    BY <2>1, FS_AddElement
  <2>3. Leg(x, role) \in legs => x \in Recorded(o)
    BY <1>2, <1>6 DEF Recorded
  <2> QED
    BY <1>7, <2>1, <2>2, <2>3
<1> QED
  BY <1>2, <1>3, <1>6, <1>7, <1>8, <1>9, <1>10, <1>11 DEF o

\* A leg that is new is of a match on the bus, none of whose handlers has been
\* where it is now.
LEMMA InsertFillLegKeeps ==
  ASSUME SettleInv, NEW p \in Procs, NEW role, NEW then, InsertFillLeg(p, role, then),
         \/ role = "maker" /\ then = "taker"
         \/ role = "taker" /\ then = "sumMaker"
  PROVE  SettleInv'
<1> PICK x : x = Cur(p)
  OBVIOUS
<1> PICK o : o = IF role = "maker" THEN x.mk ELSE x.tk
  OBVIOUS
<1>1. /\ job[p].pc = role /\ role \in Filling /\ then \in Filling /\ x \in Matches /\ x \in printed
      /\ x.mk \in Orders /\ x.tk \in Orders /\ x.mk # x.tk /\ o \in {x.mk, x.tk} /\ o \in Orders
      /\ role \in {"maker", "taker"}
  BY CurIsMatch DEF SettleInv, InsertFillLeg, At, Filling
<1>2. /\ Goes(p, then) /\ OneJob(p) /\ Keeps(p) /\ job'[p].pc = then /\ job'[p].num = job[p].num
      /\ job' \in [Procs -> JobType]
  BY <1>1, GotoGoes DEF SettleInv, InsertFillLeg, Goes, OneJob
<1>3. /\ UNCHANGED <<eng, printed, bus, status, filled, posted, pot, freed, raced>>
      /\ legs' = legs \cup {Leg(x, role)}
  BY DEF InsertFillLeg, engine, money, Leg
<1>4. /\ x \in FillsOf(o)
      /\ Recorded(o)' = Recorded(o) \cup {x}
      /\ \A u \in Orders : /\ FillsOf(u)' = FillsOf(u) /\ PostedOf(u)' = PostedOf(u)
                           /\ u # o => Recorded(u)' = Recorded(u)
                           /\ Recorded(u) \subseteq Recorded(u)' /\ Recorded(u)' \subseteq FillsOf(u)
                           /\ Cardinality(Recorded(u)') \in Nat
                           /\ Cardinality(Recorded(u)) <= Cardinality(Recorded(u)')
      /\ Leg(x, role) \in legs => Cardinality(Recorded(o)') = Cardinality(Recorded(o))
      /\ Cardinality(Recorded(o)') <= Cardinality(Recorded(o)) + 1
  <2>1. Types /\ EventInv /\ x \in printed /\ role \in {"maker", "taker"}
        /\ legs' = legs \cup {Leg(x, role)} /\ UNCHANGED <<printed, posted>>
    BY <1>1, <1>3 DEF SettleInv
  <2> QED
    BY <2>1, LegAdds
<1>5. \A q \in Procs : q # p =>
           /\ job'[q] = job[q] /\ Cur(q)' = Cur(q)
           /\ \A u : (Writes(q, u)' <=> Writes(q, u)) /\ (Unsummed(q, u)' <=> Unsummed(q, u))
  BY <1>2, OthersStay
<1>6. Cur(p)' = x
  BY <1>2 DEF Keeps, Cur
<1>7. \A u : ~Writes(p, u)' /\ ~Writes(p, u) /\ Unsummed(p, u)'
  BY <1>1, <1>2, <1>6 DEF Writes, Unsummed, At
<1>8. \A u \in Orders : Cardinality(Recorded(u)) \in Nat /\ filled[u] \in Nat
  BY MatchSizes DEF SettleInv, Types
<1>9. Types' /\ BookInv' /\ EventInv'
  <2>1. Types'
    BY <1>1, <1>2, <1>3 DEF SettleInv, Types, Leg
  <2>2. BookInv'
    BY <1>3, <1>4 DEF SettleInv, BookInv
  <2>3. EventInv'
    BY <1>3 DEF SettleInv, EventInv
  <2> QED
    BY <2>1, <2>2, <2>3
<1>10. MoneyInv'
  <2>1. \A u \in Orders : Recorded(u) = FillsOf(u) => Recorded(u)' = FillsOf(u)
    BY <1>4
  <2> QED
    BY <1>3, <1>4, <2>1 DEF SettleInv, MoneyInv
<1>11. PlaceInv'
  BY <1>1, <1>2, <1>3, <1>5 DEF SettleInv, PlaceInv, At, Keeps, Filling
<1>12. WorkInv'
  <2>1. Leg(x, "maker") \in legs' /\ (role = "taker" => Leg(x, "taker") \in legs')
    BY <1>1, <1>3 DEF SettleInv, WorkInv, Filling
  <2>2. legs \subseteq legs'
    BY <1>3
  <2> QED
    BY <1>1, <1>2, <1>3, <1>5, <1>6, <2>1, <2>2 DEF SettleInv, WorkInv, Keeps, Filling
<1>13. AckInv'
  BY <1>1, <1>2, <1>3, <1>5 DEF SettleInv, AckInv, Keeps, Filling
<1>14. CancelInv'
  BY <1>2, <1>3, <1>5 DEF SettleInv, CancelInv, Keeps
<1>15. AheadInv'
  <2>1. \A q \in Procs : job'[q].cancels = job[q].cancels /\ job'[q].ack = job[q].ack
                         /\ job'[q].order = job[q].order /\ job'[q].todo = job[q].todo
    BY <1>2, <1>5 DEF Keeps
  <2>2. \A q \in Procs : job[q].cancels \subseteq Orders
    BY JobFields DEF SettleInv
  <2> QED
    BY <1>3, <1>4, <2>1, <2>2 DEF SettleInv, AheadInv
<1>16. SumInv'
  <2> SUFFICES ASSUME NEW u \in Orders
      PROVE  /\ filled[u] <= Cardinality(Recorded(u)')
             /\ \A q \in Procs : Writes(q, u)' => job'[q].num <= Cardinality(Recorded(u)')
    BY <1>3 DEF SumInv
  <2>1. filled[u] <= Cardinality(Recorded(u)')
    BY <1>4, <1>8 DEF SettleInv, SumInv
  <2>2. ASSUME NEW q \in Procs, Writes(q, u)' PROVE job'[q].num <= Cardinality(Recorded(u)')
    <3>1. job[q].num \in Nat /\ job[q].num <= Cardinality(Recorded(u)) /\ job'[q] = job[q]
      BY <1>5, <1>7, <2>2, JobFields DEF SettleInv, SumInv
    <3> QED
      BY <1>4, <1>8, <3>1
  <2> QED
    BY <2>1, <2>2
<1>17. Leg(x, role) \notin legs => FillOf(x) \in bus /\ \A q \in Procs : FillOf(x) \in job[q].ack => Unsummed(q, o)
  <2> SUFFICES ASSUME Leg(x, role) \notin legs
      PROVE  FillOf(x) \in bus /\ \A q \in Procs : FillOf(x) \in job[q].ack => Unsummed(q, o)
    OBVIOUS
  <2>1. x \notin posted
    BY <1>1 DEF SettleInv, EventInv
  <2>2. FillOf(x) \in bus
    BY <1>1, <2>1 DEF SettleInv, EventInv
  <2>3. ASSUME NEW q \in Procs, FillOf(x) \in job[q].ack PROVE Unsummed(q, o)
    <3>1. job[q].pc \in Filling /\ Cur(q) = x
      BY <2>1, <2>3, HandlerSettles DEF SettleInv
    <3>2. job[q].pc \in {"maker", "taker"}
      BY <1>1, <3>1 DEF SettleInv, WorkInv, Filling
    <3> QED
      BY <3>2 DEF Unsummed
  <2> QED
    BY <2>2, <2>3
<1>18. RefreshInv'
  <2> SUFFICES ASSUME NEW u \in Orders, "refresh" \notin raced[u]
      PROVE  /\ \A r \in Procs : Writes(r, u)' =>
                  filled[u] <= job'[r].num /\ \A q \in Procs : Writes(q, u)' => r = q
             /\ \A n \in 0 .. Qty[u] : filled[u] <= n /\ n < Cardinality(Recorded(u)') =>
                  \E y \in FillsOf(u) : Raises(y, u, n)'
             /\ filled[u] >= Qty[u] /\ status[u] = "open" => \E y \in FillsOf(u) : Completes(y, u)'
    BY <1>3, <1>4 DEF RefreshInv
  <2>1. ASSUME NEW r \in Procs, Writes(r, u)'
        PROVE  filled[u] <= job'[r].num /\ \A q \in Procs : Writes(q, u)' => r = q
    BY <1>5, <1>7, <2>1 DEF SettleInv, RefreshInv
  <2>2. ASSUME NEW n \in 0 .. Qty[u], filled[u] <= n, n < Cardinality(Recorded(u)')
        PROVE  \E y \in FillsOf(u) : Raises(y, u, n)'
    <3>1. ASSUME NEW y, FillOf(y) \in bus,
                 \A q \in Procs \ {p} : FillOf(y) \in job[q].ack => Unsummed(q, u) \/ (Writes(q, u) /\ n < job[q].num)
          PROVE  Raises(y, u, n)'
      <4>1. \A q \in Procs : FillOf(y) \in job'[q].ack => Unsummed(q, u)' \/ (Writes(q, u)' /\ n < job'[q].num)
        BY <1>5, <1>7, <3>1
      <4> QED
        BY <1>3, <3>1, <4>1 DEF Raises
    <3>2. CASE n < Cardinality(Recorded(u))
      <4>1. PICK y \in FillsOf(u) : Raises(y, u, n)
        BY <2>2, <3>2 DEF SettleInv, RefreshInv
      <4> QED
        BY <3>1, <4>1 DEF Raises
    <3>3. CASE ~(n < Cardinality(Recorded(u)))
      <4>1. u = o /\ Leg(x, role) \notin legs
        <5>1. n \in Int /\ Cardinality(Recorded(u)) \in Nat /\ Cardinality(Recorded(u)') \in Nat
          BY <1>4, <1>8, OrderSettleConstants
        <5>2. Cardinality(Recorded(u)') # Cardinality(Recorded(u))
          BY <2>2, <3>3, <5>1
        <5> QED
          BY <1>4, <5>2
      <4>2. Raises(x, u, n)'
        <5>1. FillOf(x) \in bus /\ \A q \in Procs : FillOf(x) \in job[q].ack => Unsummed(q, u)
          BY <1>17, <4>1
        <5> QED
          BY <3>1, <5>1
      <4> QED
        BY <1>4, <4>1, <4>2
    <3> QED
      BY <3>2, <3>3
  <2>3. ASSUME filled[u] >= Qty[u], status[u] = "open"
        PROVE  \E y \in FillsOf(u) : Completes(y, u)'
    <3>1. PICK y \in FillsOf(u) : Completes(y, u)
      BY <2>3 DEF SettleInv, RefreshInv
    <3> QED
      BY <1>2, <1>3, <1>5, <3>1 DEF Completes, Keeps
  <2> QED
    BY <2>1, <2>2, <2>3
<1> QED
  BY <1>9, <1>10, <1>11, <1>12, <1>13, <1>14, <1>15, <1>16, <1>18 DEF SettleInv

\* A booking takes one unit out of both holds.
LEMMA PostBooks ==
  ASSUME Types, EventInv, NEW x \in printed, x \notin posted, pot[x.mk] > 0, pot[x.tk] > 0,
         posted' = posted \cup {x}, UNCHANGED <<printed, legs>>,
         pot' = [o \in Orders |-> IF o \in {x.mk, x.tk} THEN pot[o] - 1 ELSE pot[o]]
  PROVE  /\ pot' \in [Orders -> Nat]
         /\ \A u \in Orders : pot'[u] + Cardinality(PostedOf(u)') = pot[u] + Cardinality(PostedOf(u))
<1>1. pot \in [Orders -> Nat]
  BY DEF Types
<1>2. pot' \in [Orders -> Nat]
  <2> SUFFICES ASSUME NEW o \in Orders PROVE (IF o \in {x.mk, x.tk} THEN pot[o] - 1 ELSE pot[o]) \in Nat
    OBVIOUS
  <2> QED
    BY <1>1
<1>3. ASSUME NEW u \in Orders
      PROVE  pot'[u] + Cardinality(PostedOf(u)') = pot[u] + Cardinality(PostedOf(u))
  <2>1. IsFiniteSet(PostedOf(u)) /\ Cardinality(PostedOf(u)) \in Nat /\ pot[u] \in Nat
    BY <1>1, MatchSets, MatchSizes
  <2>2. CASE u \in {x.mk, x.tk}
    <3>1. PostedOf(u)' = PostedOf(u) \cup {x} /\ x \notin PostedOf(u)
      BY <2>2 DEF PostedOf, FillsOf
    <3>2. Cardinality(PostedOf(u) \cup {x}) = Cardinality(PostedOf(u)) + 1
      BY <2>1, <3>1, FS_AddElement
    <3>3. pot'[u] = pot[u] - 1
      BY <2>2
    <3> QED
      BY <2>1, <3>1, <3>2, <3>3
  <2>3. CASE u \notin {x.mk, x.tk}
    <3>1. PostedOf(u)' = PostedOf(u)
      BY <2>3 DEF PostedOf, FillsOf
    <3>2. pot'[u] = pot[u]
      BY <2>3
    <3> QED
      BY <3>1, <3>2
  <2> QED
    BY <2>2, <2>3
<1> QED
  BY <1>2, <1>3

\* Settling the last fill of an event ends its handling; settling one of a submission
\* leads to the next.
LEMMA PostFillKeeps ==
  ASSUME SettleInv, NEW p \in Procs, PostFill(p)
  PROVE  SettleInv'
<1> PICK x : x = Cur(p)
  OBVIOUS
<1>1. /\ job[p].pc = "post" /\ x \in Matches /\ x \in printed /\ x.mk \in Orders /\ x.tk \in Orders
      /\ x.mk # x.tk /\ job[p].todo # <<>> /\ x = Head(job[p].todo) /\ job[p].todo \in Seq(Matches)
      /\ Leg(x, "maker") \in legs /\ Leg(x, "taker") \in legs
  <2>1. job[p].pc = "post" /\ job[p].pc \in Filling
    BY DEF PostFill, At, Filling
  <2>2. Leg(Cur(p), "maker") \in legs /\ Leg(Cur(p), "taker") \in legs
    BY <2>1 DEF SettleInv, WorkInv, Filling
  <2> QED
    BY <2>1, <2>2, CurIsMatch, JobFields DEF SettleInv, Cur
<1>2. UNCHANGED <<eng, printed, bus, legs, status, filled, freed, raced>> /\ MayNote
  BY DEF PostFill, engine, tables, MayNote, SettleInv, Types
<1>3. CASE ~(x \in posted \/ (pot[x.mk] > 0 /\ pot[x.tk] > 0))
  <2>1. End(p) /\ UNCHANGED <<posted, pot>>
    BY <1>3 DEF PostFill
  <2>2. Ends(p)
    BY <2>1, EndEnds DEF SettleInv
  <2> QED
    BY <1>2, <2>1, <2>2, EndKeeps DEF engine, tables, money, PostFill
<1>4. CASE x \in posted \/ (pot[x.mk] > 0 /\ pot[x.tk] > 0)
  <2> PICK rest : rest = Tail(job[p].todo)
    OBVIOUS
  <2>1. /\ rest \in Seq(Matches) /\ Range(job[p].todo) = {x} \cup Range(rest)
        /\ \A i \in DOMAIN rest : rest[i] \in printed
        /\ \A y : job[p].todo = <<y>> => rest = <<>>
    <3>1. /\ job[p].todo \in Seq(Matches) /\ Len(job[p].todo) \in Nat \ {0}
          /\ rest \in Seq(Matches) /\ Len(rest) = Len(job[p].todo) - 1 /\ x = job[p].todo[1]
          /\ \A i \in 1 .. Len(rest) : rest[i] = job[p].todo[i + 1]
      BY <1>1
    <3>2. Range(job[p].todo) = {x} \cup Range(rest)
      <4>1. \A i \in DOMAIN job[p].todo : job[p].todo[i] \in {x} \cup Range(rest)
        <5> SUFFICES ASSUME NEW i \in DOMAIN job[p].todo, i # 1 PROVE job[p].todo[i] \in Range(rest)
          BY <3>1
        <5>1. i - 1 \in 1 .. Len(rest) /\ (i - 1) + 1 = i
          BY <3>1
        <5>2. rest[i - 1] = job[p].todo[i]
          BY <3>1, <5>1
        <5> QED
          BY <3>1, <5>1, <5>2 DEF Range
      <4>2. \A i \in DOMAIN rest : rest[i] \in Range(job[p].todo)
        BY <3>1 DEF Range
      <4>3. x \in Range(job[p].todo)
        BY <3>1 DEF Range
      <4> QED
        BY <4>1, <4>2, <4>3 DEF Range
    <3>3. \A i \in DOMAIN rest : rest[i] \in printed
      <4> SUFFICES ASSUME NEW i \in DOMAIN rest PROVE rest[i] \in printed
        OBVIOUS
      <4>1. i + 1 \in DOMAIN job[p].todo /\ rest[i] = job[p].todo[i + 1]
        BY <3>1
      <4> QED
        BY <4>1 DEF SettleInv, WorkInv
    <3>4. \A y : job[p].todo = <<y>> => rest = <<>>
      BY <3>1
    <3> QED
      BY <3>1, <3>2, <3>3, <3>4
  <2>2. /\ OneJob(p) /\ job' \in [Procs -> JobType] /\ job'[p].pc = First(rest) /\ job'[p].todo = rest
        /\ job'[p].order = job[p].order /\ job'[p].cancels = job[p].cancels
        /\ job'[p].touched = job[p].touched /\ job'[p].ack = job[p].ack
    <3>1. job' = [job EXCEPT ![p].pc = First(Tail(job[p].todo)), ![p].todo = Tail(@)]
      BY <1>4 DEF PostFill
    <3>2. job \in [Procs -> JobType] /\ job[p] \in JobType
      BY DEF SettleInv, Types
    <3> DEFINE j == [job[p] EXCEPT !.pc = First(rest), !.todo = rest]
    <3>3. job' = [job EXCEPT ![p] = j]
      BY <3>1, <3>2
    <3>4. First(rest) \in {"maker", "close"}
      BY DEF First
    <3>5. /\ j \in JobType /\ j.pc = First(rest) /\ j.todo = rest /\ j.order = job[p].order
          /\ j.cancels = job[p].cancels /\ j.touched = job[p].touched /\ j.ack = job[p].ack
      BY <2>1, <3>2, <3>4 DEF JobType, Filling
    <3> HIDE DEF j
    <3> QED
      BY <3>2, <3>3, <3>5 DEF OneJob
  <2>3. First(rest) = IF rest = <<>> THEN "close" ELSE "maker"
    BY DEF First
  <2>4. \A q \in Procs : q # p =>
           /\ job'[q] = job[q] /\ Cur(q)' = Cur(q)
           /\ \A u : (Writes(q, u)' <=> Writes(q, u)) /\ (Unsummed(q, u)' <=> Unsummed(q, u))
    BY <2>2, OthersStay
  <2>5. \A u : ~Writes(p, u)' /\ ~Writes(p, u) /\ ~Unsummed(p, u)
    BY <1>1, <2>2, <2>3 DEF Writes, Unsummed, At
  <2>6. /\ posted' = posted \cup {x} /\ pot' \in [Orders -> Nat]
        /\ \A u \in Orders : pot'[u] + Cardinality(PostedOf(u)') = pot[u] + Cardinality(PostedOf(u))
    <3>1. CASE x \in posted
      <4>1. UNCHANGED <<posted, pot>>
        BY <3>1 DEF PostFill
      <4>2. \A u : PostedOf(u)' = PostedOf(u)
        BY <1>2, <4>1 DEF PostedOf, FillsOf
      <4> QED
        BY <3>1, <4>1, <4>2 DEF SettleInv, Types
    <3>2. CASE x \notin posted
      <4>1. /\ posted' = posted \cup {x} /\ pot[x.mk] > 0 /\ pot[x.tk] > 0
            /\ pot' = [o \in Orders |-> IF o \in {x.mk, x.tk} THEN pot[o] - 1 ELSE pot[o]]
        BY <1>4, <3>2 DEF PostFill
      <4> QED
        BY <1>1, <1>2, <3>2, <4>1, PostBooks DEF SettleInv
    <3> QED
      BY <3>1, <3>2
  <2>7. \A u : FillsOf(u)' = FillsOf(u) /\ Recorded(u)' = Recorded(u)
    BY <1>2 DEF FillsOf, Recorded
  <2>8. Types'
    BY <1>1, <1>2, <2>2, <2>6 DEF SettleInv, Types
  <2>9. BookInv' /\ EventInv'
    <3>1. BookInv'
      BY <1>2, <2>7 DEF SettleInv, BookInv
    <3>2. EventInv'
      BY <1>1, <1>2, <2>6 DEF SettleInv, EventInv
    <3> QED
      BY <3>1, <3>2
  <2>10. MoneyInv'
    <3> SUFFICES ASSUME NEW u \in Orders
        PROVE  /\ pot'[u] + Cardinality(PostedOf(u)') + (IF freed[u] >= 0 THEN freed[u] ELSE 0) = Qty[u] + Dust
               /\ status[u] # "open" => freed[u] >= 0
               /\ freed[u] >= 0 /\ "ahead" \notin raced[u] =>
                    eng[u].st = "gone" /\ Recorded(u) = FillsOf(u) /\ freed[u] = eng[u].left + Dust
      BY <1>2, <2>7 DEF MoneyInv
    <3> QED
      BY <2>6 DEF SettleInv, MoneyInv
  <2>11. PlaceInv'
    <3>1. \A q \in Procs : job'[q].order = job[q].order /\ (job'[q].pc = "submit" => job[q].pc = "submit")
      BY <2>2, <2>3, <2>4
    <3> QED
      BY <1>2, <3>1 DEF SettleInv, PlaceInv, At
  <2>12. WorkInv'
    <3>1. First(rest) \in Filling <=> rest # <<>>
      BY <2>3 DEF Filling
    <3>2. /\ job'[p].pc \in Filling <=> job'[p].todo # <<>>
          /\ \A i \in DOMAIN job'[p].todo : job'[p].todo[i] \in printed
          /\ job'[p].pc \in {"maker", "close"}
      BY <2>1, <2>2, <2>3, <3>1
    <3>3. WorkInv
      BY DEF SettleInv
    <3>4. UNCHANGED <<printed, legs>>
      BY <1>2
    <3> QED
      BY <2>4, <3>2, <3>3, <3>4 DEF WorkInv, Filling
  <2>13. AckInv'
    <3> SUFFICES ASSUME NEW q \in Procs, NEW e \in job'[q].ack
        PROVE  /\ job'[q].ack = {e} /\ job'[q].order = NoOrder
               /\ e.kind = "fill" =>
                    /\ job'[q].cancels = {}
                    /\ job'[q].pc \in Filling => job'[q].todo = <<e.of>> /\ {e.of.mk, e.of.tk} \subseteq job'[q].touched
                    /\ job'[q].pc = "close" => e.of \in posted'
               /\ e.kind = "cancel" =>
                    /\ job'[q].pc = "close"
                    /\ e.of \in job'[q].cancels \/ status[e.of] # "open"
      BY <1>2 DEF AckInv
    <3>1. CASE q # p
      BY <2>4, <2>6, <3>1 DEF SettleInv, AckInv
    <3>2. CASE q = p
      <4>1. e \in job[p].ack /\ job[p].ack = {e} /\ job[p].order = NoOrder /\ e.kind # "cancel"
        BY <1>1, <2>2, <3>2 DEF SettleInv, AckInv
      <4>2. e.kind = "fill" => job[p].cancels = {} /\ job[p].todo = <<e.of>>
        BY <1>1, <4>1 DEF SettleInv, AckInv, Filling
      <4>3. e.kind = "fill" => rest = <<>> /\ e.of = x
        BY <1>1, <2>1, <4>2
      <4> QED
        BY <2>2, <2>3, <2>6, <3>2, <4>1, <4>2, <4>3 DEF Filling
    <3> QED
      BY <3>1, <3>2
  <2>14. CancelInv'
    BY <1>2, <2>2, <2>4 DEF SettleInv, CancelInv
  <2>15. AheadInv'
    <3> SUFFICES ASSUME NEW q \in Procs, NEW o \in job'[q].cancels, job'[q].ack # {} \/ job'[q].order = o,
                        status[o] = "open"
        PROVE  FillsOf(o) \subseteq Recorded(o) \cup Range(job'[q].todo)
      BY <1>2, <2>7 DEF AheadInv
    <3>1. CASE q # p
      BY <2>4, <3>1 DEF SettleInv, AheadInv
    <3>2. CASE q = p
      <4>1. FillsOf(o) \subseteq Recorded(o) \cup {x} \cup Range(rest)
        BY <2>1, <2>2, <3>2 DEF SettleInv, AheadInv
      <4>2. x \in FillsOf(o) => x \in Recorded(o)
        BY <1>1 DEF Recorded, LegAt
      <4> QED
        BY <2>2, <3>2, <4>1, <4>2
    <3> QED
      BY <3>1, <3>2
  <2>16. SumInv'
    BY <1>2, <2>4, <2>5, <2>7 DEF SettleInv, SumInv
  <2>17. RefreshInv'
    BY <1>2, <2>2, <2>4, <2>5, <2>7 DEF SettleInv, RefreshInv, Raises, Completes
  <2> QED
    BY <2>8, <2>9, <2>10, <2>11, <2>12, <2>13, <2>14, <2>15, <2>16, <2>17 DEF SettleInv
<1> QED
  BY <1>3, <1>4

-----------------------------------------------------------------------------
(* The release of what is left of a hold                                   *)

\* What is released is what no recorded match of the order takes: the pot has it.
LEMMA ReleasableIsRest ==
  ASSUME SettleInv, NEW o \in Orders
  PROVE  /\ Releasable(o) \in Nat
         /\ freed[o] >= 0 => Releasable(o) = freed[o]
         /\ freed[o] < 0 => Releasable(o) = Qty[o] + Dust - Cardinality(Recorded(o)) /\ Releasable(o) <= pot[o]
<1>1. /\ freed[o] \in Nat \cup {-1} /\ pot[o] \in Nat /\ eng[o].left \in Nat
  BY DEF SettleInv, Types
<1>2. Qty[o] \in Nat /\ Dust \in Nat
  BY OrderSettleConstants
<1>3. CASE freed[o] >= 0
  BY <1>1, <1>3 DEF Releasable
<1>4. CASE freed[o] < 0
  <2> PICK a, b : a = pot[o] /\ b = Qty[o] + Dust - SumOfFills(o)
    OBVIOUS
  <2>1. SumOfFills(o) = Cardinality(Recorded(o))
    BY SumIsRecorded DEF SettleInv
  <2>2. /\ Cardinality(FillsOf(o)) \in Nat /\ Cardinality(Recorded(o)) \in Nat
        /\ Cardinality(PostedOf(o)) \in Nat
        /\ Cardinality(PostedOf(o)) <= Cardinality(Recorded(o))
        /\ Cardinality(Recorded(o)) <= Cardinality(FillsOf(o))
    BY MatchSizes DEF SettleInv
  <2>3. Cardinality(FillsOf(o)) + eng[o].left = Qty[o]
    BY DEF SettleInv, BookInv
  <2>4. pot[o] + Cardinality(PostedOf(o)) = Qty[o] + Dust
    BY <1>1, <1>2, <1>4, <2>2 DEF SettleInv, MoneyInv
  <2>5. b \in Nat /\ a \in Nat /\ b <= a
    BY <1>1, <1>2, <2>1, <2>2, <2>3, <2>4
  <2>6. Min({a, b}) = b
    BY <2>5 DEF Min
  <2>7. Releasable(o) = Min({a, b})
    BY <1>1, <1>4 DEF Releasable
  <2> QED
    BY <1>1, <1>4, <2>1, <2>5, <2>6, <2>7
<1> QED
  BY <1>1, <1>3, <1>4

Released(o) ==
  /\ freed' = [freed EXCEPT ![o] = Releasable(o)]
  /\ pot' = IF freed[o] >= 0 THEN pot ELSE [pot EXCEPT ![o] = @ - Releasable(o)]

\* Whose release was not ahead of a match keeps the money of every match.
LEMMA ReleaseKeepsMoney ==
  ASSUME SettleInv, NEW o \in Orders, Released(o), MayNote, UNCHANGED <<eng, printed, legs, posted>>,
         "ahead" \notin raced'[o] => eng[o].st = "gone" /\ Recorded(o) = FillsOf(o),
         \A u \in Orders : status'[u] # "open" => u = o \/ status[u] # "open"
  PROVE  pot' \in [Orders -> Nat] /\ freed' \in [Orders -> Nat \cup {-1}] /\ MoneyInv'
<1>1. /\ Releasable(o) \in Nat
      /\ freed[o] >= 0 => Releasable(o) = freed[o]
      /\ freed[o] < 0 => Releasable(o) = Qty[o] + Dust - Cardinality(Recorded(o)) /\ Releasable(o) <= pot[o]
  BY ReleasableIsRest
<1>2. freed \in [Orders -> Nat \cup {-1}] /\ pot \in [Orders -> Nat]
  BY DEF SettleInv, Types
<1>3. freed' \in [Orders -> Nat \cup {-1}] /\ freed'[o] = Releasable(o) /\ \A u \in Orders : u # o => freed'[u] = freed[u]
  BY <1>1, <1>2 DEF Released
<1>4. /\ pot' \in [Orders -> Nat] /\ \A u \in Orders : u # o => pot'[u] = pot[u]
      /\ freed[o] >= 0 => pot'[o] = pot[o]
      /\ freed[o] < 0 => pot'[o] = pot[o] - Releasable(o)
  <2>1. CASE freed[o] >= 0
    <3>1. pot' = pot
      BY <2>1 DEF Released
    <3> QED
      BY <1>2, <2>1, <3>1
  <2>2. CASE freed[o] < 0
    <3>1. pot' = [pot EXCEPT ![o] = @ - Releasable(o)]
      BY <1>2, <2>2 DEF Released
    <3>2. pot[o] - Releasable(o) \in Nat
      BY <1>1, <1>2, <2>2
    <3> QED
      BY <1>2, <2>2, <3>1, <3>2
  <2> QED
    BY <1>2, <2>1, <2>2
<1>5. \A u : FillsOf(u)' = FillsOf(u) /\ Recorded(u)' = Recorded(u) /\ PostedOf(u)' = PostedOf(u)
  BY MatchesStay
<1>6. MoneyInv'
  <2> SUFFICES ASSUME NEW u \in Orders
      PROVE  /\ pot'[u] + Cardinality(PostedOf(u)) + (IF freed'[u] >= 0 THEN freed'[u] ELSE 0) = Qty[u] + Dust
             /\ status'[u] # "open" => freed'[u] >= 0
             /\ freed'[u] >= 0 /\ "ahead" \notin raced'[u] =>
                  eng[u].st = "gone" /\ Recorded(u) = FillsOf(u) /\ freed'[u] = eng[u].left + Dust
    BY <1>5 DEF MoneyInv
  <2>1. /\ pot[u] + Cardinality(PostedOf(u)) + (IF freed[u] >= 0 THEN freed[u] ELSE 0) = Qty[u] + Dust
        /\ status[u] # "open" => freed[u] >= 0
        /\ freed[u] >= 0 /\ "ahead" \notin raced[u] =>
             eng[u].st = "gone" /\ Recorded(u) = FillsOf(u) /\ freed[u] = eng[u].left + Dust
    BY DEF SettleInv, MoneyInv
  <2>2. "ahead" \notin raced'[u] => "ahead" \notin raced[u]
    BY DEF MayNote
  <2>3. CASE u # o
    BY <1>3, <1>4, <2>1, <2>2, <2>3
  <2>4. CASE u = o /\ freed[o] >= 0
    BY <1>1, <1>3, <1>4, <2>1, <2>2, <2>4
  <2>5. CASE u = o /\ freed[o] < 0
    <3>1. Cardinality(FillsOf(o)) + eng[o].left = Qty[o] /\ eng[o].left \in Nat /\ Dust \in Nat /\ Qty[o] \in Nat
      BY OrderSettleConstants DEF SettleInv, BookInv, Types
    <3>2. Cardinality(FillsOf(o)) \in Nat /\ Cardinality(PostedOf(o)) \in Nat
      BY MatchSizes DEF SettleInv
    <3>3. pot[o] + Cardinality(PostedOf(o)) = Qty[o] + Dust
      BY <1>2, <2>1, <2>5, <3>2
    <3>4. pot'[o] + Cardinality(PostedOf(o)) + freed'[o] = Qty[o] + Dust /\ freed'[o] >= 0
      BY <1>1, <1>2, <1>3, <1>4, <2>5, <3>1, <3>2, <3>3
    <3>5. Recorded(o) = FillsOf(o) => freed'[o] = eng[o].left + Dust
      BY <1>1, <1>3, <2>5, <3>1, <3>2
    <3> QED
      BY <2>5, <3>4, <3>5
  <2> QED
    BY <1>2, <2>3, <2>4, <2>5
<1> QED
  BY <1>3, <1>4, <1>6

\* A job that closes forgets an order it has seen to.
LEMMA ClosingKeeps ==
  ASSUME SettleInv, NEW p \in Procs, job[p].pc = "close", OneJob(p), MayNote,
         job'[p].pc = "close", job'[p].order = job[p].order, job'[p].todo = job[p].todo, job'[p].ack = job[p].ack,
         job'[p].cancels \subseteq job[p].cancels, job'[p].touched \subseteq job[p].touched,
         \A u \in job[p].cancels \ job'[p].cancels : status'[u] # "open",
         \A u \in job[p].touched \ job'[p].touched : filled[u] >= Qty[u] => status'[u] # "open",
         UNCHANGED <<eng, printed, bus, legs, filled, posted>>,
         pot' \in [Orders -> Nat], freed' \in [Orders -> Nat \cup {-1}], MoneyInv',
         status' \in [Orders -> {"open", "filled", "cancelled"}],
         \A u \in Orders : status[u] # "open" => status'[u] # "open"
  PROVE  SettleInv'
<1>1. \A u : FillsOf(u)' = FillsOf(u) /\ Recorded(u)' = Recorded(u) /\ PostedOf(u)' = PostedOf(u)
  BY MatchesStay
<1>2. \A q \in Procs : q # p =>
           /\ job'[q] = job[q] /\ Cur(q)' = Cur(q)
           /\ \A u : (Writes(q, u)' <=> Writes(q, u)) /\ (Unsummed(q, u)' <=> Unsummed(q, u))
  BY OthersStay
<1>3. \A u : ~Writes(p, u)' /\ ~Writes(p, u) /\ ~Unsummed(p, u)
  BY DEF Writes, Unsummed, At
<1>4. Types'
  BY DEF SettleInv, Types, MayNote, OneJob
<1>5. BookInv' /\ EventInv'
  BY <1>1 DEF SettleInv, BookInv, EventInv
<1>6. PlaceInv'
  <2>1. \A q \in Procs : job'[q].order = job[q].order /\ job'[q].pc = job[q].pc
    BY <1>2
  <2> QED
    BY <2>1 DEF SettleInv, PlaceInv, At
<1>7. WorkInv'
  <2>1. \A q \in Procs : /\ job'[q].order = job[q].order /\ job'[q].pc = job[q].pc /\ job'[q].todo = job[q].todo
                         /\ job'[q].ack = job[q].ack /\ job'[q].cancels \subseteq job[q].cancels
    BY <1>2
  <2>2. \A q \in Procs : Cur(q)' = Cur(q)
    BY <2>1 DEF Cur
  <2> QED
    BY <2>1, <2>2 DEF SettleInv, WorkInv
<1>8. AckInv'
  <2> SUFFICES ASSUME NEW q \in Procs, NEW e \in job'[q].ack
      PROVE  /\ job'[q].ack = {e} /\ job'[q].order = NoOrder
             /\ e.kind = "fill" =>
                  /\ job'[q].cancels = {}
                  /\ job'[q].pc \in Filling => job'[q].todo = <<e.of>> /\ {e.of.mk, e.of.tk} \subseteq job'[q].touched
                  /\ job'[q].pc = "close" => e.of \in posted
             /\ e.kind = "cancel" =>
                  /\ job'[q].pc = "close"
                  /\ e.of \in job'[q].cancels \/ status'[e.of] # "open"
    BY DEF AckInv
  <2>1. e \in job[q].ack /\ e \in Events
    BY <1>2, JobFields DEF SettleInv
  <2>2. e.kind = "cancel" => e.of \in Orders
    BY <2>1, EventsDiffer
  <2>3. CASE q # p
    BY <1>2, <2>1, <2>2, <2>3 DEF SettleInv, AckInv
  <2>4. CASE q = p
    <3>1. "close" \notin Filling
      BY DEF Filling
    <3> QED
      BY <2>1, <2>2, <2>4, <3>1 DEF SettleInv, AckInv
  <2> QED
    BY <2>3, <2>4
<1>9. CancelInv'
  <2>1. \A q \in Procs : job'[q].cancels \subseteq job[q].cancels
    BY <1>2
  <2> QED
    BY <2>1 DEF SettleInv, CancelInv
<1>10. AheadInv'
  <2>1. \A q \in Procs : /\ job'[q].order = job[q].order /\ job'[q].todo = job[q].todo
                         /\ job'[q].ack = job[q].ack /\ job'[q].cancels \subseteq job[q].cancels
                         /\ job[q].cancels \subseteq Orders
    BY <1>2, JobFields DEF SettleInv
  <2> QED
    BY <1>1, <2>1 DEF SettleInv, AheadInv
<1>11. SumInv'
  BY <1>1, <1>2, <1>3 DEF SettleInv, SumInv
<1>12. RefreshInv'
  <2> SUFFICES ASSUME NEW u \in Orders, "refresh" \notin raced[u]
      PROVE  /\ \A r \in Procs : Writes(r, u)' =>
                  filled[u] <= job'[r].num /\ \A q \in Procs : Writes(q, u)' => r = q
             /\ \A n \in 0 .. Qty[u] : filled[u] <= n /\ n < Cardinality(Recorded(u)) =>
                  \E y \in FillsOf(u) : Raises(y, u, n)'
             /\ filled[u] >= Qty[u] /\ status'[u] = "open" => \E y \in FillsOf(u) : Completes(y, u)'
    BY <1>1 DEF RefreshInv, MayNote
  <2>1. \A r \in Procs : Writes(r, u)' =>
                  filled[u] <= job'[r].num /\ \A q \in Procs : Writes(q, u)' => r = q
    BY <1>2, <1>3 DEF SettleInv, RefreshInv
  <2>2. ASSUME NEW n \in 0 .. Qty[u], filled[u] <= n, n < Cardinality(Recorded(u))
        PROVE  \E y \in FillsOf(u) : Raises(y, u, n)'
    <3>1. PICK y \in FillsOf(u) : Raises(y, u, n)
      BY <2>2 DEF SettleInv, RefreshInv
    <3> QED
      BY <1>2, <1>3, <3>1 DEF Raises
  <2>3. ASSUME filled[u] >= Qty[u], status'[u] = "open"
        PROVE  \E y \in FillsOf(u) : Completes(y, u)'
    <3>1. status[u] = "open"
      BY <2>3
    <3>2. PICK y \in FillsOf(u) : Completes(y, u)
      BY <2>3, <3>1 DEF SettleInv, RefreshInv
    <3>3. u \in job[p].touched => u \in job'[p].touched
      BY <2>3
    <3> QED
      BY <1>2, <3>2, <3>3 DEF Completes
  <2> QED
    BY <2>1, <2>2, <2>3
<1> QED
  BY <1>4, <1>5, <1>6, <1>7, <1>8, <1>9, <1>10, <1>11, <1>12 DEF SettleInv
\* An order whose legs are all there is recorded.
LEMMA RecordedWhenNotUnrecorded ==
  ASSUME SettleInv, NEW o \in Orders, ~Unrecorded(o)
  PROVE  Recorded(o) = FillsOf(o)
<1> SUFFICES ASSUME NEW x \in FillsOf(o) PROVE LegAt(x, o) \in legs
  BY DEF Recorded
<1>1. PICK l \in legs : LegOrder(l) = o /\ l.of = x
  BY DEF Unrecorded
<1>2. x \in Matches /\ l.role \in {"maker", "taker"} /\ l = Leg(x, l.role)
  BY <1>1 DEF SettleInv, Types, Leg
<1>3. x.mk # x.tk
  BY <1>2, TwoSides
<1> QED
  BY <1>1, <1>2, <1>3 DEF LegOrder, LegAt

\* A cancelled order is released with all its matches recorded, or it is noted.
LEMMA CancelIsSettled ==
  ASSUME SettleInv, NEW p \in Procs, NEW o \in job[p].cancels, job[p].pc = "close", status[o] = "open",
         NoteAhead(p, o)
  PROVE  MayNote /\ ("ahead" \notin raced'[o] => eng[o].st = "gone" /\ Recorded(o) = FillsOf(o))
<1>1. o \in Orders /\ eng[o].st = "gone"
  BY JobFields DEF SettleInv, CancelInv
<1> DEFINE looked == status[o] = "open" /\ job[p].ack = {} /\ job[p].order # o /\ Unrecorded(o)
<1>2. Note(o, "ahead", looked) /\ looked \in BOOLEAN /\ "ahead" \in Races
  BY DEF NoteAhead, Races
<1> HIDE DEF looked
<1>3. MayNote /\ (looked => "ahead" \in raced'[o])
  BY <1>1, <1>2, NoteNotes DEF SettleInv
<1>4. ASSUME ~looked PROVE Recorded(o) = FillsOf(o)
  <2>1. CASE ~Unrecorded(o)
    BY <1>1, <2>1, RecordedWhenNotUnrecorded
  <2>2. CASE job[p].ack # {} \/ job[p].order = o
    <3>1. job[p].todo = <<>>
      BY DEF SettleInv, WorkInv, Filling
    <3>2. Range(job[p].todo) = {}
      BY <3>1 DEF Range
    <3>3. FillsOf(o) \subseteq Recorded(o)
      BY <2>2, <3>2 DEF SettleInv, AheadInv
    <3> QED
      BY <3>3 DEF Recorded
  <2> QED
    BY <1>4, <2>1, <2>2 DEF looked
<1> QED
  BY <1>1, <1>3, <1>4

\* An order that is complete has nothing left in the engine.
LEMMA CompleteIsSettled ==
  ASSUME SettleInv, NEW o \in Orders, filled[o] >= Qty[o]
  PROVE  eng[o].st = "gone" /\ Recorded(o) = FillsOf(o)
<1>1. /\ Cardinality(FillsOf(o)) \in Nat /\ Cardinality(Recorded(o)) \in Nat
      /\ Cardinality(Recorded(o)) <= Cardinality(FillsOf(o))
      /\ Cardinality(Recorded(o)) = Cardinality(FillsOf(o)) => Recorded(o) = FillsOf(o)
  BY MatchSizes DEF SettleInv
<1>2. /\ Cardinality(FillsOf(o)) + eng[o].left = Qty[o]
      /\ eng[o].st = "new" => FillsOf(o) = {}
      /\ eng[o].st = "live" => eng[o].left > 0
  BY DEF SettleInv, BookInv
<1>3. /\ eng[o].left \in Nat /\ filled[o] \in Nat /\ Qty[o] \in Nat \ {0}
      /\ eng[o].st \in {"new", "live", "gone"}
  BY OrderSettleConstants DEF SettleInv, Types
<1>4. filled[o] <= Cardinality(Recorded(o))
  BY DEF SettleInv, SumInv
<1>5. Cardinality(Recorded(o)) = Cardinality(FillsOf(o)) /\ eng[o].left = 0
  BY <1>1, <1>2, <1>3, <1>4
<1>6. eng[o].st # "new"
  <2>1. Cardinality({}) = 0
    BY FS_EmptySet
  <2> QED
    BY <1>2, <1>3, <1>5, <2>1
<1> QED
  BY <1>1, <1>2, <1>3, <1>5, <1>6

\* Finalize releases an open order and ends it.
LEMMA FinalizeEnds ==
  ASSUME Types, NEW o \in Orders, NEW end \in {"filled", "cancelled"}, Finalize(o, end)
  PROVE  /\ status' \in [Orders -> {"open", "filled", "cancelled"}]
         /\ \A u \in Orders : u # o => status'[u] = status[u]
         /\ status'[o] # "open"
         /\ status[o] # "open" => UNCHANGED <<pot, freed, status>>
         /\ status[o] = "open" => Released(o)
<1>1. status \in [Orders -> {"open", "filled", "cancelled"}]
  BY DEF Types
<1>2. CASE status[o] # "open"
  BY <1>1, <1>2 DEF Finalize
<1>3. CASE status[o] = "open"
  <2> PICK st : st = IF filled[o] >= Qty[o] THEN "filled" ELSE end
    OBVIOUS
  <2>1. st \in {"filled", "cancelled"}
    OBVIOUS
  <2>2. status' = [status EXCEPT ![o] = st] /\ Released(o)
    BY <1>3 DEF Finalize, Released
  <2> QED
    BY <1>1, <1>3, <2>1, <2>2
<1> QED
  BY <1>2, <1>3

LEMMA FinalizeCancelledKeeps ==
  ASSUME SettleInv, NEW p \in Procs, NEW o \in Orders, FinalizeCancelled(p, o)
  PROVE  SettleInv'
<1>1. /\ job[p].pc = "close" /\ o \in job[p].cancels /\ Finalize(o, "cancelled") /\ NoteAhead(p, o)
      /\ UNCHANGED <<eng, printed, bus, legs, filled, posted>>
  BY DEF FinalizeCancelled, At, engine
<1>2. /\ status' \in [Orders -> {"open", "filled", "cancelled"}]
      /\ \A u \in Orders : u # o => status'[u] = status[u]
      /\ status'[o] # "open"
      /\ status[o] # "open" => UNCHANGED <<pot, freed, status>>
      /\ status[o] = "open" => Released(o)
  BY <1>1, FinalizeEnds DEF SettleInv
<1>3. /\ OneJob(p) /\ job'[p].pc = "close" /\ job'[p].order = job[p].order /\ job'[p].todo = job[p].todo
      /\ job'[p].ack = job[p].ack /\ job'[p].touched = job[p].touched
      /\ job'[p].cancels = job[p].cancels \ {o}
  <2>1. job' = [job EXCEPT ![p].cancels = @ \ {o}] /\ job \in [Procs -> JobType] /\ job[p] \in JobType
    BY DEF FinalizeCancelled, SettleInv, Types
  <2> DEFINE j == [job[p] EXCEPT !.cancels = @ \ {o}]
  <2>2. job' = [job EXCEPT ![p] = j]
    BY <2>1
  <2>3. /\ j \in JobType /\ j.pc = job[p].pc /\ j.todo = job[p].todo /\ j.order = job[p].order
        /\ j.cancels = job[p].cancels \ {o} /\ j.touched = job[p].touched /\ j.ack = job[p].ack
    BY <2>1 DEF JobType
  <2> HIDE DEF j
  <2> QED
    BY <1>1, <2>1, <2>2, <2>3 DEF OneJob
<1>4. MayNote /\ pot' \in [Orders -> Nat] /\ freed' \in [Orders -> Nat \cup {-1}] /\ MoneyInv'
  <2>1. CASE status[o] = "open"
    <3>1. MayNote /\ ("ahead" \notin raced'[o] => eng[o].st = "gone" /\ Recorded(o) = FillsOf(o))
      BY <1>1, <2>1, CancelIsSettled
    <3>2. Released(o) /\ \A u \in Orders : status'[u] # "open" => u = o \/ status[u] # "open"
      BY <1>2, <2>1
    <3> QED
      BY <1>1, <3>1, <3>2, ReleaseKeepsMoney
  <2>2. CASE status[o] # "open"
    <3>1. UNCHANGED <<pot, freed, status>> /\ raced' = raced
      BY <1>1, <1>2, <2>2 DEF NoteAhead, Note
    <3>2. \A u : FillsOf(u)' = FillsOf(u) /\ Recorded(u)' = Recorded(u) /\ PostedOf(u)' = PostedOf(u)
      BY <1>1, MatchesStay
    <3> QED
      BY <1>1, <3>1, <3>2 DEF SettleInv, MoneyInv, Types, MayNote
  <2> QED
    BY <2>1, <2>2
<1>5. \A u \in job[p].cancels \ job'[p].cancels : status'[u] # "open"
  BY <1>2, <1>3
<1>6. \A u \in Orders : status[u] # "open" => status'[u] # "open"
  BY <1>2
<1> QED
  BY <1>1, <1>2, <1>3, <1>4, <1>5, <1>6, ClosingKeeps

LEMMA FinalizeIfCompleteKeeps ==
  ASSUME SettleInv, NEW p \in Procs, NEW o \in Orders, FinalizeIfComplete(p, o)
  PROVE  SettleInv'
<1>1. /\ job[p].pc = "close" /\ o \in job[p].touched
      /\ IF filled[o] >= Qty[o] THEN Finalize(o, "filled") ELSE UNCHANGED <<pot, freed, status>>
      /\ UNCHANGED <<eng, printed, bus, legs, filled, posted, raced>>
  BY DEF FinalizeIfComplete, At, engine
<1>2. /\ status' \in [Orders -> {"open", "filled", "cancelled"}]
      /\ \A u \in Orders : u # o => status'[u] = status[u]
      /\ status[o] # "open" \/ filled[o] >= Qty[o] => status'[o] # "open"
      /\ status[o] # "open" \/ ~(filled[o] >= Qty[o]) => UNCHANGED <<pot, freed, status>>
      /\ status[o] = "open" /\ filled[o] >= Qty[o] => Released(o)
  <2>1. CASE filled[o] >= Qty[o]
    BY <1>1, <2>1, FinalizeEnds DEF SettleInv
  <2>2. CASE ~(filled[o] >= Qty[o])
    BY <1>1, <2>2 DEF SettleInv, Types
  <2> QED
    BY <2>1, <2>2
<1>3. /\ OneJob(p) /\ job'[p].pc = "close" /\ job'[p].order = job[p].order /\ job'[p].todo = job[p].todo
      /\ job'[p].ack = job[p].ack /\ job'[p].cancels = job[p].cancels
      /\ job'[p].touched = job[p].touched \ {o}
  <2>1. job' = [job EXCEPT ![p].touched = @ \ {o}] /\ job \in [Procs -> JobType] /\ job[p] \in JobType
    BY DEF FinalizeIfComplete, SettleInv, Types
  <2> DEFINE j == [job[p] EXCEPT !.touched = @ \ {o}]
  <2>2. job' = [job EXCEPT ![p] = j]
    BY <2>1
  <2>3. /\ j \in JobType /\ j.pc = job[p].pc /\ j.todo = job[p].todo /\ j.order = job[p].order
        /\ j.cancels = job[p].cancels /\ j.touched = job[p].touched \ {o} /\ j.ack = job[p].ack
    BY <2>1 DEF JobType
  <2> HIDE DEF j
  <2> QED
    BY <1>1, <2>1, <2>2, <2>3 DEF OneJob
<1>4. MayNote
  BY <1>1 DEF MayNote, SettleInv, Types
<1>5. pot' \in [Orders -> Nat] /\ freed' \in [Orders -> Nat \cup {-1}] /\ MoneyInv'
  <2>1. CASE status[o] = "open" /\ filled[o] >= Qty[o]
    <3>1. eng[o].st = "gone" /\ Recorded(o) = FillsOf(o)
      BY <2>1, CompleteIsSettled
    <3>2. Released(o) /\ \A u \in Orders : status'[u] # "open" => u = o \/ status[u] # "open"
      BY <1>2, <2>1
    <3> QED
      BY <1>1, <1>4, <3>1, <3>2, ReleaseKeepsMoney
  <2>2. CASE ~(status[o] = "open" /\ filled[o] >= Qty[o])
    <3>1. UNCHANGED <<pot, freed, status>>
      BY <1>2, <2>2
    <3>2. \A u : FillsOf(u)' = FillsOf(u) /\ Recorded(u)' = Recorded(u) /\ PostedOf(u)' = PostedOf(u)
      BY <1>1, MatchesStay
    <3> QED
      BY <1>1, <3>1, <3>2 DEF SettleInv, MoneyInv, Types
  <2> QED
    BY <2>1, <2>2
<1>6. \A u \in job[p].touched \ job'[p].touched : filled[u] >= Qty[u] => status'[u] # "open"
  BY <1>2, <1>3
<1>7. \A u \in Orders : status[u] # "open" => status'[u] # "open"
  BY <1>2
<1> QED
  BY <1>1, <1>2, <1>3, <1>4, <1>5, <1>6, <1>7, ClosingKeeps

\* The release of a process that died is one it might have ended with.
LEMMA CrashInFinalizeKeeps ==
  ASSUME SettleInv, NEW p \in Procs, NEW o \in Orders, CrashInFinalize(p, o)
  PROVE  SettleInv'
<1>1. /\ job[p].pc = "close" /\ status[o] = "open" /\ Released(o) /\ NoteAhead(p, o)
      /\ o \in job[p].cancels \/ filled[o] >= Qty[o]
      /\ UNCHANGED <<engine, posted, tables, bus>> /\ UNCHANGED <<eng, printed, legs, status>>
  BY DEF CrashInFinalize, At, Released, engine, tables
<1>2. Ends(p)
  BY EndEnds DEF SettleInv, CrashInFinalize
<1>3. MayNote /\ ("ahead" \notin raced'[o] => eng[o].st = "gone" /\ Recorded(o) = FillsOf(o))
  <2>1. CASE o \in job[p].cancels
    BY <1>1, <2>1, CancelIsSettled
  <2>2. CASE filled[o] >= Qty[o]
    <3> DEFINE looked == status[o] = "open" /\ job[p].ack = {} /\ job[p].order # o /\ Unrecorded(o)
    <3>1. Note(o, "ahead", looked) /\ looked \in BOOLEAN /\ "ahead" \in Races
      BY <1>1 DEF NoteAhead, Races
    <3> HIDE DEF looked
    <3>2. MayNote
      BY <3>1, NoteNotes DEF SettleInv
    <3> QED
      BY <2>2, <3>2, CompleteIsSettled
  <2> QED
    BY <1>1, <2>1, <2>2
<1>4. pot' \in [Orders -> Nat] /\ freed' \in [Orders -> Nat \cup {-1}] /\ MoneyInv'
  BY <1>1, <1>3, ReleaseKeepsMoney
<1> QED
  BY <1>1, <1>2, <1>3, <1>4, EndsKeep

\* Who acknowledges an event has seen to it.
LEMMA DoneKeeps ==
  ASSUME SettleInv, NEW p \in Procs, Done(p)
  PROVE  SettleInv'
<1>1. /\ job[p].pc = "close" /\ job[p].cancels = {} /\ job[p].touched = {} /\ bus' = bus \ job[p].ack
      /\ UNCHANGED <<eng, printed, legs, status, filled, posted, pot, freed, raced>> /\ Ends(p)
  BY EndEnds DEF Done, At, SettleInv, engine, money, tables
<1>2. /\ job'[p].pc = "idle" /\ job'[p].order = NoOrder /\ job'[p].todo = <<>> /\ job'[p].cancels = {}
      /\ job'[p].touched = {} /\ job'[p].ack = {} /\ job'[p].num = 0
      /\ OneJob(p) /\ job' \in [Procs -> JobType]
  BY <1>1, IdleRests DEF Ends, OneJob
<1>3. \A q \in Procs : q # p =>
           /\ job'[q] = job[q] /\ Cur(q)' = Cur(q)
           /\ \A u : (Writes(q, u)' <=> Writes(q, u)) /\ (Unsummed(q, u)' <=> Unsummed(q, u))
  BY <1>2, OthersStay
<1>4. \A u : FillsOf(u)' = FillsOf(u) /\ Recorded(u)' = Recorded(u) /\ PostedOf(u)' = PostedOf(u)
  BY <1>1, MatchesStay
<1>5. \A u : ~Writes(p, u)' /\ ~Writes(p, u) /\ ~Unsummed(p, u)
  BY <1>1, <1>2 DEF Writes, Unsummed, At
<1>6. Types' /\ BookInv' /\ MoneyInv'
  <2>1. Types'
    BY <1>1, <1>2 DEF SettleInv, Types
  <2> QED
    BY <1>1, <1>4, <2>1 DEF SettleInv, BookInv, MoneyInv
<1>7. PlaceInv'
  <2>1. \A q \in Procs : job'[q].pc = "submit" => q # p
    BY <1>2
  <2>2. job'[p].order \notin Orders
    BY <1>2, OrderSettleConstants DEF NoOrder
  <2> QED
    BY <1>1, <1>3, <2>1, <2>2 DEF SettleInv, PlaceInv, At
<1>8. WorkInv'
  BY <1>1, <1>2, <1>3 DEF SettleInv, WorkInv, Filling
<1>9. AckInv'
  BY <1>1, <1>2, <1>3 DEF SettleInv, AckInv
<1>10. EventInv'
  <2>1. \A x : FillOf(x) \in job[p].ack => x \in posted
    BY <1>1, HandlerSettles DEF SettleInv
  <2> QED
    BY <1>1, <2>1 DEF SettleInv, EventInv
<1>11. CancelInv'
  <2>1. \A o : CancelOf(o) \in job[p].ack => status[o] # "open"
    BY <1>1, EventsDiffer DEF SettleInv, AckInv
  <2> QED
    BY <1>1, <1>2, <1>3, <2>1 DEF SettleInv, CancelInv
<1>12. AheadInv'
  BY <1>1, <1>2, <1>3, <1>4 DEF SettleInv, AheadInv
<1>13. SumInv'
  BY <1>1, <1>3, <1>4, <1>5 DEF SettleInv, SumInv
<1>14. RefreshInv'
  <2>1. \A x, o, n : Raises(x, o, n) => Raises(x, o, n)'
    BY <1>1, <1>2, <1>3, <1>5 DEF Raises
  <2>2. \A x, o : Completes(x, o) => Completes(x, o)'
    BY <1>1, <1>2, <1>3 DEF Completes
  <2> QED
    BY <1>1, <1>3, <1>4, <1>5, <2>1, <2>2 DEF SettleInv, RefreshInv
<1> QED
  BY <1>6, <1>7, <1>8, <1>9, <1>10, <1>11, <1>12, <1>13, <1>14 DEF SettleInv
-----------------------------------------------------------------------------
(* What the engine does                                                    *)

\* The engine takes an order off the book and says so.
TakenOff(o) ==
  /\ eng[o].st # "new" /\ eng' = [eng EXCEPT ![o].st = "gone"]
  /\ bus' = IF eng[o].st = "live" THEN bus \cup {CancelOf(o)} ELSE bus
  /\ UNCHANGED <<printed, legs, status, filled, posted, pot, freed, raced>>

LEMMA TakenOffKeeps ==
  ASSUME SettleInv, NEW o \in Orders, TakenOff(o)
  PROVE  /\ BookInv' /\ EventInv' /\ MoneyInv' /\ (job' \in [Procs -> JobType] => Types')
         /\ eng'[o].st = "gone" /\ \A u \in Orders : u # o => eng'[u] = eng[u]
         /\ bus \subseteq bus' /\ bus' \subseteq bus \cup {CancelOf(o)}
         /\ eng'[o].left = eng[o].left
         /\ \A u \in Orders : eng'[u].st = "gone" /\ eng'[u].left > 0 /\ status[u] = "open" => CancelOf(u) \in bus'
         /\ \A u : FillsOf(u)' = FillsOf(u) /\ Recorded(u)' = Recorded(u) /\ PostedOf(u)' = PostedOf(u)
<1>1. /\ eng \in [Orders -> [st : {"new", "live", "gone"}, left : Nat]]
      /\ UNCHANGED <<printed, legs, status, filled, posted, pot, freed, raced>>
  BY DEF SettleInv, Types, TakenOff
<1>2. /\ eng' \in [Orders -> [st : {"new", "live", "gone"}, left : Nat]]
      /\ eng'[o].st = "gone" /\ eng'[o].left = eng[o].left
      /\ \A u \in Orders : u # o => eng'[u] = eng[u]
  BY <1>1 DEF TakenOff
<1>3. bus \subseteq bus' /\ bus' \subseteq bus \cup {CancelOf(o)} /\ (eng[o].st = "live" => CancelOf(o) \in bus')
  BY DEF TakenOff
<1>4. \A u : FillsOf(u)' = FillsOf(u) /\ Recorded(u)' = Recorded(u) /\ PostedOf(u)' = PostedOf(u)
  BY <1>1, MatchesStay
<1>5. BookInv'
  BY <1>2, <1>4 DEF SettleInv, BookInv, TakenOff
<1>6. EventInv'
  <2>1. CancelOf(o).kind # "fill"
    BY EventsDiffer
  <2> QED
    BY <1>1, <1>3, <2>1 DEF SettleInv, EventInv
<1>7. MoneyInv'
  <2>1. \A u \in Orders : eng'[u].left = eng[u].left /\ (eng[u].st = "gone" => eng'[u].st = "gone")
    BY <1>2
  <2> QED
    BY <1>1, <1>4, <2>1 DEF SettleInv, MoneyInv
<1>8. job' \in [Procs -> JobType] => Types'
  <2>1. CancelOf(o) \in Events
    BY EventsDiffer
  <2> QED
    BY <1>1, <1>2, <1>3, <2>1 DEF SettleInv, Types
<1>9. \A u \in Orders : eng'[u].st = "gone" /\ eng'[u].left > 0 /\ status[u] = "open" => CancelOf(u) \in bus'
  <2>1. eng[o].st \in {"live", "gone"}
    BY <1>1 DEF TakenOff
  <2> QED
    BY <1>2, <1>3, <2>1 DEF SettleInv, CancelInv
<1> QED
  BY <1>2, <1>3, <1>4, <1>5, <1>6, <1>7, <1>8, <1>9

LEMMA ExpireKeeps ==
  ASSUME SettleInv, NEW o \in Orders, Expire(o)
  PROVE  SettleInv'
<1>1. /\ TakenOff(o) /\ eng[o].st # "new"
      /\ UNCHANGED <<printed, legs, status, filled, posted, pot, freed, raced, job>>
  BY DEF Expire, TakenOff, CancelOf, money, tables
<1>2. /\ BookInv' /\ EventInv' /\ MoneyInv' /\ (job' \in [Procs -> JobType] => Types')
      /\ eng'[o].st = "gone" /\ \A u \in Orders : u # o => eng'[u] = eng[u]
      /\ bus \subseteq bus' /\ bus' \subseteq bus \cup {CancelOf(o)}
      /\ eng'[o].left = eng[o].left
      /\ \A u \in Orders : eng'[u].st = "gone" /\ eng'[u].left > 0 /\ status[u] = "open" => CancelOf(u) \in bus'
      /\ \A u : FillsOf(u)' = FillsOf(u) /\ Recorded(u)' = Recorded(u) /\ PostedOf(u)' = PostedOf(u)
  BY <1>1, TakenOffKeeps
<1>3. Types'
  BY <1>1, <1>2 DEF SettleInv, Types
<1>4. PlaceInv'
  BY <1>1, <1>2 DEF SettleInv, PlaceInv, At
<1>5. \A p \in Procs : Cur(p)' = Cur(p) /\ \A u : Writes(p, u)' = Writes(p, u) /\ Unsummed(p, u)' = Unsummed(p, u)
  BY <1>1 DEF Cur, Writes, Unsummed, At
<1>6. WorkInv' /\ AckInv'
  BY <1>1, <1>5 DEF SettleInv, WorkInv, AckInv
<1>7. CancelInv'
  <2>1. \A u \in Orders : u # o => CancelOf(u) # CancelOf(o)
    BY EventsDiffer
  <2> QED
    BY <1>1, <1>2, <2>1 DEF SettleInv, CancelInv
<1>8. AheadInv'
  BY <1>1, <1>2 DEF SettleInv, AheadInv
<1>9. SumInv'
  BY <1>1, <1>2, <1>5 DEF SettleInv, SumInv
<1>10. RefreshInv'
  <2>1. \A x, u, n : Raises(x, u, n) => Raises(x, u, n)'
    BY <1>1, <1>2, <1>5 DEF Raises
  <2>2. \A x, u : Completes(x, u) => Completes(x, u)'
    BY <1>1, <1>2 DEF Completes
  <2> QED
    BY <1>1, <1>2, <1>5, <2>1, <2>2 DEF SettleInv, RefreshInv
<1> QED
  BY <1>2, <1>3, <1>4, <1>6, <1>7, <1>8, <1>9, <1>10 DEF SettleInv

\* A user's cancel comes after the engine's word that the order is off the book.
LEMMA UserCancelKeeps ==
  ASSUME SettleInv, NEW p \in Procs, NEW o \in Orders, UserCancel(p, o)
  PROVE  SettleInv'
<1>1. /\ TakenOff(o) /\ eng[o].st # "new" /\ job[p].pc = "idle"
      /\ UNCHANGED <<printed, legs, status, filled, posted, pot, freed, raced>>
  BY DEF UserCancel, At, TakenOff, CancelOf, money, tables
<1>2. /\ job'[p].pc = "close" /\ job'[p].order = NoOrder /\ job'[p].todo = <<>> /\ job'[p].cancels = {o}
      /\ job'[p].touched = {} /\ job'[p].ack = {} /\ OneJob(p) /\ job' \in [Procs -> JobType]
  <2> DEFINE j == [Idle EXCEPT !.pc = "close", !.cancels = {o}]
  <2>1. job' = [job EXCEPT ![p] = j]
    BY DEF UserCancel
  <2>2. j \in JobType
    BY IdleRests DEF JobType, Filling
  <2>3. job \in [Procs -> JobType]
    BY DEF SettleInv, Types
  <2>4. /\ j.pc = "close" /\ j.order = NoOrder /\ j.todo = <<>> /\ j.cancels = {o}
        /\ j.touched = {} /\ j.ack = {}
    BY DEF Idle
  <2> HIDE DEF j
  <2> QED
    BY <2>1, <2>2, <2>3, <2>4 DEF OneJob
<1>3. /\ BookInv' /\ EventInv' /\ MoneyInv' /\ Types'
      /\ eng'[o].st = "gone" /\ \A u \in Orders : u # o => eng'[u] = eng[u]
      /\ bus \subseteq bus' /\ bus' \subseteq bus \cup {CancelOf(o)}
      /\ eng'[o].left = eng[o].left
      /\ \A u \in Orders : eng'[u].st = "gone" /\ eng'[u].left > 0 /\ status[u] = "open" => CancelOf(u) \in bus'
      /\ \A u : FillsOf(u)' = FillsOf(u) /\ Recorded(u)' = Recorded(u) /\ PostedOf(u)' = PostedOf(u)
  BY <1>1, <1>2, TakenOffKeeps
<1>4. \A q \in Procs : q # p =>
           /\ job'[q] = job[q] /\ Cur(q)' = Cur(q)
           /\ \A u : (Writes(q, u)' <=> Writes(q, u)) /\ (Unsummed(q, u)' <=> Unsummed(q, u))
  BY <1>2, OthersStay
<1>5. \A u : ~Writes(p, u)' /\ ~Writes(p, u) /\ ~Unsummed(p, u)
  BY <1>1, <1>2 DEF Writes, Unsummed, At
<1>6. PlaceInv'
  <2>1. \A q \in Procs : job'[q].pc = "submit" => q # p
    BY <1>2
  <2>2. job'[p].order \notin Orders
    BY <1>2, OrderSettleConstants DEF NoOrder
  <2> QED
    BY <1>1, <1>3, <1>4, <2>1, <2>2 DEF SettleInv, PlaceInv, At
<1>7. WorkInv'
  BY <1>1, <1>2, <1>4 DEF SettleInv, WorkInv, Filling
<1>8. AckInv'
  BY <1>1, <1>2, <1>4 DEF SettleInv, AckInv
<1>9. CancelInv'
  <2>1. \A u \in Orders : u # o => CancelOf(u) # CancelOf(o)
    BY EventsDiffer
  <2>2. \A u \in Orders : u # o => ((\E q \in Procs : u \in job'[q].cancels) => \E q \in Procs : u \in job[q].cancels)
    BY <1>2, <1>4
  <2> QED
    BY <1>1, <1>3, <2>1, <2>2 DEF SettleInv, CancelInv
<1>10. AheadInv'
  <2>1. NoOrder # o
    BY OrderSettleConstants DEF NoOrder
  <2> QED
    BY <1>1, <1>2, <1>3, <1>4, <2>1 DEF SettleInv, AheadInv
<1>11. SumInv'
  BY <1>1, <1>3, <1>4, <1>5 DEF SettleInv, SumInv
<1>12. RefreshInv'
  <2>1. job'[p].ack = {}
    BY <1>2
  <2>2. \A x, u, n : Raises(x, u, n) => Raises(x, u, n)'
    BY <1>3, <1>4, <2>1 DEF Raises
  <2>3. \A x, u : Completes(x, u) => Completes(x, u)'
    BY <1>3, <1>4, <2>1 DEF Completes
  <2> QED
    BY <1>1, <1>3, <1>4, <1>5, <2>2, <2>3 DEF SettleInv, RefreshInv
<1> QED
  BY <1>3, <1>6, <1>7, <1>8, <1>9, <1>10, <1>11, <1>12 DEF SettleInv
\* A permutation of some resting orders is a sequence without a repetition.
LEMMA Permuted ==
  ASSUME NEW S, IsFiniteSet(S), NEW s \in SetToAllKPermutations(S)
  PROVE  s \in Seq(S) /\ \A i, j \in 1 .. Len(s) : s[i] = s[j] => i = j
<1>1. PICK T \in SUBSET S : s \in SetToSeqs(T)
  BY DEF SetToAllKPermutations
<1>2. Cardinality(T) \in Nat
  BY FS_Subset, FS_CardinalityType
<1>3. s \in [1 .. Cardinality(T) -> T] /\ \A i, j \in 1 .. Cardinality(T) : i # j => s[i] # s[j]
  BY <1>1 DEF SetToSeqs
<1>4. Len(s) = Cardinality(T) /\ s \in Seq(T)
  BY <1>2, <1>3
<1>5. s \in Seq(S)
  BY <1>3, <1>4
<1> QED
  BY <1>3, <1>4, <1>5

\* The engine makes one new match with each of the makers.
LEMMA NewMatches ==
  ASSUME Types, NEW o \in Orders, FillsOf(o) = {}, NEW makers \in Seq(Orders),
         \A i, j \in 1 .. Len(makers) : makers[i] = makers[j] => i = j,
         Range(makers) \subseteq Opposite(o), NEW fills,
         fills = [i \in 1 .. Len(makers) |-> Match(Cardinality(printed) + i, makers[i], o)],
         printed' = printed \cup Range(fills), UNCHANGED <<legs, posted>>
  PROVE  /\ fills \in Seq(Matches) /\ Len(fills) = Len(makers) /\ Range(fills) \subseteq Matches
         /\ IsFiniteSet(printed') /\ printed' \subseteq Matches
         /\ FillsOf(o)' = Range(fills) /\ Cardinality(FillsOf(o)') = Len(makers)
         /\ \A u \in Range(makers) : Cardinality(FillsOf(u)') = Cardinality(FillsOf(u)) + 1
         /\ \A u \in Orders : u # o /\ u \notin Range(makers) => FillsOf(u)' = FillsOf(u)
         /\ \A u : FillsOf(u) \subseteq FillsOf(u)' /\ Recorded(u)' = Recorded(u) /\ PostedOf(u)' = PostedOf(u)
<1>1. Len(makers) \in Nat /\ Cardinality(printed) \in Nat /\ DOMAIN fills = 1 .. Len(makers)
      /\ \A i \in 1 .. Len(makers) : fills[i] = Match(Cardinality(printed) + i, makers[i], o)
  BY FS_CardinalityType DEF Types
<1>2. \A i \in 1 .. Len(makers) : /\ fills[i].mk = makers[i] /\ fills[i].tk = o
                                  /\ makers[i] \in Range(makers) /\ makers[i] \in Orders
  BY <1>1 DEF Match, Range
<1>3. \A i \in 1 .. Len(makers) : fills[i] \in Matches
  <2> SUFFICES ASSUME NEW i \in 1 .. Len(makers) PROVE fills[i] \in Matches
    OBVIOUS
  <2>1. makers[i] \in Opposite(o) /\ makers[i] \in Orders
    BY <1>2
  <2>2. makers[i] \in Sells <=> o \in Buys
    BY <2>1, OrderSettleConstants DEF Opposite, Orders
  <2>3. Cardinality(printed) + i \in Nat
    BY <1>1
  <2> QED
    BY <1>1, <2>1, <2>2, <2>3 DEF Match, Matches
<1>4. fills \in Seq(Matches) /\ Len(fills) = Len(makers)
  <2>1. fills \in [1 .. Len(makers) -> Matches]
    BY <1>1, <1>3
  <2> QED
    BY <1>1, <2>1
<1>5. \A x : x \in Range(fills) <=> \E i \in 1 .. Len(makers) : x = fills[i]
  BY <1>1 DEF Range
<1>6. Range(fills) \subseteq Matches /\ \A x \in Range(fills) : x \notin printed
  <2>1. \A x \in Range(fills) : x \in Matches /\ x.tk = o
    BY <1>2, <1>3, <1>5
  <2> QED
    BY <2>1 DEF FillsOf
<1>7. IsFiniteSet(Range(fills)) /\ Cardinality(Range(fills)) = Len(makers)
  <2>1. IsFiniteSet(1 .. Len(makers)) /\ Cardinality(1 .. Len(makers)) = Len(makers)
    <3> PICK n \in Nat : n = Len(makers)
      BY <1>1
    <3>1. 1 \in Int /\ n \in Int
      OBVIOUS
    <3>2. IsFiniteSet(1 .. n) /\ Cardinality(1 .. n) = IF 1 > n THEN 0 ELSE n - 1 + 1
      BY <3>1, FS_Interval, Zenon
    <3> QED
      BY <3>2
  <2>2. \A i, j \in 1 .. Len(makers) : fills[i] = fills[j] => i = j
    BY <1>2
  <2>3. fills \in Bijection(1 .. Len(makers), Range(fills))
    BY <1>1, <1>5, <2>2 DEF Bijection, Injection, Surjection, IsInjective
  <2>4. ExistsBijection(1 .. Len(makers), Range(fills))
    BY <2>3 DEF ExistsBijection
  <2> QED
    BY <2>1, <2>4, FS_Bijection
<1>8. IsFiniteSet(printed') /\ printed' \subseteq Matches
  BY <1>6, <1>7, FS_Union DEF Types
<1>9. FillsOf(o)' = Range(fills)
  <2>1. \A x \in Range(fills) : x.tk = o
    BY <1>2, <1>5
  <2> QED
    BY <2>1 DEF FillsOf
<1>10. ASSUME NEW u \in Range(makers) PROVE Cardinality(FillsOf(u)') = Cardinality(FillsOf(u)) + 1
  <2>1. PICK i \in 1 .. Len(makers) : makers[i] = u
    BY <1>1 DEF Range
  <2>2. u # o
    BY <2>1, <1>2, <1>3, TwoSides
  <2>3. FillsOf(u)' = FillsOf(u) \cup {fills[i]}
    <3>1. \A x \in Range(fills) : u \in {x.mk, x.tk} <=> x = fills[i]
      <4> SUFFICES ASSUME NEW j \in 1 .. Len(makers) PROVE u \in {fills[j].mk, fills[j].tk} <=> fills[j] = fills[i]
        BY <1>5
      <4> QED
        BY <1>2, <2>1, <2>2
    <3>2. fills[i] \in Range(fills)
      BY <1>5
    <3> QED
      BY <3>1, <3>2 DEF FillsOf
  <2>4. fills[i] \notin FillsOf(u)
    BY <1>5, <1>6 DEF FillsOf
  <2>5. IsFiniteSet(FillsOf(u))
    <3>1. FillsOf(u) \subseteq printed
      BY DEF FillsOf
    <3> QED
      BY <3>1, FS_Subset DEF Types
  <2>6. Cardinality(FillsOf(u) \cup {fills[i]}) = Cardinality(FillsOf(u)) + 1
    BY <2>4, <2>5, FS_AddElement
  <2> QED
    BY <2>3, <2>6
<1>11. ASSUME NEW u \in Orders, u # o, u \notin Range(makers) PROVE FillsOf(u)' = FillsOf(u)
  <2>1. \A x \in Range(fills) : u \notin {x.mk, x.tk}
    BY <1>2, <1>5, <1>11
  <2> QED
    BY <2>1 DEF FillsOf
<1>12. \A u : FillsOf(u) \subseteq FillsOf(u)' /\ Recorded(u)' = Recorded(u) /\ PostedOf(u)' = PostedOf(u)
  <2> TAKE u
  <2>1. FillsOf(u) \subseteq FillsOf(u)' /\ \A x \in FillsOf(u)' : x \in FillsOf(u) \/ x \in Range(fills)
    BY DEF FillsOf
  <2>2. \A x \in Range(fills) : x \notin posted /\ LegAt(x, u) \notin legs
    <3>1. \A l \in legs : l.of \in printed
      BY DEF Types
    <3>2. \A x : LegAt(x, u).of = x
      BY DEF LegAt, Leg
    <3> QED
      BY <1>6, <3>1, <3>2 DEF Types
  <2> QED
    BY <2>1, <2>2 DEF Recorded, PostedOf
<1> QED
  BY <1>4, <1>6, <1>7, <1>8, <1>9, <1>10, <1>11, <1>12
\* A submission's matches are all the order has, and it settles them itself.
LEMMA SubmitKeeps ==
  ASSUME SettleInv, NEW p \in Procs, At(p, "submit"), NEW makers \in SetToAllKPermutations(Live),
         NEW pulled \in SUBSET Live, NEW rests \in BOOLEAN, Submit(p, makers, pulled, rests)
  PROVE  SettleInv'
<1> PICK o : o = job[p].order
  OBVIOUS
<1> PICK fills : fills = [i \in 1 .. Len(makers) |-> Match(Cardinality(printed) + i, makers[i], o)]
  OBVIOUS
<1> PICK left : left = eng[o].left - Len(makers)
  OBVIOUS
<1> PICK ended : ended = pulled \cup (IF left > 0 /\ ~rests THEN {o} ELSE {})
  OBVIOUS
<1> PICK mates : mates = Range(makers)
  OBVIOUS
<1>1. /\ job[p].pc = "submit" /\ o \in Orders /\ eng[o].st = "new" /\ FillsOf(o) = {} /\ eng[o].left \in Nat
      /\ job[p].ack = {} /\ job[p].cancels = {} /\ job[p].todo = <<>>
      /\ \A q \in Procs : job[q].order = o => p = q
  BY DEF At, SettleInv, PlaceInv, BookInv, WorkInv, Types, Filling
<1>2. /\ mates \subseteq Live \cap Opposite(o) /\ Len(makers) <= eng[o].left
      /\ pulled \subseteq (Live \cap Opposite(o)) \ mates
      /\ printed' = printed \cup Range(fills)
      /\ bus' = bus \cup {FillOf(x) : x \in Range(fills)} \cup {CancelOf(q) : q \in ended}
      /\ job' = [job EXCEPT ![p] =
           [Idle EXCEPT !.pc = First(fills), !.order = o, !.todo = fills, !.cancels = ended,
                        !.touched = (mates \cup {o}) \ ended]]
      /\ UNCHANGED <<legs, status, filled, posted, pot, freed, raced>>
  BY DEF Submit, FillOf, CancelOf, money, tables
<1>3. eng' = [q \in Orders |->
                CASE q = o          -> [st |-> IF left > 0 /\ rests THEN "live" ELSE "gone", left |-> left]
                  [] q \in mates    -> [st |-> IF eng[q].left > 1 THEN "live" ELSE "gone", left |-> eng[q].left - 1]
                  [] q \in pulled   -> [eng[q] EXCEPT !.st = "gone"]
                  [] OTHER          -> eng[q]]
  BY DEF Submit
<1>4. /\ \A u \in mates \cup pulled : u \in Orders /\ u # o /\ eng[u].st = "live" /\ eng[u].left > 0 /\ eng[u].left \in Nat
      /\ mates \cap pulled = {}
  BY <1>1, <1>2 DEF Live, SettleInv, BookInv, Types
<1>5. makers \in Seq(Orders) /\ (\A i, j \in 1 .. Len(makers) : makers[i] = makers[j] => i = j) /\ Len(makers) \in Nat
  <2>1. Live \subseteq Orders /\ IsFiniteSet(Live)
    <3>1. Live \subseteq Orders
      BY DEF Live
    <3> QED
      BY <3>1, OrderSettleConstants, FS_Subset
  <2>2. makers \in Seq(Live) /\ \A i, j \in 1 .. Len(makers) : makers[i] = makers[j] => i = j
    BY <2>1, Permuted
  <2> QED
    BY <2>1, <2>2
<1>6. /\ fills \in Seq(Matches) /\ Len(fills) = Len(makers) /\ Range(fills) \subseteq Matches
      /\ IsFiniteSet(printed') /\ printed' \subseteq Matches
      /\ FillsOf(o)' = Range(fills) /\ Cardinality(FillsOf(o)') = Len(makers)
      /\ \A u \in mates : Cardinality(FillsOf(u)') = Cardinality(FillsOf(u)) + 1
      /\ \A u \in Orders : u # o /\ u \notin mates => FillsOf(u)' = FillsOf(u)
      /\ \A u : FillsOf(u) \subseteq FillsOf(u)' /\ Recorded(u)' = Recorded(u) /\ PostedOf(u)' = PostedOf(u)
  <2>1. /\ Types /\ o \in Orders /\ FillsOf(o) = {} /\ makers \in Seq(Orders)
        /\ \A i, j \in 1 .. Len(makers) : makers[i] = makers[j] => i = j
        /\ Range(makers) \subseteq Opposite(o) /\ printed' = printed \cup Range(fills)
        /\ UNCHANGED <<legs, posted>>
    BY <1>1, <1>2, <1>5 DEF SettleInv
  <2>2. fills = [i \in 1 .. Len(makers) |-> Match(Cardinality(printed) + i, makers[i], o)]
    OBVIOUS
  <2>3. /\ fills \in Seq(Matches) /\ Len(fills) = Len(makers) /\ Range(fills) \subseteq Matches
        /\ IsFiniteSet(printed') /\ printed' \subseteq Matches
        /\ FillsOf(o)' = Range(fills) /\ Cardinality(FillsOf(o)') = Len(makers)
        /\ \A u \in Range(makers) : Cardinality(FillsOf(u)') = Cardinality(FillsOf(u)) + 1
        /\ \A u \in Orders : u # o /\ u \notin Range(makers) => FillsOf(u)' = FillsOf(u)
        /\ \A u : FillsOf(u) \subseteq FillsOf(u)' /\ Recorded(u)' = Recorded(u) /\ PostedOf(u)' = PostedOf(u)
    BY <2>1, <2>2, NewMatches
  <2> QED
    BY <2>3
<1>7. left \in Nat /\ left = eng[o].left - Len(makers) /\ ended \subseteq Orders
  BY <1>1, <1>2, <1>4, <1>5
<1>8. /\ eng' \in [Orders -> [st : {"new", "live", "gone"}, left : Nat]]
      /\ eng'[o].left = left /\ eng'[o].st = IF left > 0 /\ rests THEN "live" ELSE "gone"
      /\ \A u \in mates : eng'[u].left = eng[u].left - 1 /\ eng'[u].st = IF eng[u].left > 1 THEN "live" ELSE "gone"
      /\ \A u \in pulled : eng'[u].left = eng[u].left /\ eng'[u].st = "gone"
      /\ \A u \in Orders : u # o /\ u \notin mates \cup pulled => eng'[u] = eng[u]
  <2>1. eng \in [Orders -> [st : {"new", "live", "gone"}, left : Nat]]
    BY DEF SettleInv, Types
  <2>2. /\ eng'[o] = [st |-> IF left > 0 /\ rests THEN "live" ELSE "gone", left |-> left]
        /\ \A u \in mates : eng'[u] = [st |-> IF eng[u].left > 1 THEN "live" ELSE "gone", left |-> eng[u].left - 1]
        /\ \A u \in pulled : eng'[u] = [eng[u] EXCEPT !.st = "gone"]
        /\ \A u \in Orders : u # o /\ u \notin mates \cup pulled => eng'[u] = eng[u]
    BY <1>1, <1>3, <1>4
  <2>3. \A u \in mates : eng[u].left - 1 \in Nat
    BY <1>4
  <2>4. \A u \in Orders : eng'[u] \in [st : {"new", "live", "gone"}, left : Nat]
    <3> SUFFICES ASSUME NEW u \in Orders PROVE eng'[u] \in [st : {"new", "live", "gone"}, left : Nat]
      OBVIOUS
    <3>1. CASE u = o
      BY <1>7, <2>2, <3>1
    <3>2. CASE u \in mates
      <4>1. eng[u].left - 1 \in Nat /\ eng'[u] = [st |-> IF eng[u].left > 1 THEN "live" ELSE "gone", left |-> eng[u].left - 1]
        BY <2>2, <2>3, <3>2
      <4> PICK st : st = IF eng[u].left > 1 THEN "live" ELSE "gone"
        OBVIOUS
      <4>2. st \in {"live", "gone"}
        OBVIOUS
      <4> QED
        BY <4>1, <4>2
    <3>3. CASE u \in pulled
      BY <2>1, <2>2, <3>3
    <3>4. CASE u # o /\ u \notin mates \cup pulled
      BY <2>1, <2>2, <3>4
    <3> QED
      BY <3>1, <3>2, <3>3, <3>4
  <2>5. eng' \in [Orders -> [st : {"new", "live", "gone"}, left : Nat]]
    BY <1>3, <2>4
  <2>6. \A u \in pulled : eng[u] \in [st : {"new", "live", "gone"}, left : Nat]
    BY <1>4, <2>1
  <2>7. \A u \in pulled : eng'[u].left = eng[u].left /\ eng'[u].st = "gone"
    BY <2>2, <2>6
  <2>8. eng'[o].left = left /\ eng'[o].st = IF left > 0 /\ rests THEN "live" ELSE "gone"
    BY <2>2
  <2>9. \A u \in mates : eng'[u].left = eng[u].left - 1 /\ eng'[u].st = IF eng[u].left > 1 THEN "live" ELSE "gone"
    <3> TAKE u \in mates
    <3>1. eng'[u] = [st |-> IF eng[u].left > 1 THEN "live" ELSE "gone", left |-> eng[u].left - 1]
      BY <2>2
    <3> QED
      BY <3>1
  <2> QED
    BY <2>2, <2>5, <2>7, <2>8, <2>9
<1>9. /\ job'[p].pc = First(fills) /\ job'[p].order = o /\ job'[p].todo = fills /\ job'[p].cancels = ended
      /\ job'[p].touched = (mates \cup {o}) \ ended /\ job'[p].ack = {}
      /\ OneJob(p) /\ job' \in [Procs -> JobType]
  <2> DEFINE j == [Idle EXCEPT !.pc = First(fills), !.order = o, !.todo = fills, !.cancels = ended,
                               !.touched = (mates \cup {o}) \ ended]
  <2>1. job' = [job EXCEPT ![p] = j] /\ job \in [Procs -> JobType]
    BY <1>2 DEF SettleInv, Types
  <2>2. First(fills) \in {"maker", "close"} /\ (mates \cup {o}) \ ended \subseteq Orders
    BY <1>1, <1>4 DEF First
  <2>3. /\ j.pc = First(fills) /\ j.order = o /\ j.todo = fills /\ j.cancels = ended
        /\ j.touched = (mates \cup {o}) \ ended /\ j.ack = {}
    BY DEF Idle
  <2>4. j \in JobType
    <3> PICK pc, touched : pc = First(fills) /\ touched = (mates \cup {o}) \ ended
      OBVIOUS
    <3>1. j = [Idle EXCEPT !.pc = pc, !.order = o, !.todo = fills, !.cancels = ended, !.touched = touched]
      OBVIOUS
    <3>2. /\ fills \in Seq(Matches) /\ ended \in SUBSET Orders /\ o \in Orders
          /\ pc \in {"maker", "close"} /\ touched \in SUBSET Orders
      BY <1>1, <1>6, <1>7, <2>2
    <3>3. [Idle EXCEPT !.pc = pc, !.order = o, !.todo = fills, !.cancels = ended, !.touched = touched]
            \in JobType
      BY <3>2 DEF JobType, Filling, Idle
    <3> HIDE DEF j
    <3> QED
      BY <3>1, <3>3
  <2> HIDE DEF j
  <2> QED
    BY <2>1, <2>3, <2>4 DEF OneJob
<1>10. First(fills) = (IF fills = <<>> THEN "close" ELSE "maker")
  BY DEF First
<1>11. \A q \in Procs : q # p =>
           /\ job'[q] = job[q] /\ Cur(q)' = Cur(q)
           /\ \A u : (Writes(q, u)' <=> Writes(q, u)) /\ (Unsummed(q, u)' <=> Unsummed(q, u))
  BY <1>9, OthersStay
<1>12. \A u : ~Writes(p, u)' /\ ~Writes(p, u)
  BY <1>1, <1>9, <1>10 DEF Writes, At
<1>13. \A u \in Orders : eng[u].st = "gone" => u # o /\ u \notin mates \cup pulled /\ eng'[u] = eng[u] /\ FillsOf(u)' = FillsOf(u)
  BY <1>1, <1>4, <1>6, <1>8
<1>14. bus \subseteq bus' /\ (\A x \in Range(fills) : FillOf(x) \in bus') /\ (\A u \in ended : CancelOf(u) \in bus')
  BY <1>2
<1>15. Types'
  <2>1. bus' \subseteq Events
    <3>1. \A x \in Range(fills) : FillOf(x) \in Events
      BY <1>6, EventsDiffer
    <3>2. \A u \in ended : CancelOf(u) \in Events
      BY <1>7, EventsDiffer
    <3> QED
      BY <1>2, <3>1, <3>2 DEF SettleInv, Types
  <2>2. posted' \subseteq printed' /\ legs' \subseteq [of : printed', role : {"maker", "taker"}]
    BY <1>2 DEF SettleInv, Types
  <2> QED
    BY <1>2, <1>6, <1>8, <1>9, <2>1, <2>2 DEF SettleInv, Types
<1>16. BookInv'
  <2> SUFFICES ASSUME NEW u \in Orders
      PROVE  /\ Cardinality(FillsOf(u)') + eng'[u].left = Qty[u]
             /\ eng'[u].st = "new" => FillsOf(u)' = {}
             /\ eng'[u].st = "live" => eng'[u].left > 0
    BY DEF BookInv
  <2>1. /\ Cardinality(FillsOf(u)) + eng[u].left = Qty[u]
        /\ eng[u].st = "new" => FillsOf(u) = {}
        /\ eng[u].st = "live" => eng[u].left > 0
        /\ Cardinality(FillsOf(u)) \in Nat /\ eng[u].left \in Nat
    BY MatchSizes DEF SettleInv, BookInv, Types
  <2>2. CASE u = o
    <3>1. Cardinality(FillsOf(o)) = 0
      BY <1>1, FS_EmptySet
    <3>2. eng[o].left = Qty[o] /\ Qty[o] \in Nat
      BY <2>1, <2>2, <3>1, OrderSettleConstants
    <3>3. Cardinality(FillsOf(o)') + eng'[o].left = Qty[o]
      <4>1. Cardinality(FillsOf(o)') = Len(makers) /\ eng'[o].left = left
        BY <1>6, <1>8
      <4>2. left = eng[o].left - Len(makers) /\ Len(makers) \in Nat
        BY <1>5, <1>7
      <4> QED
        BY <3>2, <4>1, <4>2
    <3>4. eng'[o].st # "new" /\ (eng'[o].st = "live" => eng'[o].left > 0)
      BY <1>8
    <3> QED
      BY <2>2, <3>3, <3>4
  <2>3. CASE u \in mates
    <3>1. Cardinality(FillsOf(u)') = Cardinality(FillsOf(u)) + 1
      BY <1>6, <2>3
    <3>2. eng'[u].left = eng[u].left - 1 /\ eng'[u].st = (IF eng[u].left > 1 THEN "live" ELSE "gone")
      BY <1>8, <2>3
    <3>3. Cardinality(FillsOf(u)') + eng'[u].left = Qty[u]
      BY <2>1, <3>1, <3>2, OrderSettleConstants
    <3>4. eng'[u].st # "new" /\ (eng'[u].st = "live" => eng'[u].left > 0)
      BY <2>1, <3>2
    <3> QED
      BY <3>3, <3>4
  <2>4. CASE u \in pulled
    BY <1>4, <1>6, <1>8, <2>1, <2>4
  <2>5. CASE u # o /\ u \notin mates \cup pulled
    BY <1>6, <1>8, <2>1, <2>5
  <2> QED
    BY <2>2, <2>3, <2>4, <2>5
<1>17. PlaceInv'
  <2> SUFFICES ASSUME NEW q \in Procs, job'[q].pc = "submit"
      PROVE  /\ job'[q].order \in Orders /\ eng'[job'[q].order].st = "new"
             /\ \A r \in Procs : job'[r].order = job'[q].order => q = r
    BY DEF PlaceInv, At
  <2>1. q # p
    BY <1>9, <1>10
  <2>2. /\ job[q].pc = "submit" /\ job'[q].order = job[q].order
        /\ job[q].order \in Orders /\ eng[job[q].order].st = "new"
        /\ \A r \in Procs : job[r].order = job[q].order => q = r
    BY <1>11, <2>1 DEF SettleInv, PlaceInv, At
  <2>3. \A r \in Procs : job'[r].order = job[r].order
    BY <1>9, <1>11
  <2>4. job[q].order # o /\ job[q].order \notin mates \cup pulled
    BY <1>1, <1>4, <2>1, <2>2
  <2> QED
    BY <1>8, <2>2, <2>3, <2>4
<1>18. WorkInv'
  <2>1. First(fills) \in Filling <=> fills # <<>>
    BY <1>10 DEF Filling
  <2>2. \A i \in DOMAIN fills : fills[i] \in printed'
    BY <1>2 DEF Range
  <2>3. First(fills) \notin Filling \ {"maker"} /\ First(fills) \notin {"idle", "submit"}
    BY <1>10 DEF Filling
  <2>4. printed \subseteq printed' /\ legs' = legs
    BY <1>2
  <2>5. WorkInv
    BY DEF SettleInv
  <2>6. /\ job'[p].pc \in Filling <=> job'[p].todo # <<>>
        /\ \A i \in DOMAIN job'[p].todo : job'[p].todo[i] \in printed'
        /\ job'[p].pc \notin Filling \ {"maker"} /\ job'[p].pc \notin {"idle", "submit"}
    BY <1>9, <2>1, <2>2, <2>3
  <2>7. \A q \in Procs : q # p => job'[q] = job[q] /\ Cur(q)' = Cur(q)
    BY <1>11
  <2> QED
    BY <2>4, <2>5, <2>6, <2>7 DEF WorkInv
<1>19. AckInv'
  <2>1. AckInv
    BY DEF SettleInv
  <2>2. job'[p].ack = {} /\ \A q \in Procs : q # p => job'[q] = job[q]
    BY <1>9, <1>11
  <2>3. UNCHANGED <<posted, status>>
    BY <1>2
  <2> QED
    BY <2>1, <2>2, <2>3 DEF AckInv
<1>20. EventInv'
  <2>1. \A e \in bus' : e.kind = "fill" => e.of \in printed'
    <3>1. \A x \in Range(fills) : FillOf(x).of \in printed'
      BY <1>2, EventsDiffer
    <3>2. \A u : CancelOf(u).kind # "fill"
      BY EventsDiffer
    <3> QED
      BY <1>2, <3>1, <3>2 DEF SettleInv, EventInv
  <2> QED
    BY <1>2, <1>14, <2>1 DEF SettleInv, EventInv
<1>21. CancelInv'
  <2> SUFFICES ASSUME NEW u \in Orders
      PROVE  /\ CancelOf(u) \in bus' \/ (\E q \in Procs : u \in job'[q].cancels) => eng'[u].st = "gone"
             /\ eng'[u].st = "gone" /\ eng'[u].left > 0 /\ status[u] = "open" => CancelOf(u) \in bus'
    BY <1>2 DEF CancelInv
  <2>1. u \in ended => eng'[u].st = "gone"
    BY <1>4, <1>8
  <2>2. CancelOf(u) \in bus' => CancelOf(u) \in bus \/ u \in ended
    <3>1. \A x \in Range(fills) : CancelOf(u) # FillOf(x)
      BY EventsDiffer
    <3>2. \A q \in ended : CancelOf(u) = CancelOf(q) => u = q
      BY EventsDiffer
    <3>3. bus' = bus \cup {FillOf(x) : x \in Range(fills)} \cup {CancelOf(q) : q \in ended}
      BY <1>2
    <3> QED
      BY <3>1, <3>2, <3>3
  <2>3. ASSUME NEW q \in Procs, u \in job'[q].cancels PROVE eng'[u].st = "gone"
    <3>1. CASE q = p
      BY <1>9, <2>1, <2>3, <3>1
    <3>2. CASE q # p
      BY <1>11, <1>13, <2>3, <3>2 DEF SettleInv, CancelInv
    <3> QED
      BY <3>1, <3>2
  <2>4. CancelOf(u) \in bus' => eng'[u].st = "gone"
    BY <1>13, <2>1, <2>2 DEF SettleInv, CancelInv
  <2>5. ASSUME eng'[u].st = "gone", eng'[u].left > 0, status[u] = "open" PROVE CancelOf(u) \in bus'
    <3>1. CASE u = o
      BY <1>8, <1>14, <2>5, <3>1
    <3>2. CASE u \in mates
      BY <1>4, <1>8, <2>5, <3>2
    <3>3. CASE u \in pulled
      BY <1>14, <3>3
    <3>4. CASE u # o /\ u \notin mates \cup pulled
      BY <1>8, <1>14, <2>5, <3>4 DEF SettleInv, CancelInv
    <3> QED
      BY <3>1, <3>2, <3>3, <3>4
  <2> QED
    BY <2>3, <2>4, <2>5
<1>22. AheadInv'
  <2> SUFFICES ASSUME NEW q \in Procs, NEW u \in job'[q].cancels, job'[q].ack # {} \/ job'[q].order = u
      PROVE  status[u] # "open" \/ FillsOf(u)' \subseteq Recorded(u) \cup Range(job'[q].todo)
    BY <1>2, <1>6 DEF AheadInv
  <2>1. CASE q = p
    BY <1>6, <1>9, <2>1
  <2>2. CASE q # p
    <3>1. u \in Orders /\ eng[u].st = "gone" /\ u \in job[q].cancels /\ job'[q] = job[q]
      BY <1>11, <2>2, JobFields DEF SettleInv, CancelInv
    <3> QED
      BY <1>13, <3>1 DEF SettleInv, AheadInv
  <2> QED
    BY <2>1, <2>2
<1>23. MoneyInv'
  BY <1>2, <1>6, <1>13 DEF SettleInv, MoneyInv
<1>24. SumInv'
  BY <1>2, <1>6, <1>11, <1>12 DEF SettleInv, SumInv
<1>25. RefreshInv'
  <2>1. \A x, u, n : Raises(x, u, n) => Raises(x, u, n)'
    BY <1>9, <1>11, <1>14 DEF Raises
  <2>2. \A x, u : Completes(x, u) => Completes(x, u)'
    BY <1>9, <1>11, <1>14 DEF Completes
  <2> QED
    <3> SUFFICES ASSUME NEW u \in Orders, "refresh" \notin raced[u]
        PROVE  /\ \A r \in Procs : Writes(r, u)' =>
                    filled[u] <= job'[r].num /\ \A q \in Procs : Writes(q, u)' => r = q
               /\ \A n \in 0 .. Qty[u] : filled[u] <= n /\ n < Cardinality(Recorded(u)) =>
                    \E y \in FillsOf(u)' : Raises(y, u, n)'
               /\ filled[u] >= Qty[u] /\ status[u] = "open" => \E y \in FillsOf(u)' : Completes(y, u)'
      BY <1>2, <1>6 DEF RefreshInv
    <3>1. /\ \A r \in Procs : Writes(r, u) =>
               filled[u] <= job[r].num /\ \A q \in Procs : Writes(q, u) => r = q
          /\ \A n \in 0 .. Qty[u] : filled[u] <= n /\ n < Cardinality(Recorded(u)) =>
               \E y \in FillsOf(u) : Raises(y, u, n)
          /\ filled[u] >= Qty[u] /\ status[u] = "open" => \E y \in FillsOf(u) : Completes(y, u)
      BY DEF SettleInv, RefreshInv
    <3>2. \A r \in Procs : Writes(r, u)' =>
            filled[u] <= job'[r].num /\ \A q \in Procs : Writes(q, u)' => r = q
      BY <1>11, <1>12, <3>1
    <3>3. FillsOf(u) \subseteq FillsOf(u)'
      BY <1>6
    <3> QED
      BY <2>1, <2>2, <3>1, <3>2, <3>3
<1> QED
  BY <1>15, <1>16, <1>17, <1>18, <1>19, <1>20, <1>21, <1>22, <1>23, <1>24, <1>25 DEF SettleInv
-----------------------------------------------------------------------------
(* The invariant, and what follows from it                                 *)

LEMMA SettleKeeps ==
  ASSUME SettleInv, NEW p \in Procs, Settle(p)
  PROVE  SettleInv'
<1>1. CASE InsertFillLeg(p, "maker", "taker")
  BY <1>1, InsertFillLegKeeps
<1>2. CASE InsertFillLeg(p, "taker", "sumMaker")
  BY <1>2, InsertFillLegKeeps
<1>3. CASE SumFills(p, "sumMaker", Cur(p).mk, "writeMaker")
  BY <1>3, SumFillsKeeps
<1>4. CASE WriteFilled(p, "writeMaker", Cur(p).mk, "sumTaker")
  BY <1>4, WriteFilledKeeps
<1>5. CASE SumFills(p, "sumTaker", Cur(p).tk, "writeTaker")
  BY <1>5, SumFillsKeeps
<1>6. CASE WriteFilled(p, "writeTaker", Cur(p).tk, "post")
  BY <1>6, WriteFilledKeeps
<1>7. CASE PostFill(p)
  BY <1>7, PostFillKeeps
<1> QED
  BY <1>1, <1>2, <1>3, <1>4, <1>5, <1>6, <1>7 DEF Settle

LEMMA NextKeeps ==
  ASSUME SettleInv, Next
  PROVE  SettleInv'
<1>1. CASE \E o \in Orders : Expire(o)
  BY <1>1, ExpireKeeps
<1>2. CASE \E p \in Procs : ProcStep(p) \/ Crash(p) \/ \E o \in Orders : CrashInFinalize(p, o) \/ UserCancel(p, o)
  <2> PICK p \in Procs : ProcStep(p) \/ Crash(p) \/ \E o \in Orders : CrashInFinalize(p, o) \/ UserCancel(p, o)
    BY <1>2
  <2>1. CASE Crash(p)
    BY <2>1, CrashKeeps
  <2>2. CASE \E o \in Orders : CrashInFinalize(p, o) \/ UserCancel(p, o)
    BY <2>2, CrashInFinalizeKeeps, UserCancelKeeps
  <2>3. CASE ProcStep(p)
    <3>1. CASE Settle(p)
      BY <3>1, SettleKeeps
    <3>2. CASE Done(p)
      BY <3>2, DoneKeeps
    <3>3. CASE At(p, "submit") /\ \E makers \in SetToAllKPermutations(Live), pulled \in SUBSET Live, rests \in BOOLEAN :
                 Submit(p, makers, pulled, rests)
      <4>1. PICK makers \in SetToAllKPermutations(Live), pulled \in SUBSET Live, rests \in BOOLEAN :
              Submit(p, makers, pulled, rests)
        BY <3>3
      <4> QED
        BY <3>3, <4>1, SubmitKeeps
    <3>4. CASE \E o \in Orders : Place(p, o) \/ FinalizeCancelled(p, o) \/ FinalizeIfComplete(p, o)
      BY <3>4, PlaceKeeps, FinalizeCancelledKeeps, FinalizeIfCompleteKeeps
    <3>5. CASE \E e \in bus : FillEvent(p, e) \/ CancelEvent(p, e)
      BY <3>5, FillEventKeeps, CancelEventKeeps
    <3> QED
      BY <2>3, <3>1, <3>2, <3>3, <3>4, <3>5 DEF ProcStep
  <2> QED
    BY <2>1, <2>2, <2>3
<1> QED
  BY <1>1, <1>2 DEF Next

LEMMA StutterKeeps ==
  ASSUME SettleInv, UNCHANGED vars
  PROVE  SettleInv'
<1>1. UNCHANGED <<eng, printed, cancels, posted, pot, freed, legs, status, filled, bus, job, raced, crashes>>
  BY DEF vars, engine, money, tables
<1>2. /\ BookInv' /\ EventInv' /\ MoneyInv' /\ Types'
      /\ \A o : FillsOf(o)' = FillsOf(o) /\ Recorded(o)' = Recorded(o) /\ PostedOf(o)' = PostedOf(o)
  <2>1. MayNote /\ UNCHANGED <<engine, money, tables, bus>> /\ job' \in [Procs -> JobType]
    BY <1>1 DEF MayNote, engine, money, tables, SettleInv, Types
  <2> QED
    BY <2>1, RestStays
<1>3. \A p \in Procs : Cur(p)' = Cur(p) /\ \A u : Writes(p, u)' = Writes(p, u) /\ Unsummed(p, u)' = Unsummed(p, u)
  BY <1>1 DEF Cur, Writes, Unsummed, At
<1>4. PlaceInv' /\ WorkInv' /\ AckInv'
  BY <1>1, <1>3 DEF SettleInv, PlaceInv, WorkInv, AckInv, At
<1>5. CancelInv' /\ AheadInv' /\ SumInv'
  BY <1>1, <1>2, <1>3 DEF SettleInv, CancelInv, AheadInv, SumInv
<1>6. RefreshInv'
  <2>1. \A x, o, n : Raises(x, o, n)' = Raises(x, o, n)
    BY <1>1, <1>3 DEF Raises
  <2>2. \A x, o : Completes(x, o)' = Completes(x, o)
    BY <1>1 DEF Completes
  <2> QED
    BY <1>1, <1>2, <1>3, <2>1, <2>2 DEF SettleInv, RefreshInv
<1> QED
  BY <1>2, <1>4, <1>5, <1>6 DEF SettleInv

LEMMA InitSettles ==
  ASSUME Init
  PROVE  SettleInv
<1>1. \A o : FillsOf(o) = {} /\ Recorded(o) = {} /\ PostedOf(o) = {}
  BY DEF Init, FillsOf, Recorded, PostedOf
<1>2. Cardinality({}) = 0 /\ IsFiniteSet({})
  BY FS_EmptySet
<1>3. Qty \in [Orders -> Nat \ {0}] /\ Dust \in Nat
  BY OrderSettleConstants
<1>4. \A o : Cardinality(FillsOf(o)) = 0 /\ Cardinality(Recorded(o)) = 0 /\ Cardinality(PostedOf(o)) = 0
  BY <1>1, <1>2
<1>5. \A p \in Procs : job[p] = Idle
  BY DEF Init
<1>6. Types
  <2>1. job \in [Procs -> JobType]
    BY IdleRests DEF Init
  <2>2. eng \in [Orders -> [st : {"new", "live", "gone"}, left : Nat]]
    BY <1>3 DEF Init
  <2>3. pot \in [Orders -> Nat]
    BY <1>3 DEF Init
  <2> QED
    BY <1>2, <2>1, <2>2, <2>3 DEF Init, Types
<1>7. BookInv
  BY <1>1, <1>3, <1>4 DEF Init, BookInv
<1>8. PlaceInv /\ WorkInv /\ AckInv
  BY <1>5, IdleRests DEF PlaceInv, WorkInv, AckInv, At, Filling
<1>9. EventInv
  BY DEF Init, EventInv
<1>10. CancelInv /\ AheadInv
  BY <1>5, IdleRests DEF Init, CancelInv, AheadInv
<1>11. MoneyInv
  BY <1>3, <1>4 DEF Init, MoneyInv
<1>12. \A p \in Procs : \A o : ~Writes(p, o)
  BY <1>5, IdleRests DEF Writes, At
<1>13. SumInv
  BY <1>12, <1>4 DEF Init, SumInv
<1>14. RefreshInv
  <2>1. \A o \in Orders : Cardinality(Recorded(o)) = 0 /\ filled[o] = 0 /\ Qty[o] \in Nat \ {0}
    BY <1>1, <1>2, <1>3 DEF Init
  <2> QED
    BY <1>12, <2>1 DEF RefreshInv
<1> QED
  BY <1>6, <1>7, <1>8, <1>9, <1>10, <1>11, <1>13, <1>14 DEF SettleInv

\* Whatever the interleaving of submissions, events, cancels and crashes: what is
\* recorded, booked and released of an order is a part of what the engine made of
\* it, and what is missing is on the bus.
THEOREM SettleInvariant == Spec => []SettleInv
<1>1. Init => SettleInv
  BY InitSettles
<1>2. SettleInv /\ [Next]_vars => SettleInv'
  BY NextKeeps, StutterKeeps
<1> QED
  BY <1>1, <1>2, PTL DEF Spec

\* Tables and holds agree: no order is filled past its quantity, no hold account
\* runs negative, and an order that ended keeps what its recorded fills have still
\* to take and no more (settleFill, releaseHoldOnce).
THEOREM HoldsStayConsistent == Spec => []HoldsConsistent
<1>1. SettleInv => HoldsConsistent
  <2> SUFFICES ASSUME SettleInv PROVE HoldsConsistent
    OBVIOUS
  <2>1. ASSUME NEW o \in Orders PROVE filled[o] \in 0 .. Qty[o] /\ pot[o] \in Nat /\ freed[o] \in -1 .. Qty[o] + Dust
    <3>1. /\ Cardinality(FillsOf(o)) \in Nat /\ Cardinality(Recorded(o)) \in Nat
          /\ Cardinality(PostedOf(o)) \in Nat
          /\ Cardinality(Recorded(o)) <= Cardinality(FillsOf(o))
      BY MatchSizes DEF SettleInv
    <3>2. /\ Cardinality(FillsOf(o)) + eng[o].left = Qty[o] /\ filled[o] <= Cardinality(Recorded(o))
          /\ pot[o] + Cardinality(PostedOf(o)) + (IF freed[o] >= 0 THEN freed[o] ELSE 0) = Qty[o] + Dust
      BY DEF SettleInv, BookInv, SumInv, MoneyInv
    <3>3. /\ eng[o].left \in Nat /\ filled[o] \in Nat /\ pot[o] \in Nat /\ freed[o] \in Nat \cup {-1}
          /\ Qty[o] \in Nat /\ Dust \in Nat
      BY OrderSettleConstants DEF SettleInv, Types
    <3> QED
      BY <3>1, <3>2, <3>3
  <2>2. \A x \in printed : x.seq \in Nat /\ {x.mk, x.tk} \subseteq Orders
    BY TwoSides DEF SettleInv, Types
  <2>3. TypeOK
    BY <2>1, <2>2 DEF SettleInv, Types, TypeOK
  <2>4. ASSUME NEW o \in Orders, status[o] # "open", "ahead" \notin raced[o]
        PROVE  pot[o] = Cardinality({l \in legs : LegOrder(l) = o /\ l.of \notin posted})
    <3>1. Cardinality({l \in legs : LegOrder(l) = o /\ l.of \notin posted}) = Cardinality(Recorded(o) \ posted)
      BY LegsCounted DEF SettleInv
    <3>2. /\ freed[o] >= 0 /\ Recorded(o) = FillsOf(o) /\ freed[o] = eng[o].left + Dust
          /\ pot[o] + Cardinality(PostedOf(o)) + freed[o] = Qty[o] + Dust
      BY <2>4 DEF SettleInv, MoneyInv
    <3>3. Cardinality(FillsOf(o)) + eng[o].left = Qty[o]
      BY DEF SettleInv, BookInv
    <3>4. IsFiniteSet(FillsOf(o)) /\ FillsOf(o) \ posted = FillsOf(o) \ PostedOf(o) /\ PostedOf(o) = FillsOf(o) \cap PostedOf(o)
      BY MatchSets DEF SettleInv, PostedOf
    <3>5. Cardinality(FillsOf(o) \ PostedOf(o)) = Cardinality(FillsOf(o)) - Cardinality(FillsOf(o) \cap PostedOf(o))
      BY <3>4, FS_Difference
    <3>6. /\ eng[o].left \in Nat /\ pot[o] \in Nat /\ Qty[o] \in Nat /\ Dust \in Nat
          /\ Cardinality(FillsOf(o)) \in Nat /\ Cardinality(PostedOf(o)) \in Nat
      BY OrderSettleConstants, MatchSizes DEF SettleInv, Types
    <3>7. Cardinality(Recorded(o) \ posted) = Cardinality(FillsOf(o)) - Cardinality(PostedOf(o))
      BY <3>2, <3>4, <3>5
    <3> QED
      BY <3>1, <3>2, <3>3, <3>6, <3>7
  <2> QED
    BY <2>3, <2>4 DEF HoldsConsistent, EndedHoldsOnlyFills
<1> QED
  BY <1>1, SettleInvariant, PTL

\* The hold of an order has what its unbooked matches will take, unless its release
\* was ahead of one of them.
THEOREM MatchStaysFunded == Spec => []MatchIsFunded
<1>1. SettleInv => MatchIsFunded
  <2> SUFFICES ASSUME SettleInv, NEW o \in Orders, "ahead" \notin raced[o]
      PROVE  pot[o] >= Cardinality(FillsOf(o) \ posted)
    BY DEF MatchIsFunded
  <2>1. IsFiniteSet(FillsOf(o)) /\ FillsOf(o) \ posted = FillsOf(o) \ PostedOf(o) /\ PostedOf(o) = FillsOf(o) \cap PostedOf(o)
    BY MatchSets DEF SettleInv, PostedOf
  <2>2. Cardinality(FillsOf(o) \ PostedOf(o)) = Cardinality(FillsOf(o)) - Cardinality(FillsOf(o) \cap PostedOf(o))
    BY <2>1, FS_Difference
  <2>3. Cardinality(FillsOf(o) \ posted) = Cardinality(FillsOf(o)) - Cardinality(PostedOf(o))
    BY <2>1, <2>2
  <2>4. /\ eng[o].left \in Nat /\ pot[o] \in Nat /\ Qty[o] \in Nat /\ Dust \in Nat /\ freed[o] \in Nat \cup {-1}
        /\ Cardinality(FillsOf(o)) \in Nat /\ Cardinality(PostedOf(o)) \in Nat
    BY OrderSettleConstants, MatchSizes DEF SettleInv, Types
  <2>5. /\ Cardinality(FillsOf(o)) + eng[o].left = Qty[o]
        /\ pot[o] + Cardinality(PostedOf(o)) + (IF freed[o] >= 0 THEN freed[o] ELSE 0) = Qty[o] + Dust
        /\ freed[o] >= 0 => freed[o] = eng[o].left + Dust
    BY DEF SettleInv, BookInv, MoneyInv
  <2> QED
    BY <2>3, <2>4, <2>5
<1> QED
  BY <1>1, SettleInvariant, PTL

\* When every event is handled and no process works, every match is booked, filled_qty
\* is the sum of the fills and every order the engine is done with has ended.
THEOREM QuietStaysSettled == Spec => []QuietIsSettled
<1>1. SettleInv => QuietIsSettled
  <2> SUFFICES ASSUME SettleInv, bus = {}, \A p \in Procs : At(p, "idle")
      PROVE  /\ printed \subseteq posted
             /\ \A o \in Orders : "refresh" \notin raced[o] =>
                  /\ filled[o] = SumOfFills(o)
                  /\ eng[o].st = "gone" => status[o] # "open"
    BY DEF QuietIsSettled, Quiet
  <2>1. printed \subseteq posted
    BY DEF SettleInv, EventInv
  <2>2. ASSUME NEW o \in Orders, "refresh" \notin raced[o]
        PROVE  filled[o] = SumOfFills(o) /\ (eng[o].st = "gone" => status[o] # "open")
    <3>1. \A x, n : ~Raises(x, o, n) /\ ~Completes(x, o)
      BY DEF Raises, Completes
    <3>2. SumOfFills(o) = Cardinality(Recorded(o))
      BY SumIsRecorded DEF SettleInv
    <3>3. /\ Cardinality(FillsOf(o)) \in Nat /\ Cardinality(Recorded(o)) \in Nat
          /\ Cardinality(PostedOf(o)) \in Nat
          /\ Cardinality(PostedOf(o)) <= Cardinality(Recorded(o))
          /\ Cardinality(Recorded(o)) <= Cardinality(FillsOf(o))
      BY MatchSizes DEF SettleInv
    <3>4. /\ Cardinality(FillsOf(o)) + eng[o].left = Qty[o] /\ eng[o].left \in Nat /\ filled[o] \in Nat
          /\ Qty[o] \in Nat /\ filled[o] <= Cardinality(Recorded(o))
      BY OrderSettleConstants DEF SettleInv, BookInv, SumInv, Types
    <3>5. filled[o] = Cardinality(Recorded(o))
      <4> SUFFICES ASSUME filled[o] < Cardinality(Recorded(o)) PROVE FALSE
        BY <3>3, <3>4
      <4>1. filled[o] \in 0 .. Qty[o] /\ filled[o] <= filled[o]
        BY <3>3, <3>4
      <4>2. \E x \in FillsOf(o) : Raises(x, o, filled[o])
        BY <2>2, <4>1 DEF SettleInv, RefreshInv
      <4> QED
        BY <3>1, <4>2
    <3>6. ASSUME eng[o].st = "gone", status[o] = "open" PROVE FALSE
      <4>1. eng[o].left = 0
        BY <3>4, <3>6 DEF SettleInv, CancelInv
      <4>2. PostedOf(o) = FillsOf(o)
        BY <2>1 DEF PostedOf, FillsOf
      <4>3. filled[o] >= Qty[o]
        BY <3>3, <3>4, <3>5, <4>1, <4>2
      <4> QED
        BY <2>2, <3>1, <3>6, <4>3 DEF SettleInv, RefreshInv
    <3> QED
      BY <3>2, <3>5, <3>6
  <2> QED
    BY <2>1, <2>2
<1> QED
  BY <1>1, SettleInvariant, PTL
=============================================================================
