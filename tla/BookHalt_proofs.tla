--------------------------- MODULE BookHalt_proofs ---------------------------
(***************************************************************************)
(* Safety of what halts the book: the kill switch (PostingFreeze), and the *)
(* proof of the book that throws it (Reconciliation).                      *)
(*                                                                         *)
(* The switch, for every set of callers and operators and every drain      *)
(* limit: AnnouncedInOrder is not inductive, as a drain publishes rows it  *)
(* read earlier, so the invariant also says what a caller's rows are worth *)
(* by the time they are sent (RowsComplete).                               *)
(*                                                                         *)
(* The proof of the book, for every set of replicas and operators, every   *)
(* limit of incomplete runs and every number of posts: the invariant says  *)
(* of each run that what it read belongs to one snapshot (SoundRun).       *)
(***************************************************************************)
EXTENDS PostingFreeze, Reconciliation, FiniteSetTheorems, TLAPS

-----------------------------------------------------------------------------
(* The kill switch                                                         *)

\* The broker stores, and remembers, only switches that happened.
StreamOfSwitches == /\ Announced \subseteq DOMAIN outbox
                    /\ window \subseteq Announced

\* A drain holds rows that exist, and every switch before one of its rows is
\* among its rows or already announced.
RowsComplete ==
  \A c \in Callers :
    /\ call[c].rows \subseteq DOMAIN outbox
    /\ \A r \in call[c].rows : \A s \in 1 .. r : s \in call[c].rows \cup Announced

\* The row about to be marked is one the broker accepted.
MarkedNext ==
  \A c \in Callers : call[c].pc = "mark" =>
    \A s \in call[c].rows : IsFirst(s, call[c].rows) => s \in Announced

\* Thaw commands come from operators only.
ThawsByOperators ==
  \A c \in Callers : call[c].pc = "write" /\ ~call[c].cmd.frozen =>
    call[c].cmd.actor \in Actors

\* The inductive invariant.
IInv == /\ TypeOK
        /\ OutboxIsHistory
        /\ MarkedWasAnnounced
        /\ AnnouncedInOrder
        /\ StreamOfSwitches
        /\ RowsComplete
        /\ MarkedNext
        /\ ThawsByOperators

-----------------------------------------------------------------------------
\* The rows of one read are closed downwards among the unpublished ones: the
\* LIMIT of unpublishedFreezeOutbox cuts the newest off.
LEMMA OldestIsLowest ==
  ASSUME NEW n \in Nat, NEW S \in SUBSET (1 .. n), NEW r \in Oldest(S), NEW s \in S, s < r
  PROVE  s \in Oldest(S)
<1> DEFINE Below(x) == {t \in S : t < x}
<1>1. IsFiniteSet(1 .. n)
  BY FS_Interval
<1>2. IsFiniteSet(S)
  BY <1>1, FS_Subset
<1>3. r \in S /\ s \in Int /\ r \in Int /\ \A t \in S : t \in Int
  BY DEF Oldest
<1>a. Below(r) \in SUBSET S
  OBVIOUS
<1>b. IsFiniteSet(Below(r))
  BY <1>2, <1>a, FS_Subset
<1>c. Below(s) \in SUBSET Below(r)
  <2> SUFFICES ASSUME NEW t \in S, t < s PROVE t < r
    OBVIOUS
  <2> QED
    BY <1>3
<1>4. /\ Cardinality(Below(s)) <= Cardinality(Below(r))
      /\ IsFiniteSet(Below(s))
  BY <1>b, <1>c, FS_Subset
<1>5. Cardinality(Below(s)) \in Nat /\ Cardinality(Below(r)) \in Nat
  BY <1>b, <1>4, FS_CardinalityType
<1>6. Cardinality(Below(r)) < DrainLimit
  BY DEF Oldest
<1> QED
  BY <1>4, <1>5, <1>6, FreezeConstants DEF Oldest

\* What the broker stores stays stored; an offer adds the row offered.
LEMMA OfferAnnounces ==
  ASSUME TypeOK, NEW s \in Nat \ {0}, Offer(s), window \subseteq Announced
  PROVE  /\ stream' \in Seq(Nat \ {0})
         /\ Announced' = Announced \cup {s}
         /\ \A i \in DOMAIN stream : i \in DOMAIN stream' /\ stream'[i] = stream[i]
         /\ \A i \in DOMAIN stream' : i \in DOMAIN stream \/ (i = Len(stream) + 1 /\ stream'[i] = s)
<1>1. CASE s \in window
  BY <1>1 DEF TypeOK, Offer, Announced
<1>2. CASE s \notin window
  <2>1. stream' = Append(stream, s) /\ stream \in Seq(Nat \ {0})
    BY <1>2 DEF TypeOK, Offer
  <2>2. /\ stream' \in Seq(Nat \ {0})
        /\ DOMAIN stream' = DOMAIN stream \cup {Len(stream) + 1}
        /\ \A i \in DOMAIN stream : stream'[i] = stream[i]
        /\ stream'[Len(stream) + 1] = s
    BY <2>1
  <2> QED
    BY <2>2 DEF Announced
<1> QED
  BY <1>1, <1>2

LEMMA InitIInv == Init => IInv
<1> SUFFICES ASSUME Init PROVE IInv
  OBVIOUS
<1>1. TypeOK
  BY DEF Init, TypeOK, Row, Command, Idle, Names, Why
<1> QED
  BY <1>1 DEF Init, IInv, OutboxIsHistory, MarkedWasAnnounced, AnnouncedInOrder,
    StreamOfSwitches, Announced, RowsComplete, MarkedNext, ThawsByOperators, Idle

\* Offering the first row left keeps the stream in order: every earlier switch
\* is announced already, since it is not among the rows left.
LEMMA OfferKeepsOrder ==
  ASSUME IInv, NEW c \in Callers, NEW s \in call[c].rows, IsFirst(s, call[c].rows), Offer(s),
         UNCHANGED <<freeze, outbox>>
  PROVE  /\ AnnouncedInOrder'
         /\ StreamOfSwitches'
         /\ MarkedWasAnnounced'
<1> USE DEF IInv
<1>1. s \in Nat \ {0} /\ s \in DOMAIN outbox
  BY DEF TypeOK, RowsComplete
<1>2. /\ stream' \in Seq(Nat \ {0})
      /\ Announced' = Announced \cup {s}
      /\ \A i \in DOMAIN stream : i \in DOMAIN stream' /\ stream'[i] = stream[i]
      /\ \A i \in DOMAIN stream' : i \in DOMAIN stream \/ (i = Len(stream) + 1 /\ stream'[i] = s)
  BY <1>1, OfferAnnounces DEF StreamOfSwitches
<1>3. \A q \in 1 .. s : q = s \/ q \in Announced
  BY <1>1 DEF RowsComplete, IsFirst, TypeOK
<1>4. AnnouncedInOrder'
  <2> SUFFICES ASSUME NEW i \in DOMAIN stream', NEW q \in 1 .. stream'[i]
               PROVE  \E j \in 1 .. i : stream'[j] = q
    BY DEF AnnouncedInOrder
  <2>1. CASE i \in DOMAIN stream
    <3>1. q \in 1 .. stream[i]
      BY <2>1, <1>2
    <3>2. PICK j \in 1 .. i : stream[j] = q
      BY <2>1, <3>1 DEF AnnouncedInOrder
    <3>3. j \in DOMAIN stream
      BY <2>1, <3>2 DEF TypeOK
    <3> QED
      BY <3>2, <3>3, <1>2
  <2>2. CASE i = Len(stream) + 1 /\ stream'[i] = s
    <3>1. CASE q = s
      BY <2>2, <3>1 DEF TypeOK
    <3>2. CASE q \in Announced
      <4>1. PICK j \in DOMAIN stream : stream[j] = q
        BY <3>2 DEF Announced
      <4> QED
        BY <4>1, <2>2, <1>2 DEF TypeOK
    <3> QED
      BY <3>1, <3>2, <2>2, <1>3
  <2> QED
    BY <2>1, <2>2, <1>2
<1>5. StreamOfSwitches'
  BY <1>1, <1>2 DEF StreamOfSwitches, Offer
<1>6. MarkedWasAnnounced'
  BY <1>2 DEF MarkedWasAnnounced
<1> QED
  BY <1>4, <1>5, <1>6
-----------------------------------------------------------------------------
CallRec == [pc : {"idle", "write", "drain", "publish", "mark"},
            cmd : Command, rows : SUBSET (Nat \ {0})]

\* What the invariant asks of one caller's record, given the tables.
Sound(x) ==
  /\ x \in CallRec
  /\ x.rows \subseteq DOMAIN outbox
  /\ \A r \in x.rows : \A s \in 1 .. r : s \in x.rows \cup Announced
  /\ x.pc = "mark" => \A s \in x.rows : IsFirst(s, x.rows) => s \in Announced
  /\ x.pc = "write" /\ ~x.cmd.frozen => x.cmd.actor \in Actors

\* The tables' part of the invariant.
Tables ==
  /\ freeze \in Row
  /\ outbox \in Seq([row : Row, published : BOOLEAN])
  /\ stream \in Seq(Nat \ {0})
  /\ window \in SUBSET (Nat \ {0})
  /\ OutboxIsHistory
  /\ MarkedWasAnnounced
  /\ AnnouncedInOrder
  /\ StreamOfSwitches

LEMMA IInvByParts ==
  IInv <=> Tables /\ call \in [Callers -> CallRec] /\ \A c \in Callers : Sound(call[c])
  BY DEF IInv, Tables, Sound, CallRec, TypeOK, RowsComplete, MarkedNext, ThawsByOperators

LEMMA IInvByPartsNext ==
  Tables' /\ call' \in [Callers -> CallRec] /\ (\A c \in Callers : Sound(call[c]))' => IInv'
  BY DEF IInv, Tables, Sound, CallRec, TypeOK, RowsComplete, MarkedNext, ThawsByOperators

LEMMA IdleSound == Sound(Idle) /\ Sound([Idle EXCEPT !.pc = "drain"])
  BY DEF Sound, Idle, CallRec, Command, Why, Names

\* A step that leaves the tables alone and gives its caller a sound record.
LEMMA CallOnly ==
  ASSUME IInv, NEW c \in Callers, NEW x, Sound(x), call' = [call EXCEPT ![c] = x],
         UNCHANGED <<freeze, outbox, stream, window>>
  PROVE  IInv'
<1>1. Tables'
  BY IInvByParts DEF Tables, OutboxIsHistory, MarkedWasAnnounced, AnnouncedInOrder,
    StreamOfSwitches, Announced
<1>2. call' \in [Callers -> CallRec]
  BY IInvByParts DEF Sound
<1>3. ASSUME NEW e \in Callers PROVE Sound(call[e])' <=> Sound(call'[e])
  BY DEF Sound, Announced
<1>4. \A e \in Callers : Sound(call'[e])
  BY IInvByParts
<1>5. (\A e \in Callers : Sound(call[e]))'
  BY <1>3, <1>4
<1> QED
  BY <1>1, <1>2, <1>5, IInvByPartsNext

\* Offering a row makes no other caller's record unsound.
LEMMA OfferStep ==
  ASSUME IInv, NEW c \in Callers, NEW s \in call[c].rows, IsFirst(s, call[c].rows), Offer(s),
         UNCHANGED <<freeze, outbox>>, NEW x, call' = [call EXCEPT ![c] = x],
         \/ x = Idle
         \/ x = [call[c] EXCEPT !.pc = "mark"]
  PROVE  IInv'
<1>1. s \in Nat \ {0} /\ TypeOK /\ window \subseteq Announced
  BY DEF IInv, TypeOK, StreamOfSwitches
<1>2. Announced' = Announced \cup {s} /\ stream' \in Seq(Nat \ {0})
  BY <1>1, OfferAnnounces
<1>3. Tables'
  <2>1. AnnouncedInOrder' /\ StreamOfSwitches' /\ MarkedWasAnnounced'
    BY OfferKeepsOrder
  <2>2. OutboxIsHistory' /\ window' \in SUBSET (Nat \ {0})
    BY <1>1 DEF IInv, OutboxIsHistory, Offer, TypeOK
  <2> QED
    BY <2>1, <2>2, <1>2 DEF Tables, IInv, TypeOK
<1>4. \A e \in Callers : call[e] \in CallRec /\ Sound(call[e])
  BY IInvByParts
<1>5. call' \in [Callers -> CallRec]
  BY <1>4, IdleSound, IInvByParts DEF Sound, CallRec
<1>6. ASSUME NEW e \in Callers PROVE Sound(call[e])'
  <2>1. CASE e # c
    <3>1. call'[e] = call[e]
      BY <2>1, <1>4
    <3> QED
      BY <3>1, <1>2, <1>4 DEF Sound
  <2>2. CASE e = c /\ x = Idle
    <3>1. call'[e] = Idle
      BY <2>2, IInvByParts
    <3> QED
      BY <3>1, <1>5, IdleSound DEF Sound, Idle
  <2>3. CASE e = c /\ x = [call[c] EXCEPT !.pc = "mark"]
    <3>1. /\ call'[e].rows = call[e].rows /\ call'[e].pc = "mark"
          /\ call'[e] \in CallRec
      BY <2>3, <1>4, <1>5, IInvByParts DEF CallRec
    <3>2. \A q \in call[e].rows : IsFirst(q, call[e].rows) => q = s
      BY <2>3, <1>1, <1>4 DEF IsFirst, CallRec
    <3> QED
      BY <3>1, <3>2, <1>2, <1>4 DEF Sound
  <2> QED
    BY <2>1, <2>2, <2>3
<1> QED
  BY <1>3, <1>5, <1>6, IInvByPartsNext

\* A switch: the row and its intent are written together.
LEMMA SwitchStep ==
  ASSUME IInv, NEW c \in Callers, call[c].pc = "write", Moves(call[c].cmd),
         freeze' = NewRow(call[c].cmd),
         outbox' = Append(outbox, [row |-> NewRow(call[c].cmd), published |-> FALSE]),
         Drain(c), UNCHANGED <<stream, window>>
  PROVE  IInv'
<1> DEFINE n == Len(outbox)
           row == NewRow(call[c].cmd)
<1>1. Tables /\ \A e \in Callers : call[e] \in CallRec /\ Sound(call[e])
  BY IInvByParts
<1>2. row \in Row /\ row.frozen = ~freeze.frozen
  BY <1>1 DEF CallRec, Command, Row, NewRow, Moves, Tables
<1>3. /\ n \in Nat
      /\ outbox' \in Seq([row : Row, published : BOOLEAN])
      /\ Len(outbox') = n + 1 /\ DOMAIN outbox = 1 .. n /\ DOMAIN outbox' = 1 .. n + 1
      /\ \A s \in 1 .. n : outbox'[s] = outbox[s]
      /\ outbox'[n + 1] = [row |-> row, published |-> FALSE]
  <2>1. outbox \in Seq([row : Row, published : BOOLEAN])
    BY <1>1 DEF Tables
  <2>2. [row |-> row, published |-> FALSE] \in [row : Row, published : BOOLEAN]
    BY <1>2
  <2> HIDE DEF row
  <2> QED
    BY <2>1, <2>2 DEF row
<1>4. OutboxIsHistory'
  <2>1. row.frozen = ((n + 1) % 2 = 1)
    <3>1. CASE n = 0
      <4>1. outbox = <<>> /\ ~freeze.frozen
        BY <3>1, <1>1 DEF Tables, OutboxIsHistory
      <4> QED
        BY <4>1, <3>1, <1>2
    <3>2. CASE n # 0
      <4>1. outbox[n].row = freeze /\ outbox[n].row.frozen = (n % 2 = 1)
        BY <3>2, <1>1, <1>3 DEF Tables, OutboxIsHistory
      <4>2. (n + 1) % 2 = 1 <=> n % 2 # 1
        <5>1. n \in Nat
          BY <1>3
        <5> HIDE DEF n
        <5> QED
          BY <5>1
      <4> QED
        BY <4>1, <4>2, <1>2
    <3> QED
      BY <3>1, <3>2
  <2>2. outbox' # <<>> /\ outbox'[Len(outbox')].row = freeze'
    BY <1>3
  <2>3. ASSUME NEW s \in DOMAIN outbox' PROVE outbox'[s].row.frozen = (s % 2 = 1)
    <3>1. CASE s \in 1 .. n
      BY <3>1, <1>1, <1>3 DEF Tables, OutboxIsHistory
    <3>2. CASE s = n + 1
      BY <3>2, <2>1, <1>3
    <3> QED
      BY <3>1, <3>2, <1>3
  <2> QED
    BY <2>2, <2>3 DEF OutboxIsHistory
<1>5. Announced' = Announced
  BY DEF Announced
<1>6. StreamOfSwitches' /\ MarkedWasAnnounced' /\ AnnouncedInOrder'
  BY <1>1, <1>3, <1>5 DEF Tables, StreamOfSwitches, MarkedWasAnnounced, AnnouncedInOrder
<1>7. Tables'
  BY <1>1, <1>2, <1>3, <1>4, <1>6 DEF Tables
<1>8. call' \in [Callers -> CallRec]
  BY IInvByParts, IdleSound DEF Drain, Sound
<1>9. ASSUME NEW e \in Callers PROVE Sound(call[e])'
  <2>1. call'[e] = call[e] \/ call'[e] = [Idle EXCEPT !.pc = "drain"]
    BY IInvByParts DEF Drain
  <2>2. CASE call'[e] = call[e]
    BY <2>2, <1>1, <1>3, <1>5 DEF Sound
  <2>3. CASE call'[e] = [Idle EXCEPT !.pc = "drain"]
    <3>1. call'[e].rows = {} /\ call'[e].pc = "drain" /\ call'[e] \in CallRec
      BY <2>3, <1>8 DEF Idle
    <3> QED
      BY <3>1 DEF Sound
  <2> QED
    BY <2>1, <2>2, <2>3
<1> QED
  BY <1>7, <1>8, <1>9, IInvByPartsNext

\* Marking the row just accepted by the broker.
LEMMA MarkStep ==
  ASSUME IInv, NEW c \in Callers, Mark(c)
  PROVE  IInv'
<1>1. Tables /\ \A e \in Callers : call[e] \in CallRec /\ Sound(call[e])
  BY IInvByParts
<1>2. PICK s \in call[c].rows :
        /\ IsFirst(s, call[c].rows)
        /\ outbox' = [outbox EXCEPT ![s].published = TRUE]
        /\ call' = [call EXCEPT ![c] = IF call[c].rows = {s} THEN Idle
                      ELSE [call[c] EXCEPT !.pc = "publish", !.rows = @ \ {s}]]
  BY DEF Mark
<1>3. call[c].pc = "mark" /\ UNCHANGED <<freeze, stream, window>> /\ Announced' = Announced
  BY DEF Mark, Announced
<1>4. s \in Announced /\ s \in DOMAIN outbox
  BY <1>1, <1>2, <1>3 DEF Sound
<1>5. /\ outbox' \in Seq([row : Row, published : BOOLEAN])
      /\ DOMAIN outbox' = DOMAIN outbox /\ Len(outbox') = Len(outbox)
      /\ \A q \in DOMAIN outbox : /\ outbox'[q].row = outbox[q].row
                                  /\ q # s => outbox'[q] = outbox[q]
  <2> DEFINE new == [outbox[s] EXCEPT !.published = TRUE]
             Entries == [row : Row, published : BOOLEAN]
  <2>0. outbox \in Seq(Entries)
    BY <1>1 DEF Tables
  <2>1. outbox \in Seq(Entries) /\ outbox[s] \in Entries
    <3> HIDE DEF Entries
    <3> QED
      BY <2>0, <1>4
  <2>2. new \in Entries /\ new.row = outbox[s].row
    BY <2>1
  <2>3. outbox' = [outbox EXCEPT ![s] = new]
    BY <1>2
  <2> HIDE DEF new, Entries
  <2>4. outbox' \in Seq(Entries) /\ DOMAIN outbox' = DOMAIN outbox /\ Len(outbox') = Len(outbox)
    BY <1>4, <2>1, <2>2, <2>3
  <2>5. outbox'[s] = new /\ \A q \in DOMAIN outbox : q # s => outbox'[q] = outbox[q]
    BY <1>4, <2>1, <2>3
  <2> QED
    BY <2>2, <2>4, <2>5 DEF Entries
<1>6. OutboxIsHistory'
  <2>1. outbox' = <<>> <=> outbox = <<>>
    BY <1>1, <1>5 DEF Tables
  <2>2. outbox # <<>> => Len(outbox) \in DOMAIN outbox
    BY <1>1 DEF Tables
  <2> QED
    BY <1>1, <1>3, <1>5, <2>1, <2>2 DEF Tables, OutboxIsHistory
<1>7. StreamOfSwitches' /\ MarkedWasAnnounced' /\ AnnouncedInOrder'
  <2>1. StreamOfSwitches /\ MarkedWasAnnounced /\ AnnouncedInOrder
    BY <1>1 DEF Tables
  <2>2. UNCHANGED stream /\ DOMAIN outbox' = DOMAIN outbox
    BY <1>3, <1>5
  <2>3. StreamOfSwitches'
    BY <1>3, <2>1, <2>2 DEF StreamOfSwitches
  <2>4. MarkedWasAnnounced'
    <3>1. \A q \in DOMAIN outbox : q # s => outbox'[q] = outbox[q]
      BY <1>5
    <3> QED
      BY <1>3, <1>4, <2>1, <2>2, <3>1 DEF MarkedWasAnnounced
  <2>5. AnnouncedInOrder'
    BY <1>3, <2>1, <2>2 DEF AnnouncedInOrder
  <2> QED
    BY <2>3, <2>4, <2>5
<1>8. Tables'
  BY <1>1, <1>3, <1>5, <1>6, <1>7 DEF Tables
<1> DEFINE rest == [call[c] EXCEPT !.pc = "publish", !.rows = @ \ {s}]
<1>9. /\ rest \in CallRec /\ rest.pc = "publish" /\ rest.rows = call[c].rows \ {s}
  BY <1>1 DEF CallRec
<1>10. call'[c] = Idle \/ call'[c] = rest
  BY <1>2, IInvByParts
<1>11. \A e \in Callers : e # c => call'[e] = call[e]
  BY <1>2, IInvByParts
<1>12. call' \in [Callers -> CallRec]
  <2>1. \A e \in Callers : call'[e] \in CallRec
    BY <1>1, <1>9, <1>10, <1>11, IdleSound DEF Sound
  <2> QED
    BY <2>1, <1>2, IInvByParts
<1> HIDE DEF rest
<1>13. ASSUME NEW e \in Callers PROVE Sound(call[e])'
  <2>1. CASE e # c
    BY <2>1, <1>1, <1>3, <1>5, <1>11 DEF Sound
  <2>2. CASE e = c /\ call'[c] = Idle
    BY <2>2, <1>3, <1>5, IdleSound DEF Sound
  <2>3. CASE e = c /\ call'[c] = rest
    BY <2>3, <1>1, <1>3, <1>4, <1>5, <1>9 DEF Sound
  <2> QED
    BY <2>1, <2>2, <2>3, <1>10
<1> QED
  BY <1>8, <1>12, <1>13, IInvByPartsNext

\* Rows of an outbox of n switches are positive numbers.
LEMMA RowNumbers ==
  ASSUME NEW n \in Nat, NEW A, NEW B, A \subseteq 1 .. n, B \subseteq A
  PROVE  /\ B \in SUBSET (Nat \ {0})
         /\ \A r \in B : \A s \in 1 .. r : s \in 1 .. n /\ (s < r \/ s = r)
  OBVIOUS

LEMMA NextIInv == IInv /\ [Next]_vars => IInv'
<1> SUFFICES ASSUME IInv, [Next]_vars PROVE IInv'
  OBVIOUS
<1>0. call \in [Callers -> CallRec] /\ Tables /\ \A e \in Callers : Sound(call[e])
  BY IInvByParts
<1>1. ASSUME NEW c \in Callers, Step(c) PROVE IInv'
  <2>1. CASE AskFreeze(c)
    <3>1. PICK reason \in Reasons, actor \in Actors \cup {ReconActor} :
            Start(c, [frozen |-> TRUE, reason |-> reason, actor |-> actor, confirm |-> Nobody])
      BY <2>1 DEF AskFreeze
    <3> QED
      BY <3>1, CallOnly DEF Start, Sound, CallRec, Command, Why, Names
  <2>2. CASE AskUnfreeze(c)
    <3>1. PICK actor \in Actors, confirm \in Actors \cup {Nobody} :
            Start(c, [frozen |-> FALSE, reason |-> Nobody, actor |-> actor, confirm |-> confirm])
      BY <2>2 DEF AskUnfreeze
    <3> QED
      BY <3>1, CallOnly DEF Start, Sound, CallRec, Command, Why, Names
  <2>3. CASE Boot(c)
    BY <2>3, CallOnly DEF Boot, Start, Sound, CallRec, Command, Why, Names
  <2>4. CASE WriteFreeze(c)
    <3>1. CASE Moves(call[c].cmd) /\ freeze' # freeze
      BY <2>4, <3>1, SwitchStep DEF WriteFreeze
    <3>2. CASE UNCHANGED <<freeze, outbox>> /\ Drain(c)
      BY <2>4, <3>2, CallOnly, IdleSound DEF WriteFreeze, Drain
    <3>3. CASE UNCHANGED <<freeze, outbox>> /\ call' = [call EXCEPT ![c] = Idle]
      BY <2>4, <3>3, CallOnly, IdleSound DEF WriteFreeze
    <3>4. Moves(call[c].cmd) => NewRow(call[c].cmd) # freeze
      BY DEF Moves, NewRow
    <3> QED
      BY <2>4, <3>1, <3>2, <3>3, <3>4 DEF WriteFreeze
  <2>5. CASE RecoverTick(c)
    BY <2>5, CallOnly, IdleSound DEF RecoverTick, Drain
  <2>6. CASE ReadOutbox(c)
    <3>1. CASE Unpublished = {}
      BY <2>6, <3>1, CallOnly, IdleSound DEF ReadOutbox
    <3>2. CASE Unpublished # {}
      <4> DEFINE U == Unpublished
                 x == [call[c] EXCEPT !.pc = "publish", !.rows = Oldest(Unpublished)]
      <4>1. /\ Len(outbox) \in Nat /\ DOMAIN outbox = 1 .. Len(outbox)
            /\ U \subseteq 1 .. Len(outbox)
            /\ Oldest(U) \subseteq U
        BY <1>0 DEF Tables, Unpublished, Oldest
      <4>2. x \in CallRec /\ x.pc = "publish" /\ x.rows = Oldest(U)
        <5>1. call[c] \in CallRec
          BY <1>0
        <5>2. Oldest(U) \in SUBSET (Nat \ {0})
          BY <4>1, RowNumbers
        <5>3. \A R \in SUBSET (Nat \ {0}) :
                LET y == [call[c] EXCEPT !.pc = "publish", !.rows = R]
                IN  y \in CallRec /\ y.pc = "publish" /\ y.rows = R
          BY <5>1 DEF CallRec
        <5> QED
          BY <5>2, <5>3
      <4>3. ASSUME NEW r \in Oldest(U), NEW s \in 1 .. r
            PROVE  s \in Oldest(U) \cup Announced
        <5>1. CASE s \notin U
          <6>1. s \in DOMAIN outbox /\ outbox[s].published
            BY <4>1, <5>1 DEF Unpublished
          <6> QED
            BY <6>1, <1>0 DEF Tables, MarkedWasAnnounced
        <5>2. CASE s \in U /\ s < r
          BY <5>2, <4>1, OldestIsLowest
        <5>3. CASE s = r
          BY <5>3
        <5>4. s < r \/ s = r
          BY <4>1, RowNumbers
        <5> QED
          BY <5>1, <5>2, <5>3, <5>4
      <4>4. Sound(x)
        <5> HIDE DEF x, U
        <5> QED
          BY <4>1, <4>2, <4>3 DEF Sound
      <4>5. /\ call' = [call EXCEPT ![c] = x]
            /\ UNCHANGED <<freeze, outbox, stream, window>>
        BY <2>6, <3>2 DEF ReadOutbox
      <4> QED
        BY <4>4, <4>5, CallOnly
    <3> QED
      BY <3>1, <3>2
  <2>7. CASE Publish(c)
    <3>1. PICK s \in call[c].rows : IsFirst(s, call[c].rows) /\ Offer(s)
      BY <2>7 DEF Publish
    <3>2. call' = [call EXCEPT ![c] = [call[c] EXCEPT !.pc = "mark"]]
      BY <2>7 DEF Publish, Goto
    <3> QED
      BY <2>7, <3>1, <3>2, OfferStep DEF Publish
  <2>8. CASE PublishFails(c)
    <3>1. CASE \E s \in call[c].rows : IsFirst(s, call[c].rows) /\ Offer(s)
      BY <2>8, <3>1, OfferStep DEF PublishFails
    <3>2. CASE UNCHANGED <<stream, window>>
      BY <2>8, <3>2, CallOnly, IdleSound DEF PublishFails
    <3> QED
      BY <2>8, <3>1, <3>2 DEF PublishFails
  <2>9. CASE Mark(c)
    BY <2>9, MarkStep
  <2>10. CASE Crash(c)
    BY <2>10, CallOnly, IdleSound DEF Crash
  <2> QED
    BY <1>1, <2>1, <2>2, <2>3, <2>4, <2>5, <2>6, <2>7, <2>8, <2>9, <2>10 DEF Step
<1>2. ASSUME NEW s \in window, Forget(s) PROVE IInv'
  <2>1. UNCHANGED <<freeze, outbox, stream, call>> /\ window' = window \ {s} /\ Announced' = Announced
    BY <1>2 DEF Forget, Announced
  <2> QED
    BY <2>1 DEF IInv, TypeOK, OutboxIsHistory, MarkedWasAnnounced, AnnouncedInOrder,
      StreamOfSwitches, RowsComplete, MarkedNext, ThawsByOperators
<1>3. CASE UNCHANGED vars
  <2>1. UNCHANGED <<freeze, outbox, stream, call, window>> /\ Announced' = Announced
    BY <1>3 DEF vars, Announced
  <2>2. TypeOK' /\ OutboxIsHistory'
    BY <2>1 DEF IInv, TypeOK, OutboxIsHistory
  <2>3. MarkedWasAnnounced' /\ AnnouncedInOrder' /\ StreamOfSwitches'
    BY <2>1 DEF IInv, MarkedWasAnnounced, AnnouncedInOrder, StreamOfSwitches
  <2>4. RowsComplete' /\ MarkedNext' /\ ThawsByOperators'
    BY <2>1 DEF IInv, RowsComplete, MarkedNext, ThawsByOperators
  <2> QED
    BY <2>2, <2>3, <2>4 DEF IInv
<1> QED
  BY <1>1, <1>2, <1>3 DEF Next

-----------------------------------------------------------------------------
\* The invariant holds throughout.
LEMMA Invariance == Spec => []IInv
  BY InitIInv, NextIInv, PTL DEF Spec

\* Types are respected in every reachable state of the switch.
THEOREM FreezeTypeCorrect == Spec => []TypeOK
<1>1. IInv => TypeOK
  BY DEF IInv
<1> QED
  BY Invariance, <1>1, PTL

\* Switches are announced in the order they happened, none is marked without
\* having been announced, and the outbox is the switch's history, for any
\* number of concurrent callers, crashes and bus failures.
THEOREM FreezeEventsFaithful == Spec => [](AnnouncedInOrder /\ MarkedWasAnnounced /\ OutboxIsHistory)
<1>1. IInv => AnnouncedInOrder /\ MarkedWasAnnounced /\ OutboxIsHistory
  BY DEF IInv
<1> QED
  BY Invariance, <1>1, PTL

\* Only writeFreeze, of a command that moves the switch, changes the row.
LEMMA OnlyWritesMove ==
  ASSUME Next, freeze' # freeze
  PROVE  \E c \in Callers : WriteFreeze(c) /\ Moves(call[c].cmd) /\ freeze' = NewRow(call[c].cmd)
                             /\ call' = [call EXCEPT ![c] = [Idle EXCEPT !.pc = "drain"]]
  BY DEF Next, Step, AskFreeze, AskUnfreeze, Boot, Start, WriteFreeze, RecoverTick, ReadOutbox,
     Publish, PublishFails, Mark, Crash, Forget, Drain

\* While the book stays frozen, the first freeze's reason and actor stand.
THEOREM FirstFreezeKept == Spec => FirstFreezeStands
<1>1. [Next]_vars => [freeze.frozen /\ freeze'.frozen => freeze' = freeze]_vars
  <2> SUFFICES ASSUME Next, freeze.frozen, freeze'.frozen, freeze' # freeze PROVE FALSE
    BY DEF vars
  <2>1. PICK c \in Callers : Moves(call[c].cmd) /\ freeze' = NewRow(call[c].cmd)
    BY OnlyWritesMove
  <2> QED
    BY <2>1 DEF Moves, NewRow
<1> QED
  BY <1>1, PTL DEF Spec, FirstFreezeStands

\* A person has no blank name, and two different ones are two.
LEMMA TwoPeople ==
  ASSUME NEW a, NEW b, a # b PROVE Cardinality({a, b}) = 2
<1>1. IsFiniteSet({a}) /\ Cardinality({a}) = 1
  BY FS_Singleton
<1>2. {a, b} = {a} \cup {b} /\ b \notin {a}
  OBVIOUS
<1> QED
  BY <1>1, <1>2, FS_AddElement

\* No thaw happens without two different people, and whoever froze the book
\* confirms no thaw of it.
THEOREM ThawIsDual == Spec => ThawTakesTwo
<1> DEFINE A == freeze.frozen /\ ~freeze'.frozen =>
       \E c \in Callers :
         LET who == {Person(call[c].cmd.actor), Person(call[c].cmd.confirm)}
         IN  /\ call[c].pc = "write" /\ call'[c].pc # "write"
             /\ who \subseteq People
             /\ Cardinality(who) = 2
             /\ Person(call[c].cmd.confirm) # Person(freeze.actor)
<1>1. IInv /\ [Next]_vars => [A]_vars
  <2> SUFFICES ASSUME IInv, Next, freeze.frozen, ~freeze'.frozen PROVE A
    BY DEF vars
  <2>1. PICK c \in Callers : /\ WriteFreeze(c) /\ Moves(call[c].cmd)
                             /\ freeze' = NewRow(call[c].cmd)
                             /\ call' = [call EXCEPT ![c] = [Idle EXCEPT !.pc = "drain"]]
    BY OnlyWritesMove
  <2> DEFINE cmd == call[c].cmd
             p == Person(cmd.actor)
             q == Person(cmd.confirm)
  <2>2. ~cmd.frozen /\ ~UnfreezeRefusal(freeze, cmd.actor, cmd.confirm)
    BY <2>1 DEF Moves, NewRow
  <2>3. call \in [Callers -> CallRec] /\ call[c].pc = "write"
    BY <2>1 DEF IInv, TypeOK, CallRec, WriteFreeze
  <2>4. cmd.actor \in Actors /\ cmd.confirm \in Actors \cup {Nobody}
    BY <2>2, <2>3 DEF IInv, ThawsByOperators, CallRec, Command
  <2>5. p # Nobody /\ q # Nobody /\ p # q
    BY <2>2 DEF UnfreezeRefusal, DualControlRefuse
  <2>6. p \in People /\ q \in People
    BY <2>4, <2>5, FreezeConstants DEF Person
  <2>7. Cardinality({p, q}) = 2
    BY <2>5, TwoPeople
  <2>8. q # Person(freeze.actor)
    BY <2>2, <2>5 DEF UnfreezeRefusal
  <2>9. call'[c].pc # "write"
    BY <2>1, <2>3 DEF Idle
  <2> QED
    BY <2>3, <2>6, <2>7, <2>8, <2>9
<1> QED
  BY <1>1, Invariance, PTL DEF Spec, ThawTakesTwo

-----------------------------------------------------------------------------
(* The proof of the book                                                   *)

Places == {"idle", "gate", "tip", "pages", "verdict", "stage", "anchor", "mismatch", "rerecord",
           "incomplete", "handle", "refreeze", "note", "unproven"}
BookRec == [seq : Nat, bad : SUBSET Checks]
RunRec == [pc : Places, snap : BookRec, tip : Nat, last : Nat, staged : BookRec]

\* Where a run has found, or is still acting on, a mismatch.
Alarmed == {"mismatch", "rerecord", "handle", "refreeze"}

\* Where a run relies on the tip it read.
Reading == {"pages", "verdict", "stage", "anchor"}

\* What is true of a run x while the checks in bad would fail: it is alarmed,
\* and has seen a break, only if there is one; all that it read, and what it
\* staged, belongs to the one snapshot, which it anchors only if that is whole.
SoundRun(x, bad) ==
  /\ x.pc \in Alarmed => bad # {}
  /\ x.snap.bad # {} => bad # {}
  /\ x.pc \in Reading => x.tip = x.snap.seq
  /\ x.pc = "verdict" => x.last = x.snap.seq
  /\ x.pc \in {"stage", "anchor"} => x.snap.bad = {}
  /\ x.pc = "anchor" => x.staged = x.snap

\* The inductive invariant.
ProofInv ==
  /\ book \in BookRec
  /\ run \in [Runners -> RunRec]
  /\ \A r \in Runners : SoundRun(run[r], book.bad)
  /\ NoFalseAlarm
  /\ AnchorsAreProved

-----------------------------------------------------------------------------
LEMMA QuietTyped == \A p \in Places : [Quiet EXCEPT !.pc = p] \in RunRec
  BY DEF Quiet, RunRec, BookRec, Places

LEMMA InitProofInv == ReconInit => ProofInv
<1> SUFFICES ASSUME ReconInit PROVE ProofInv
  OBVIOUS
<1>1. Quiet \in RunRec
  BY DEF Quiet, RunRec, BookRec, Places
<1>2. SoundRun(Quiet, {})
  BY DEF SoundRun, Quiet, Alarmed, Reading
<1> QED
  BY <1>1, <1>2 DEF ReconInit, ProofInv, BookRec, NoFalseAlarm, AnchorsAreProved

\* A step of one run that leaves it sound and raises no false alarm.
LEMMA RunStep ==
  ASSUME ProofInv, NEW r \in Runners, NEW x \in RunRec, SoundRun(x, book.bad),
         run' = [run EXCEPT ![r] = x],
         switch' = "mismatch" => switch = "mismatch" \/ book.bad # {},
         AnchorsAreProved', UNCHANGED book
  PROVE  ProofInv'
<1>1. run' \in [Runners -> RunRec]
  BY DEF ProofInv
<1>2. ASSUME NEW e \in Runners PROVE SoundRun(run'[e], book'.bad)
  <2>1. CASE e = r
    BY <2>1 DEF ProofInv
  <2>2. CASE e # r
    <3>1. run'[e] = run[e]
      BY <2>2 DEF ProofInv
    <3> QED
      BY <3>1 DEF ProofInv
  <2> QED
    BY <2>1, <2>2
<1>3. NoFalseAlarm'
  BY DEF ProofInv, NoFalseAlarm
<1> QED
  BY <1>1, <1>2, <1>3 DEF ProofInv

\* A run that is past its proof, or ends.
LEMMA LeaveStep ==
  ASSUME ProofInv, NEW r \in Runners, NEW p \in Places \ Reading,
         run' = [run EXCEPT ![r] = [Quiet EXCEPT !.pc = p]],
         p \in Alarmed => book.bad # {},
         switch' = "mismatch" => switch = "mismatch" \/ book.bad # {},
         AnchorsAreProved', UNCHANGED book
  PROVE  ProofInv'
<1> DEFINE x == [Quiet EXCEPT !.pc = p]
<1>1. x \in RunRec
  BY QuietTyped
<1>2. x.pc = p /\ x.snap.bad = {}
  BY DEF Quiet
<1>3. SoundRun(x, book.bad)
  <2> HIDE DEF x
  <2> QED
    BY <1>2 DEF SoundRun, Reading
<1> HIDE DEF x
<1>4. run' = [run EXCEPT ![r] = x]
  BY DEF x
<1> QED
  BY <1>1, <1>3, <1>4, RunStep

LEMMA EndStep ==
  ASSUME ProofInv, NEW r \in Runners, End(r),
         switch' = "mismatch" => switch = "mismatch" \/ book.bad # {},
         AnchorsAreProved', UNCHANGED book
  PROVE  ProofInv'
<1>1. Quiet = [Quiet EXCEPT !.pc = "idle"]
  BY DEF Quiet
<1>2. run' = [run EXCEPT ![r] = [Quiet EXCEPT !.pc = "idle"]]
  BY <1>1 DEF End
<1> QED
  BY <1>2, LeaveStep DEF Reading, Alarmed, Places

-----------------------------------------------------------------------------
\* Every step keeps the invariant: one case per action.
LEMMA NextProofInv == ProofInv /\ [ReconNext]_reconVars => ProofInv'
<1> SUFFICES ASSUME ProofInv, [ReconNext]_reconVars PROVE ProofInv'
  OBVIOUS
<1>0. /\ \A r \in Runners : run[r] \in RunRec /\ SoundRun(run[r], book.bad)
      /\ Replicas \subseteq Runners /\ Operators \subseteq Runners
  BY DEF ProofInv, Runners
<1>a. UNCHANGED anchors => AnchorsAreProved'
  BY DEF ProofInv, AnchorsAreProved
<1>b. \A r \in Runners : run[r].pc \in Alarmed => book.bad # {}
  BY <1>0 DEF SoundRun
<1>1. CASE Post
  BY <1>1 DEF Post, ProofInv, BookRec, NoFalseAlarm, AnchorsAreProved
<1>2. CASE Corrupt
  <2>1. PICK bad \in (SUBSET Checks) \ {{}} : book' = [book EXCEPT !.bad = bad]
    BY <1>2 DEF Corrupt
  <2>2. book' \in BookRec /\ book'.bad # {}
    <3>1. book \in BookRec
      BY DEF ProofInv
    <3>2. bad \subseteq Checks /\ bad # {}
      OBVIOUS
    <3> QED
      BY <2>1, <3>1, <3>2 DEF BookRec
  <2>3. UNCHANGED <<switch, anchors, run>>
    BY <1>2 DEF Corrupt
  <2>4. \A r \in Runners : SoundRun(run'[r], book'.bad)
    BY <1>0, <2>2, <2>3 DEF SoundRun
  <2> QED
    BY <2>2, <2>3, <2>4 DEF ProofInv, NoFalseAlarm, AnchorsAreProved
<1>3. CASE OperatorSwitch
  BY <1>3 DEF OperatorSwitch, ProofInv, NoFalseAlarm, AnchorsAreProved
<1>4. ASSUME NEW r \in Runners, run[r].pc = "idle", ReconGoto(r, "gate"),
             UNCHANGED <<book, switch, anchors>>
      PROVE  ProofInv'
  <2> DEFINE x == [run[r] EXCEPT !.pc = "gate"]
  <2>1. x \in RunRec /\ x.pc = "gate" /\ x.snap = run[r].snap
    BY <1>0 DEF RunRec, Places
  <2>2. run' = [run EXCEPT ![r] = x]
    BY <1>4 DEF ReconGoto
  <2>3. SoundRun(x, book.bad)
    <3> HIDE DEF x
    <3> QED
      BY <1>0, <2>1 DEF SoundRun, Alarmed, Reading
  <2> HIDE DEF x
  <2> QED
    BY <1>4, <1>a, <2>1, <2>2, <2>3, RunStep
<1>5. ASSUME NEW r \in Replicas, Tick(r) PROVE ProofInv'
  <2>1. CASE mem[r].skip > 0
    BY <1>5, <2>1 DEF Tick, ProofInv, NoFalseAlarm, AnchorsAreProved
  <2>2. CASE ~(mem[r].skip > 0)
    BY <1>5, <2>2, <1>0, <1>4 DEF Tick
  <2> QED
    BY <2>1, <2>2
<1>6. ASSUME NEW o \in Operators, AskReconcile(o) PROVE ProofInv'
  BY <1>6, <1>0, <1>4 DEF AskReconcile
<1>7. ASSUME NEW r \in Runners, Acquire(r) PROVE ProofInv'
  <2> DEFINE x == [Quiet EXCEPT !.pc = "tip", !.snap = book]
  <2>1. x \in RunRec /\ x.pc = "tip" /\ x.snap = book
    BY DEF Quiet, RunRec, BookRec, Places, ProofInv
  <2>2. run' = [run EXCEPT ![r] = x] /\ UNCHANGED <<book, switch, anchors>>
    BY <1>7 DEF Acquire
  <2> HIDE DEF x
  <2>3. SoundRun(x, book.bad)
    BY <2>1 DEF SoundRun, Alarmed, Reading
  <2> QED
    BY <1>a, <2>1, <2>2, <2>3, RunStep
<1>8. ASSUME NEW r \in Runners,
             ReadTip(r) \/ ReadPages(r) \/ Stage(r) PROVE ProofInv'
  <2>1. CASE ReadTip(r)
    <3> DEFINE x == [run[r] EXCEPT !.pc = "pages", !.tip = run[r].snap.seq]
    <3>1. x \in RunRec /\ x.pc = "pages" /\ x.snap = run[r].snap /\ x.tip = x.snap.seq
      BY <1>0 DEF RunRec, BookRec, Places
    <3>2. run' = [run EXCEPT ![r] = x] /\ UNCHANGED <<book, switch, anchors>>
      BY <2>1 DEF ReadTip, Seen
    <3> HIDE DEF x
    <3>3. SoundRun(x, book.bad)
      BY <1>0, <3>1 DEF SoundRun, Alarmed, Reading
    <3> QED
      BY <1>a, <3>1, <3>2, <3>3, RunStep
  <2>2. CASE ReadPages(r)
    <3> DEFINE x == [run[r] EXCEPT !.pc = "verdict", !.last = run[r].snap.seq]
    <3>1. /\ x \in RunRec /\ x.pc = "verdict" /\ x.snap = run[r].snap /\ x.tip = run[r].tip
          /\ x.last = x.snap.seq
      BY <1>0 DEF RunRec, BookRec, Places
    <3>2. run' = [run EXCEPT ![r] = x] /\ UNCHANGED <<book, switch, anchors>> /\ run[r].pc = "pages"
      BY <2>2 DEF ReadPages, Seen
    <3> HIDE DEF x
    <3>3. SoundRun(x, book.bad)
      BY <1>0, <3>1, <3>2 DEF SoundRun, Alarmed, Reading
    <3> QED
      BY <1>a, <3>1, <3>2, <3>3, RunStep
  <2>3. CASE Stage(r)
    <3> DEFINE x == [run[r] EXCEPT !.pc = "anchor", !.staged = run[r].snap]
    <3>1. /\ x \in RunRec /\ x.pc = "anchor" /\ x.snap = run[r].snap /\ x.tip = run[r].tip
          /\ x.staged = x.snap
      BY <1>0 DEF RunRec, BookRec, Places
    <3>2. run' = [run EXCEPT ![r] = x] /\ UNCHANGED <<book, switch, anchors>> /\ run[r].pc = "stage"
      BY <2>3 DEF Stage, Seen
    <3> HIDE DEF x
    <3>3. SoundRun(x, book.bad)
      BY <1>0, <3>1, <3>2 DEF SoundRun, Alarmed, Reading
    <3> QED
      BY <1>a, <3>1, <3>2, <3>3, RunStep
  <2> QED
    BY <1>8, <2>1, <2>2, <2>3
<1>9. ASSUME NEW r \in Runners, Verdict(r) PROVE ProofInv'
  <2>1. PICK failed \in SUBSET Checks :
          \/ Broken(r) \ failed # {} /\ Leave(r, "mismatch")
          \/ Leave(r, "incomplete")
          \/ Broken(r) = {} /\ ReconGoto(r, "stage")
    BY <1>9 DEF Verdict
  <2>2. UNCHANGED <<book, switch, anchors>> /\ run[r].pc = "verdict"
    BY <1>9 DEF Verdict
  <2>3. Broken(r) = run[r].snap.bad
    BY <1>0, <2>2 DEF Broken, Seen, SoundRun, RunRec, BookRec
  <2>4. CASE Broken(r) \ failed # {} /\ Leave(r, "mismatch")
    <3>1. book.bad # {}
      BY <1>0, <2>3, <2>4 DEF SoundRun
    <3> QED
      BY <1>a, <2>2, <2>4, <3>1, LeaveStep DEF Leave, Places, Reading
  <2>5. CASE Leave(r, "incomplete")
    BY <1>a, <2>2, <2>5, LeaveStep DEF Leave, Places, Reading, Alarmed
  <2>6. CASE Broken(r) = {} /\ ReconGoto(r, "stage")
    <3> DEFINE x == [run[r] EXCEPT !.pc = "stage"]
    <3>1. x \in RunRec /\ x.pc = "stage" /\ x.snap = run[r].snap /\ x.tip = run[r].tip
      BY <1>0 DEF RunRec, Places
    <3>2. run' = [run EXCEPT ![r] = x]
      BY <2>6 DEF ReconGoto
    <3> HIDE DEF x
    <3>3. SoundRun(x, book.bad)
      BY <1>0, <2>2, <2>3, <2>6, <3>1 DEF SoundRun, Alarmed, Reading
    <3> QED
      BY <1>a, <2>2, <3>1, <3>2, <3>3, RunStep
  <2> QED
    BY <2>1, <2>4, <2>5, <2>6
<1>10. ASSUME NEW r \in Runners, Anchor(r) \/ AnchorUnheard(r) PROVE ProofInv'
  <2>1. WriteAnchor(r) /\ (End(r) \/ Leave(r, "incomplete"))
    BY <1>10 DEF Anchor, AnchorUnheard
  <2>2. UNCHANGED <<book, switch>> /\ run[r].pc = "anchor"
    BY <2>1 DEF WriteAnchor
  <2>3. /\ run[r].staged.seq = run[r].tip
        /\ run[r].staged.bad = {}
    BY <1>0, <2>2 DEF SoundRun, Reading
  <2>4. AnchorsAreProved'
    <3> DEFINE a == [tip |-> run[r].tip, seq |-> run[r].staged.seq, bad |-> run[r].staged.bad]
    <3>1. a.seq = a.tip /\ a.bad = {}
      BY <2>3
    <3>2. anchors' = anchors \cup {a}
      BY <2>1 DEF WriteAnchor
    <3> HIDE DEF a
    <3> QED
      BY <3>1, <3>2 DEF ProofInv, AnchorsAreProved
  <2>5. CASE End(r)
    BY <2>2, <2>4, <2>5, EndStep
  <2>6. CASE Leave(r, "incomplete")
    BY <2>2, <2>4, <2>6, LeaveStep DEF Leave, Places, Reading, Alarmed
  <2> QED
    BY <2>1, <2>5, <2>6
<1>11. ASSUME NEW r \in Runners,
              RecordMismatch(r) \/ RecordMismatchUnheard(r) \/ Rerecord(r)
       PROVE  ProofInv'
  <2>1. run[r].pc \in Alarmed /\ UNCHANGED <<book, anchors>>
    BY <1>11 DEF RecordMismatch, RecordMismatchUnheard, WriteMismatch,
       Rerecord, Alarmed
  <2>2. Leave(r, "handle") \/ Leave(r, "rerecord")
    BY <1>11 DEF RecordMismatch, RecordMismatchUnheard, Rerecord
  <2> QED
    BY <1>a, <1>b, <2>1, <2>2, LeaveStep DEF Leave, Places, Reading
<1>12. ASSUME NEW r \in Runners, RunFails(r) PROVE ProofInv'
  <2>1. UNCHANGED <<book, switch, anchors>>
    BY <1>12 DEF RunFails
  <2>2. CASE Leave(r, "incomplete")
    BY <1>a, <2>1, <2>2, LeaveStep DEF Leave, Places, Reading, Alarmed
  <2>3. CASE /\ run[r].pc = "mismatch" \/ "chain" \in run[r].snap.bad
             /\ Leave(r, "rerecord")
    <3>1. book.bad # {}
      BY <1>0, <2>3 DEF SoundRun, Alarmed
    <3> QED
      BY <1>a, <2>1, <2>3, <3>1, LeaveStep DEF Leave, Places, Reading
  <2> QED
    BY <1>12, <2>2, <2>3 DEF RunFails, Seen
<1>13. ASSUME NEW r \in Runners, NEW p \in {"note", "refreeze"}, NextOf(r, p),
              p = "refreeze" => book.bad # {},
              switch' = "mismatch" => switch = "mismatch" \/ book.bad # {},
              UNCHANGED <<book, anchors>>
       PROVE  ProofInv'
  <2>1. CASE r \in Replicas
    BY <1>13, <1>a, <2>1, LeaveStep DEF NextOf, Leave, Places, Reading, Alarmed
  <2>2. CASE r \notin Replicas
    BY <1>13, <1>a, <2>2, EndStep DEF NextOf
  <2> QED
    BY <2>1, <2>2
<1>14. ASSUME NEW r \in Runners,
              RecordIncomplete(r) \/ RecordIncompleteFails(r) PROVE ProofInv'
  BY <1>13, <1>14 DEF RecordIncomplete, RecordIncompleteFails
<1>15. ASSUME NEW r \in Runners, HandleFails(r) PROVE ProofInv'
  <2>1. book.bad # {}
    BY <1>15, <1>b DEF HandleFails, Alarmed
  <2> QED
    BY <1>13, <1>15, <2>1 DEF HandleFails
<1>16. ASSUME NEW r \in Runners,
              Handle(r) \/ Refreeze(r) \/ RefreezeFails(r) PROVE ProofInv'
  <2>1. End(r) /\ run[r].pc \in Alarmed /\ UNCHANGED <<book, anchors>>
    BY <1>16 DEF Handle, Refreeze, RefreezeFails, Alarmed
  <2> QED
    BY <1>a, <1>b, <2>1, EndStep
<1>17. ASSUME NEW r \in Runners, Busy(r) PROVE ProofInv'
  BY <1>17, <1>a, EndStep DEF Busy
<1>18. ASSUME NEW r \in Replicas, Note(r) PROVE ProofInv'
  <2>1. Leave(r, "unproven") \/ End(r)
    BY <1>18 DEF Note
  <2>2. UNCHANGED <<book, switch, anchors>>
    BY <1>18 DEF Note
  <2> QED
    BY <1>0, <1>a, <2>1, <2>2, EndStep, LeaveStep DEF Leave, Places, Reading, Alarmed
<1>19. ASSUME NEW r \in Replicas,
              FreezeUnproven(r) \/ FreezeUnprovenFails(r) PROVE ProofInv'
  <2>1. End(r) /\ UNCHANGED <<book, anchors>>
    BY <1>19 DEF FreezeUnproven, FreezeUnprovenFails
  <2>2. switch' = "mismatch" => switch = "mismatch"
    BY <1>19 DEF FreezeUnproven, FreezeUnprovenFails, Halt
  <2> QED
    BY <1>0, <1>a, <2>1, <2>2, EndStep
<1>20. ASSUME NEW r \in Runners, Restart(r) PROVE ProofInv'
  BY <1>20, <1>a, EndStep DEF Restart, End
<1>21. CASE UNCHANGED reconVars
  BY <1>21 DEF reconVars, ProofInv, NoFalseAlarm, AnchorsAreProved
<1> QED
  BY <1>0, <1>1, <1>2, <1>3, <1>5, <1>6, <1>7, <1>8, <1>9, <1>10, <1>11, <1>12, <1>14, <1>15,
     <1>16, <1>17, <1>18, <1>19, <1>20, <1>21 DEF ReconNext

LEMMA SpecProofInv == ReconSpec => []ProofInv
  BY InitProofInv, NextProofInv, PTL DEF ReconSpec

\* handleReconciliationMismatch and freezeMismatch: the reconciliation halts the
\* book as a mismatch only when the book is corrupt, whatever was posted, failed
\* or restarted while it was being proved.
THEOREM ReconcileNeverCriesWolf == ReconSpec => []NoFalseAlarm
<1>1. ProofInv => NoFalseAlarm
  BY DEF ProofInv
<1> QED
  BY <1>1, SpecProofInv, PTL

\* runSnapshotReconciliation: every set of balance_snapshots rows holds balances
\* that were proved whole at the tip the rows name.
THEOREM AnchorsProved == ReconSpec => []AnchorsAreProved
<1>1. ProofInv => AnchorsAreProved
  BY DEF ProofInv
<1> QED
  BY <1>1, SpecProofInv, PTL

\* No step puts a mismatch on record beside an open book.
THEOREM MismatchHalted == ReconSpec => MismatchHaltsBook
<1> DEFINE Alone == runs'.last = "mismatch" /\ runs.last # "mismatch" => switch' # "open"
<1>1. [ReconNext]_reconVars => [Alone]_reconVars
  <2> SUFFICES ASSUME ReconNext PROVE Alone
    OBVIOUS
  <2>1. CASE UNCHANGED runs
    BY <2>1
  <2>2. ASSUME NEW outcome \in {"ok", "incomplete"}, RunRow(outcome) PROVE Alone
    BY <2>2 DEF RunRow
  <2>3. ASSUME Halt("mismatch") PROVE Alone
    BY <2>3 DEF Halt, Frozen
  <2> QED
    BY <2>1, <2>2, <2>3 DEF ReconNext, Post, Corrupt, OperatorSwitch,
       AskReconcile, Tick, Refreeze, RefreezeFails, Note,
       FreezeUnproven, FreezeUnprovenFails, Acquire, Busy,
       ReadTip, ReadPages, Verdict, Stage, Anchor,
       AnchorUnheard, WriteAnchor, RecordMismatch,
       RecordMismatchUnheard, WriteMismatch, RunFails, Rerecord,
       RecordIncomplete, RecordIncompleteFails, Handle, HandleFails,
       Restart
<1> QED
  BY <1>1, PTL DEF ReconSpec, MismatchHaltsBook
=============================================================================
