--------------------------- MODULE Court_proofs ---------------------------
(***************************************************************************)
(* Standing and justice, for any masks, dials, filings and draws.          *)
(*                                                                         *)
(* The court: a case that awaits its jury has one place in the queue of a  *)
(* block to come and no other case has any; once the jury sits, only the   *)
(* jurors change what is counted; no record answers for two verdicts.      *)
(*                                                                         *)
(* Reputation, of whose journal and cascade the court's verdicts are made: *)
(* the bands of the entrenchment guard, the electorate of finality, what a *)
(* slash leaves to sponsors, what a pair can fabricate, what evidence a    *)
(* case can dispute, and that a recount gives standing to nobody who has   *)
(* not earned it.                                                          *)
(***************************************************************************)
EXTENDS Court, ReputationEpochs, Sums, FiniteSetTheorems, TLAPS

-----------------------------------------------------------------------------
(* Facts about the least number and about sequences.                       *)
LEMMA LeastBelongs ==
  ASSUME NEW S \in SUBSET Nat, S # {}
  PROVE  Min(S) \in S
<1>1. PICK x \in S : \A y \in S : x =< y
  BY LeastCounterexample
<1> QED
  BY <1>1 DEF Min

LEMMA Appended ==
  ASSUME NEW s \in Seq(Nat), NEW x \in Nat
  PROVE  /\ Append(s, x) \in Seq(Nat) /\ Len(Append(s, x)) = Len(s) + 1
         /\ ToSet(Append(s, x)) = ToSet(s) \union {x}
<1>1. /\ Append(s, x) \in Seq(Nat) /\ Len(Append(s, x)) = Len(s) + 1
      /\ DOMAIN Append(s, x) = 1..(Len(s) + 1) /\ DOMAIN s = 1..Len(s)
      /\ \A i \in 1..Len(s) : Append(s, x)[i] = s[i]
      /\ Append(s, x)[Len(s) + 1] = x /\ Len(s) \in Nat
  OBVIOUS
<1>2. ASSUME NEW y PROVE y \in ToSet(Append(s, x)) <=> y \in ToSet(s) \union {x}
  <2>1. ASSUME y \in ToSet(Append(s, x)) PROVE y \in ToSet(s) \union {x}
    <3>1. PICK i \in 1..(Len(s) + 1) : y = Append(s, x)[i]
      BY <1>1, <2>1 DEF ToSet
    <3>2. i \in 1..Len(s) \/ i = Len(s) + 1
      BY <1>1, <3>1
    <3> QED BY <1>1, <3>1, <3>2 DEF ToSet
  <2>2. ASSUME y \in ToSet(s) PROVE y \in ToSet(Append(s, x))
    <3>1. PICK i \in 1..Len(s) : y = s[i]
      BY <1>1, <2>2 DEF ToSet
    <3>2. i \in 1..(Len(s) + 1)
      BY <1>1, <3>1
    <3> QED BY <1>1, <3>1, <3>2 DEF ToSet
  <2>3. x \in ToSet(Append(s, x))
    BY <1>1 DEF ToSet
  <2> QED BY <2>1, <2>2, <2>3
<1> QED BY <1>1, <1>2

-----------------------------------------------------------------------------
(* The invariant: ids are 0..k-1, every case has its status, an id stands  *)
(* at most once in a queue, and cases and queues tell the same.            *)
Queues == 0..(MaxBlock + JuryDrawDelay + DrawSearch)
Fields == {"status", "jury", "parties"}
Awaiting(id) == Cases[id].status = "AwaitingJury"

DocketTypes ==
  /\ number \in Nat /\ number <= MaxBlock
  /\ DrawQueue \in [Queues -> Seq(Nat)]
  /\ \E k \in Nat : DOMAIN Cases = 0..(k - 1)
  /\ \A id \in DOMAIN Cases : Fields \subseteq DOMAIN Cases[id]
ListedOnce ==
  \A b \in Queues : /\ IsFiniteSet(ToSet(DrawQueue[b]))
                    /\ Len(DrawQueue[b]) = Cardinality(ToSet(DrawQueue[b]))
                    /\ ToSet(DrawQueue[b]) \subseteq DOMAIN Cases
OnePlace ==
  \A id \in DOMAIN Cases :
    IF Awaiting(id)
    THEN \E b \in Queues : b > number /\ QueuedIn(id) = {b}
    ELSE QueuedIn(id) = {}

Docket == DocketTypes /\ ListedOnce /\ OnePlace

LEMMA DocketInit == Init => Docket
<1> SUFFICES ASSUME Init PROVE Docket
  OBVIOUS
<1>1. /\ number = 0 /\ Cases = <<>> /\ DrawQueue = [b \in Queues |-> <<>>]
  BY DEF Init, InitReputation, InitJustice, Queues
<1>2. DOMAIN Cases = 0..(0 - 1) /\ DOMAIN Cases = {}
  BY <1>1
<1>3. ToSet(<<>>) = {} /\ Len(<<>>) = 0 /\ <<>> \in Seq(Nat)
  BY DEF ToSet
<1>4. DocketTypes
  <2>1. MaxBlock \in Nat
    BY ReputationAssumption
  <2> QED
    BY <1>1, <1>2, <1>3, <2>1 DEF DocketTypes
<1>5. ListedOnce
  BY <1>1, <1>3, FS_EmptySet DEF ListedOnce
<1> QED
  BY <1>2, <1>4, <1>5 DEF Docket, OnePlace

LEMMA DocketShows == Docket => AwaitingIsQueued
<1> SUFFICES ASSUME Docket PROVE AwaitingIsQueued
  OBVIOUS
<1>1. DOMAIN DrawQueue = Queues
  BY DEF Docket, DocketTypes
<1>2. ASSUME NEW id \in DOMAIN Cases
      PROVE  IF Cases[id].status = "AwaitingJury"
             THEN Cardinality(QueuedIn(id)) = 1 /\ \A b \in QueuedIn(id) : b > number
             ELSE QueuedIn(id) = {}
  BY FS_Singleton DEF Docket, OnePlace, Awaiting
<1> QED
  BY <1>1, <1>2 DEF Docket, ListedOnce, AwaitingIsQueued

-----------------------------------------------------------------------------
(* A step that changes neither the queues nor who awaits a jury.           *)
LEMMA DocketKept ==
  ASSUME Docket, DrawQueue' = DrawQueue, number' = number, DOMAIN Cases' = DOMAIN Cases,
         \A id \in DOMAIN Cases : /\ Fields \subseteq DOMAIN Cases'[id]
                                  /\ Awaiting(id)' <=> Awaiting(id)
  PROVE  Docket'
<1>1. \A id : QueuedIn(id)' = QueuedIn(id)
  BY DEF QueuedIn
<1>2. OnePlace'
  BY <1>1 DEF Docket, OnePlace
<1> QED
  BY <1>2 DEF Docket, DocketTypes, ListedOnce

LEMMA DocketFiled ==
  ASSUME Docket, NEW p, NEW d, NEW dim, NEW loss, NEW evidence, NEW extra, NEW incapacity,
         DoOpen(p, d, dim, loss, evidence, extra, incapacity)
  PROVE  Docket'
<1>1. PICK id, place, case :
        /\ id = Cardinality(DOMAIN Cases) /\ place = Min(FreeDraws)
        /\ case = [plaintiff |-> p, defendant |-> d, suit |-> Suit(dim),
                   loss |-> loss, evidence |-> evidence, incapacity |-> incapacity,
                   parties |-> {p, d} \union extra, jury |-> {},
                   status |-> "AwaitingJury", opened_at |-> number]
        /\ FreeDraws # {} /\ number' = number
        /\ DrawQueue' = [DrawQueue EXCEPT ![place] = Append(DrawQueue[place], id)]
        /\ Cases' = [i \in DOMAIN Cases \union {id} |-> IF i # id THEN Cases[i] ELSE case]
  BY DEF DoOpen, Queue
<1>2. id \in Nat /\ DOMAIN Cases = 0..(id - 1)
  <2>1. PICK k \in Nat : DOMAIN Cases = 0..(k - 1)
    BY DEF Docket, DocketTypes
  <2>2. Cardinality(0..(k - 1)) = k
    BY FS_Interval
  <2> QED BY <1>1, <2>1, <2>2
<1>3. /\ DOMAIN Cases' = 0..((id + 1) - 1) /\ DOMAIN Cases' = DOMAIN Cases \union {id}
      /\ id \notin DOMAIN Cases
      /\ Cases'[id] = case /\ \A i \in DOMAIN Cases : Cases'[i] = Cases[i]
  <2>1. id \notin DOMAIN Cases /\ 0..((id + 1) - 1) = DOMAIN Cases \union {id}
    BY <1>2
  <2>2. DOMAIN Cases' = DOMAIN Cases \union {id}
    BY <1>1
  <2>3. Cases'[id] = case /\ \A i \in DOMAIN Cases : Cases'[i] = Cases[i]
    BY <1>1, <2>1
  <2> QED BY <2>1, <2>2, <2>3
<1>4. /\ place \in Queues /\ place > number
  <2>1. FreeDraws \in SUBSET Nat
    BY JusticeAssumption DEF FreeDraws, Docket, DocketTypes, JusticeConfig
  <2>2. place \in FreeDraws
    BY <1>1, <2>1, LeastBelongs
  <2>3. /\ place \in (number + JuryDrawDelay)..(number + JuryDrawDelay + DrawSearch - 1)
        /\ number \in Nat /\ number <= MaxBlock
    BY <2>2 DEF FreeDraws, Docket, DocketTypes
  <2>4. /\ JuryDrawDelay \in Nat /\ JuryDrawDelay >= 2 /\ DrawSearch \in Nat
        /\ MaxBlock \in Nat
    BY JusticeAssumption, ReputationAssumption DEF JusticeConfig
  <2> QED
    BY <2>3, <2>4 DEF Queues
<1>5. /\ DrawQueue' \in [Queues -> Seq(Nat)]
      /\ ToSet(DrawQueue'[place]) = ToSet(DrawQueue[place]) \union {id}
      /\ Len(DrawQueue'[place]) = Len(DrawQueue[place]) + 1
      /\ \A b \in Queues \ {place} : DrawQueue'[b] = DrawQueue[b]
  <2>1. DrawQueue \in [Queues -> Seq(Nat)] /\ DrawQueue[place] \in Seq(Nat)
    BY <1>4 DEF Docket, DocketTypes
  <2>2. DrawQueue'[place] = Append(DrawQueue[place], id)
    BY <1>1, <1>4, <2>1
  <2>3. /\ Append(DrawQueue[place], id) \in Seq(Nat)
        /\ Len(Append(DrawQueue[place], id)) = Len(DrawQueue[place]) + 1
        /\ ToSet(Append(DrawQueue[place], id)) = ToSet(DrawQueue[place]) \union {id}
    BY <2>1, <1>2, Appended
  <2> QED
    BY <1>1, <2>1, <2>2, <2>3
<1>6. DocketTypes'
  <2>1. Fields \subseteq DOMAIN case
    BY <1>1 DEF Fields
  <2>2. id + 1 \in Nat
    BY <1>2
  <2> QED
    BY <1>1, <1>3, <1>5, <2>1, <2>2 DEF Docket, DocketTypes
<1>7. ListedOnce'
  <2> SUFFICES ASSUME NEW b \in Queues
               PROVE  /\ IsFiniteSet(ToSet(DrawQueue'[b]))
                      /\ Len(DrawQueue'[b]) = Cardinality(ToSet(DrawQueue'[b]))
                      /\ ToSet(DrawQueue'[b]) \subseteq DOMAIN Cases'
    BY DEF ListedOnce
  <2>1. /\ IsFiniteSet(ToSet(DrawQueue[b])) /\ ToSet(DrawQueue[b]) \subseteq DOMAIN Cases
        /\ Len(DrawQueue[b]) = Cardinality(ToSet(DrawQueue[b]))
    BY DEF Docket, ListedOnce
  <2>2. CASE b = place
    <3>1. id \notin ToSet(DrawQueue[b])
      BY <1>3, <2>1
    <3>2. /\ IsFiniteSet(ToSet(DrawQueue[b]) \union {id})
          /\ Cardinality(ToSet(DrawQueue[b]) \union {id}) = Cardinality(ToSet(DrawQueue[b])) + 1
      BY <2>1, <3>1, FS_AddElement
    <3> QED BY <1>3, <1>5, <2>1, <2>2, <3>2
  <2>3. CASE b # place
    BY <1>3, <1>5, <2>1, <2>3
  <2> QED BY <2>2, <2>3
<1>8. OnePlace'
  <2>1. DOMAIN DrawQueue = Queues /\ DOMAIN DrawQueue' = Queues
    BY <1>5 DEF Docket, DocketTypes
  <2>2. QueuedIn(id)' = {place}
    <3>1. \A b \in Queues : id \notin ToSet(DrawQueue[b])
      BY <1>3 DEF Docket, ListedOnce
    <3> QED BY <1>4, <1>5, <2>1, <3>1 DEF QueuedIn
  <2>3. ASSUME NEW i \in DOMAIN Cases PROVE QueuedIn(i)' = QueuedIn(i)
    <3>1. i # id
      BY <1>3
    <3>2. ASSUME NEW b \in Queues
          PROVE  i \in ToSet(DrawQueue'[b]) <=> i \in ToSet(DrawQueue[b])
      <4>1. CASE b = place
        BY <1>5, <3>1, <4>1
      <4>2. CASE b # place
        BY <1>5, <4>2
      <4> QED BY <4>1, <4>2
    <3> QED BY <2>1, <3>2 DEF QueuedIn
  <2>4. ASSUME NEW i \in DOMAIN Cases PROVE Awaiting(i)' <=> Awaiting(i)
    BY <1>3 DEF Awaiting
  <2>5. Awaiting(id)'
    BY <1>1, <1>3 DEF Awaiting
  <2> SUFFICES ASSUME NEW i \in DOMAIN Cases'
               PROVE  IF Awaiting(i)' THEN \E b \in Queues : b > number' /\ QueuedIn(i)' = {b}
                      ELSE QueuedIn(i)' = {}
    BY DEF OnePlace
  <2>6. CASE i = id
    BY <1>1, <1>4, <2>2, <2>5, <2>6
  <2>7. CASE i # id
    BY <1>1, <1>3, <2>3, <2>4, <2>7 DEF Docket, OnePlace
  <2> QED BY <2>6, <2>7
<1> QED
  BY <1>6, <1>7, <1>8 DEF Docket

(* A draw takes every case off the queue of its block and ends its wait.   *)
LEMMA DocketDrawn ==
  ASSUME Docket, NEW committed, number < MaxBlock, number' = number + 1,
         DrawJuries(number + 1, committed)
  PROVE  Docket'
<1> DEFINE n == number + 1
<1>1. PICK jury :
        Cases' = [id \in DOMAIN Cases |->
                    IF id \in Due(n) /\ Cases[id].status = "AwaitingJury"
                    THEN Seated(Cases[id], jury[id]) ELSE Cases[id]]
  BY DEF DrawJuries
<1>2. /\ DrawQueue' = [DrawQueue EXCEPT ![n] = <<>>] /\ DOMAIN Cases' = DOMAIN Cases
  BY <1>1 DEF DrawJuries
<1>3. n \in Queues /\ n \in Nat /\ n <= MaxBlock
  <2>1. number \in Nat /\ MaxBlock \in Nat /\ JuryDrawDelay \in Nat /\ DrawSearch \in Nat
    BY ReputationAssumption, JusticeAssumption DEF Docket, DocketTypes, JusticeConfig
  <2> QED
    BY <2>1 DEF Queues
<1>4. /\ DrawQueue' \in [Queues -> Seq(Nat)] /\ DrawQueue'[n] = <<>>
      /\ \A b \in Queues \ {n} : DrawQueue'[b] = DrawQueue[b]
      /\ DOMAIN DrawQueue = Queues
  BY <1>2, <1>3 DEF Docket, DocketTypes
<1>5. ASSUME NEW id \in DOMAIN Cases
      PROVE  /\ Fields \subseteq DOMAIN Cases'[id]
             /\ Awaiting(id)' <=> Awaiting(id) /\ id \notin Due(n)
  <2>1. Fields \subseteq DOMAIN Cases[id]
    BY DEF Docket, DocketTypes
  <2>2. CASE id \in Due(n) /\ Awaiting(id)
    <3>1. Cases'[id] = Seated(Cases[id], jury[id])
      BY <1>1, <2>2 DEF Awaiting
    <3>2. /\ Fields \subseteq DOMAIN Seated(Cases[id], jury[id])
          /\ Seated(Cases[id], jury[id]).status # "AwaitingJury"
      BY <2>1 DEF Seated, Fields
    <3> QED BY <2>2, <3>1, <3>2 DEF Awaiting
  <2>3. CASE ~(id \in Due(n) /\ Awaiting(id))
    BY <1>1, <2>1, <2>3 DEF Awaiting
  <2> QED BY <2>2, <2>3
<1>6. DocketTypes'
  BY <1>2, <1>3, <1>4, <1>5 DEF Docket, DocketTypes
<1>7. ListedOnce'
  <2>1. ToSet(<<>>) = {} /\ Len(<<>>) = 0
    BY DEF ToSet
  <2> QED BY <1>2, <1>4, <2>1, FS_EmptySet DEF Docket, ListedOnce
<1>8. ASSUME NEW id PROVE QueuedIn(id)' = QueuedIn(id) \ {n}
  <2>1. ToSet(<<>>) = {}
    BY DEF ToSet
  <2> QED BY <1>4, <2>1 DEF QueuedIn
<1>9. OnePlace'
  <2> SUFFICES ASSUME NEW id \in DOMAIN Cases
               PROVE  IF Awaiting(id)' THEN \E b \in Queues : b > n /\ QueuedIn(id)' = {b}
                      ELSE QueuedIn(id)' = {}
    BY <1>2 DEF OnePlace
  <2>1. n \in QueuedIn(id) <=> id \in Due(n)
    BY <1>3, <1>4 DEF QueuedIn, Due
  <2>2. CASE Awaiting(id)
    <3>1. PICK b \in Queues : b > number /\ QueuedIn(id) = {b}
      BY <2>2 DEF Docket, OnePlace
    <3>2. CASE id \in Due(n)
      BY <1>5, <1>8, <2>1, <3>1, <3>2
    <3>3. CASE id \notin Due(n)
      <4>1. b # n /\ b \in Nat
        BY <2>1, <3>1, <3>3 DEF Queues
      <4>2. b > n
        BY <3>1, <4>1 DEF Docket, DocketTypes
      <4> QED BY <1>5, <1>8, <2>2, <3>1, <3>3, <4>1, <4>2
    <3> QED BY <3>2, <3>3
  <2>3. CASE ~Awaiting(id)
    BY <1>5, <1>8, <2>3 DEF Docket, OnePlace
  <2> QED BY <2>2, <2>3
<1> QED
  BY <1>6, <1>7, <1>9 DEF Docket

LEMMA DocketClosed ==
  ASSUME Docket, NEW id \in DOMAIN Cases, NEW status, status # "AwaitingJury",
         Cases[id].status = "Open", Close(id, status),
         DrawQueue' = DrawQueue, number' = number
  PROVE  Docket'
<1>1. /\ DOMAIN Cases' = DOMAIN Cases
      /\ Cases'[id] = [Cases[id] EXCEPT !.status = status]
      /\ \A i \in DOMAIN Cases \ {id} : Cases'[i] = Cases[i]
  BY DEF Close
<1>2. Fields \subseteq DOMAIN Cases'[id] /\ Cases'[id].status = status
  BY <1>1 DEF Docket, DocketTypes, Fields
<1>3. ASSUME NEW i \in DOMAIN Cases
      PROVE  Fields \subseteq DOMAIN Cases'[i] /\ (Awaiting(i)' <=> Awaiting(i))
  BY <1>1, <1>2 DEF Docket, DocketTypes, Awaiting
<1> QED
  BY <1>1, <1>3, DocketKept

LEMMA DocketStep == Docket /\ [Next]_vars => Docket'
<1> SUFFICES ASSUME Docket, [Next]_vars PROVE Docket'
  OBVIOUS
<1>0. ASSUME Cases' = Cases, DrawQueue' = DrawQueue, number' = number PROVE Docket'
  <2>1. \A id \in DOMAIN Cases : Fields \subseteq DOMAIN Cases'[id] /\ (Awaiting(id)' <=> Awaiting(id))
    BY <1>0 DEF Docket, DocketTypes, Awaiting
  <2> QED BY <1>0, <2>1, DocketKept
<1>1. CASE OpenBlock
  BY <1>1, DocketDrawn DEF OpenBlock
<1>2. ASSUME NEW p \in Plaintiffs, NEW d \in Defendants, File(p, d) PROVE Docket'
  BY <1>2, DocketFiled DEF File, OpenCase
<1>3. ASSUME NEW p \in Plaintiffs, NEW d \in Defendants, FileIncapacity(p, d) PROVE Docket'
  BY <1>3, DocketFiled DEF FileIncapacity, OpenIncapacityCase
<1>4. ASSUME NEW tie \in Ties, CastVouch(tie) \/ WithdrawVouch(tie) PROVE Docket'
  BY <1>0, <1>4 DEF CastVouch, WithdrawVouch, Vouch, RevokeVouch, justice
<1>5. ASSUME NEW id \in DOMAIN Cases, Vote(id) PROVE Docket'
  BY <1>0, <1>5 DEF Vote, CastVote
<1>6. ASSUME NEW id \in DOMAIN Cases, Settle(id) PROVE Docket'
  <2>1. PICK closer \in Closers :
          Lapse(closer, id) \/ Acquit(closer, id) \/ Nullify(closer, id) \/ Convict(closer, id)
    BY <1>6 DEF Settle
  <2>2. CASE Lapse(closer, id)
    BY <2>2, DocketClosed DEF Lapse, MayClose
  <2>3. CASE Acquit(closer, id)
    BY <2>3, DocketClosed DEF Acquit, MayClose
  <2>4. CASE Nullify(closer, id)
    BY <2>4, DocketClosed DEF Nullify, MayClose
  <2>5. CASE Convict(closer, id)
    BY <2>5, DocketClosed DEF Convict, MayClose
  <2> QED BY <2>1, <2>2, <2>3, <2>4, <2>5
<1>7. CASE UNCHANGED vars
  BY <1>0, <1>7 DEF vars, justice
<1> QED
  BY <1>1, <1>2, <1>3, <1>4, <1>5, <1>6, <1>7 DEF Next

(* A case that awaits its jury stands in the queue of exactly one block to *)
(* come, any other in none, and no queue lists a case twice.               *)
THEOREM AwaitedOnce == Spec => []AwaitingIsQueued
<1> QED
  BY DocketInit, DocketStep, DocketShows, PTL DEF Spec

-----------------------------------------------------------------------------
(* The jury and the parties of a case are settled at its draw.             *)
SameBench(id) == Cases'[id].jury = Cases[id].jury /\ Cases'[id].parties = Cases[id].parties

LEMMA BenchKept ==
  ASSUME Docket, [Next]_vars, NEW id \in DOMAIN Cases, Cases[id].status = "Open"
  PROVE  SameBench(id)
<1>0. ASSUME Cases' = Cases PROVE SameBench(id)
  BY <1>0 DEF SameBench
<1>1. CASE OpenBlock
  BY <1>1 DEF OpenBlock, DrawJuries, SameBench
<1>2. ASSUME NEW p, NEW d, NEW dim, NEW loss, NEW evidence, NEW extra, NEW incapacity,
             DoOpen(p, d, dim, loss, evidence, extra, incapacity)
      PROVE  SameBench(id)
  <2> DEFINE new == Cardinality(DOMAIN Cases)
  <2>1. PICK k \in Nat : DOMAIN Cases = 0..(k - 1)
    BY DEF Docket, DocketTypes
  <2>2. new = k
    BY <2>1, FS_Interval
  <2>3. id # new
    BY <2>1, <2>2
  <2>4. Cases'[id] = Cases[id]
    BY <1>2, <2>3 DEF DoOpen
  <2> QED BY <2>4 DEF SameBench
<1>3. ASSUME NEW p \in Plaintiffs, NEW d \in Defendants, File(p, d) \/ FileIncapacity(p, d)
      PROVE  SameBench(id)
  BY <1>2, <1>3 DEF File, OpenCase, FileIncapacity, OpenIncapacityCase
<1>4. ASSUME NEW tie \in Ties, CastVouch(tie) \/ WithdrawVouch(tie) PROVE SameBench(id)
  BY <1>0, <1>4 DEF CastVouch, WithdrawVouch, Vouch, RevokeVouch, justice
<1>5. ASSUME NEW i \in DOMAIN Cases, Vote(i) PROVE SameBench(id)
  BY <1>0, <1>5 DEF Vote, CastVote
<1>6. ASSUME NEW i \in DOMAIN Cases, Settle(i) PROVE SameBench(id)
  <2>1. PICK status : Cases' = [Cases EXCEPT ![i].status = status]
    BY <1>6 DEF Settle, Lapse, Acquit, Nullify, Convict, Close
  <2>2. Fields \subseteq DOMAIN Cases[i]
    BY DEF Docket, DocketTypes
  <2> QED BY <2>1, <2>2 DEF SameBench, Fields
<1>7. CASE UNCHANGED vars
  BY <1>0, <1>7 DEF vars, justice
<1> QED
  BY <1>1, <1>3, <1>4, <1>5, <1>6, <1>7 DEF Next

LEMMA TallyKept ==
  ASSUME Docket, [Next]_vars, NEW id \in DOMAIN Cases, Cases[id].status = "Open",
         Votes'[id] = Votes[id], \A j \in Cases[id].jury : Vouches'[j] = Vouches[j]
  PROVE  Counting(id)' = Counting(id)
<1>1. SameBench(id)
  BY BenchKept
<1>2. ASSUME NEW j \in Cases[id].jury
      PROVE  JurorDisqualified(j, Cases[id].parties)' <=> JurorDisqualified(j, Cases[id].parties)
  BY <1>1 DEF SameBench, JurorDisqualified, VouchesFor, Edges
<1> QED
  BY <1>1, <1>2 DEF SameBench, Counting

(* Once the jury of a case sits, what is counted changes only by a vote or *)
(* by a vouch of a juror's own.                                            *)
THEOREM TallyIsTheJurors == Spec => PartiesCannotTurnTheTally
<1>1. Docket /\ [Next]_vars
      => \A id \in DOMAIN Cases :
           (/\ Cases[id].status = "Open"
            /\ Votes'[id] = Votes[id]
            /\ \A j \in Cases[id].jury : Vouches'[j] = Vouches[j])
           => Counting(id)' = Counting(id)
  BY TallyKept
<1> QED
  BY <1>1, DocketInit, DocketStep, PTL DEF Spec, PartiesCannotTurnTheTally

-----------------------------------------------------------------------------
(* The draw.                                                               *)
LEMMA BestDrawIsADraw ==
  ASSUME NEW D, NEW k \in Nat, NEW seq \in [1..(k + 1) -> D], NEW floor
  PROVE  BestDraw(seq, floor) \in D
<1> DEFINE T == Tail(seq)
           Better(best, d) ==
             IF Cardinality(best) >= floor \/ Cardinality(d) <= Cardinality(best) THEN best ELSE d
           iter == CHOOSE g : g = [S \in SUBSET DOMAIN T |->
                     IF S = {} THEN Head(seq) ELSE Better(g[S \ {Max(S)}], T[Max(S)])]
           step == [p \in (1..k) \X D |-> Better(p[2], T[p[1]])]
<1>1. /\ seq \in Seq(D) /\ Len(seq) = k + 1 /\ Head(seq) \in D
      /\ DOMAIN T = 1..k /\ \A i \in 1..k : T[i] \in D
  OBVIOUS
<1>2. BestDraw(seq, floor) = iter[DOMAIN T]
  BY DEF BestDraw, FoldLeft, MapThenFoldSet
<1>3. step \in [(1..k) \X D -> D]
  BY <1>1
<1> HIDE DEF T, Better
<1>s. \A i \in 1..k, d \in D : step[<<i, d>>] = Better(d, T[i])
  OBVIOUS
<1> HIDE DEF step
<1>4. PICK g : SequenceFoldsInto(g, step, Head(seq), k, D)
  BY <1>1, <1>3, SequenceFoldSolvable
<1>m. \A S \in SUBSET (1..k) : S # {} => Max(S) \in 1..k
  BY LastIndex
<1>5. g = [S \in SUBSET (1..k) |-> IF S = {} THEN Head(seq) ELSE Better(g[S \ {Max(S)}], T[Max(S)])]
  <2>1. g \in [SUBSET (1..k) -> D]
    BY <1>4 DEF SequenceFoldsInto
  <2>2. \A S \in SUBSET (1..k) : S # {} =>
          step[<<Max(S), g[S \ {Max(S)}]>>] = Better(g[S \ {Max(S)}], T[Max(S)])
    BY <1>m, <1>s, <2>1
  <2> QED
    BY <1>4, <2>2 DEF SequenceFoldsInto
<1>6. iter = [S \in SUBSET (1..k) |-> IF S = {} THEN Head(seq) ELSE Better(iter[S \ {Max(S)}], T[Max(S)])]
  BY <1>1, <1>5
<1> HIDE DEF iter
<1>7. iter[{}] \in D
  BY <1>1, <1>6
<1>8. \A S \in SUBSET (1..k) : S # {} /\ iter[S \ {Max(S)}] \in D => iter[S] \in D
  <2> SUFFICES ASSUME NEW S \in SUBSET (1..k), S # {}, iter[S \ {Max(S)}] \in D PROVE iter[S] \in D
    OBVIOUS
  <2>1. iter[S] = Better(iter[S \ {Max(S)}], T[Max(S)]) /\ T[Max(S)] \in D
    BY <1>1, <1>6, <1>m
  <2> QED
    BY <2>1 DEF Better
<1>9. iter[1..k] \in D
  BY <1>7, <1>8, SequenceFoldStays
<1> QED
  BY <1>1, <1>2, <1>9

LEMMA SeatsAreCounted ==
  ASSUME NEW value, NEW lam
  PROVE  SeatsOf(value, lam) \in Nat
<1> DEFINE cdf(w, j) == Min({(Total(w, 0..j) * Scale) \div Total(w, 0..MaxSeats), Scale})
           Enough(w) == {j \in 0..(MaxSeats - 1) : value < cdf(w, j)} \union {MaxSeats}
           W == PoissonWeights(lam)
<1>1. SeatsOf(value, lam) = IF lam <= 0 THEN 0 ELSE CHOOSE y \in {Min(Enough(w)) : w \in {W}} : TRUE
  BY DEF SeatsOf, With
<1>2. Enough(W) \in SUBSET Nat /\ Enough(W) # {}
  BY ScaleAssumption
<1> HIDE DEF Enough, W
<1>3. Min(Enough(W)) \in Nat
  BY <1>2, LeastBelongs
<1>4. {Min(Enough(w)) : w \in {W}} = {Min(Enough(W))}
  OBVIOUS
<1>5. (CHOOSE y \in {Min(Enough(W))} : TRUE) = Min(Enough(W))
  OBVIOUS
<1> QED
  BY <1>1, <1>3, <1>4, <1>5

LEMMA WinnersHaveSeats ==
  ASSUME NEW weights, NEW vrf, NEW tau
  PROVE  \E S \in SUBSET DOMAIN weights : ElectCommittee(weights, vrf, tau) \in [S -> Nat]
<1> DEFINE total == Total(weights, Positive(weights))
           Lam(n) == FpMul(tau * Scale, FpDiv(weights[n], total))
           f == [n \in Positive(weights) |-> SeatsOf(vrf[n], Lam(n))]
           Winners(seats) == CHOOSE g \in {[n \in Positive(seats) |-> seats[n]]} : g = g
           T == CHOOSE g \in {f} : g = g
<1>1. ElectCommittee(weights, vrf, tau) = CHOOSE y \in {Winners(seats) : seats \in {T}} : TRUE
  BY DEF ElectCommittee, With, Tabulated
<1>2. T = f
  OBVIOUS
<1>3. f \in [Positive(weights) -> Nat]
  BY SeatsAreCounted
<1> HIDE DEF f, T
<1>4. Winners(f) = [n \in Positive(f) |-> f[n]]
  OBVIOUS
<1>5. Winners(f) \in [Positive(f) -> Nat] /\ Positive(f) \in SUBSET DOMAIN weights
  BY <1>3, <1>4 DEF Positive
<1> HIDE DEF Winners
<1>6. {Winners(seats) : seats \in {f}} = {Winners(f)}
  OBVIOUS
<1>7. (CHOOSE y \in {Winners(f)} : TRUE) = Winners(f)
  OBVIOUS
<1> QED
  BY <1>1, <1>2, <1>5, <1>6, <1>7

Ahead(seats, m) == {k \in DOMAIN seats : seats[k] > seats[m] \/ (seats[k] = seats[m] /\ k < m)}

LEMMA TallyFits ==
  ASSUME NEW S, S \subseteq Nat, IsFiniteSet(S), NEW seats \in [S -> Nat], MaxJury \in Nat
  PROVE  /\ Tally(seats) \subseteq S /\ IsFiniteSet(Tally(seats))
         /\ Cardinality(Tally(seats)) <= MaxJury
<1> DEFINE T == Tally(seats)
           rank(m) == Cardinality(Ahead(seats, m))
           ranks == {rank(m) : m \in T}
<1>1. T = {m \in S : rank(m) < MaxJury}
  BY DEF Tally, Ahead
<1>2. IsFiniteSet(T) /\ Cardinality(T) \in Nat
  BY <1>1, FS_Subset, FS_CardinalityType
<1>3. \A m \in S : IsFiniteSet(Ahead(seats, m)) /\ rank(m) \in Nat
  BY FS_Subset, FS_CardinalityType DEF Ahead
<1>4. ASSUME T # {} PROVE Cardinality(T) <= MaxJury
  <2>1. ranks \in SUBSET (0..MaxJury) /\ ranks # {}
    <3>1. ASSUME NEW m \in T PROVE rank(m) \in 0..MaxJury
      <4>1. m \in S /\ rank(m) < MaxJury
        BY <1>1
      <4>2. rank(m) \in Nat
        BY <1>3, <4>1
      <4> HIDE DEF rank
      <4> QED
        BY <4>1, <4>2
    <3>2. PICK m \in T : TRUE
      BY <1>4
    <3> HIDE DEF rank, T
    <3>3. rank(m) \in ranks
      OBVIOUS
    <3>4. \A r \in ranks : r \in 0..MaxJury
      BY <3>1
    <3> QED
      BY <3>3, <3>4
  <2> HIDE DEF ranks
  <2>2. Max(ranks) \in ranks /\ \A r \in ranks : r <= Max(ranks)
    BY <2>1, GreatestBelongs
  <2>3. PICK m \in T : \A k \in T : rank(k) <= rank(m)
    BY <2>2 DEF ranks
  <2>4. m \in S /\ rank(m) < MaxJury /\ rank(m) \in Nat
    BY <1>1, <1>3
  <2>5. ASSUME NEW k \in T, k # m PROVE k \in Ahead(seats, m)
    <3>0. k \in S /\ k \in Nat /\ m \in Nat /\ seats[k] \in Nat /\ seats[m] \in Nat
      BY <1>1, <2>4
    <3>1. ASSUME k \notin Ahead(seats, m) PROVE FALSE
      <4>1. m \in Ahead(seats, k)
        BY <2>4, <2>5, <3>0, <3>1 DEF Ahead
      <4>2. Ahead(seats, m) \subseteq Ahead(seats, k)
        <5> SUFFICES ASSUME NEW j \in Ahead(seats, m) PROVE j \in Ahead(seats, k)
          OBVIOUS
        <5>1. j \in S /\ j \in Nat /\ seats[j] \in Nat
          BY DEF Ahead
        <5> QED
          BY <5>1, <4>1, <3>0 DEF Ahead
      <4>3. m \notin Ahead(seats, m)
        BY <2>4, <3>0 DEF Ahead
      <4>4. Cardinality(Ahead(seats, m) \cup {m}) = rank(m) + 1
        BY <1>3, <2>4, <4>3, FS_AddElement
      <4>5. Cardinality(Ahead(seats, m) \cup {m}) <= rank(k)
        BY <1>3, <3>0, <4>1, <4>2, FS_Subset
      <4>6. rank(k) <= rank(m) /\ rank(k) \in Nat
        BY <1>3, <2>3, <3>0
      <4> QED
        BY <2>4, <4>4, <4>5, <4>6
    <3> QED
      BY <3>1
  <2>6. T \ {m} \subseteq Ahead(seats, m)
    BY <2>5
  <2>7. Cardinality(T \ {m}) <= rank(m) /\ Cardinality(T \ {m}) = Cardinality(T) - 1
    BY <1>2, <1>3, <2>4, <2>6, FS_Subset, FS_RemoveElement
  <2> QED
    BY <1>2, <2>4, <2>7
<1>5. T \subseteq S
  BY <1>1
<1>6. ASSUME T = {} PROVE Cardinality(T) <= MaxJury
  BY <1>6, FS_EmptySet
<1> QED
  BY <1>2, <1>4, <1>5, <1>6

Cutoff(c) == Saturating(c.opened_at, InterestCooling)
MaySit(m, c) == ~ExcludesAtDraw(m, c.parties, Cutoff(c))

LEMMA JuryFits ==
  ASSUME NEW c, NEW reps, DOMAIN reps \subseteq Masks, NEW committed,
         NEW jury \in Juries(c, reps, committed)
  PROVE  /\ jury \subseteq DOMAIN reps /\ \A m \in jury : MaySit(m, c)
         /\ IsFiniteSet(jury) /\ Cardinality(jury) <= MaxJury
<1> DEFINE weight(m) == IF RelationDepth(m, c.parties) = 2
                        THEN (Depth2Weight * reps[m]) \div 100 ELSE reps[m]
           pool == {m \in DOMAIN reps : MaySit(m, c) /\ weight(m) > 0}
           P == [m \in pool |-> weight(m)]
           Same(f) == CHOOSE g \in {f} : g = g
           eligible(p) == Electorate(DOMAIN p, committed)
           weights(p) == Same([m \in eligible(p) |-> p[m]])
           draws(p) == {Tally(ElectCommittee(weights(p), vrf, JurySize)) :
                          vrf \in [eligible(p) -> VrfValues]}
           juries(p) == IF eligible(p) = {} THEN {{}}
                        ELSE {BestDraw(seq, DrawFloor(eligible(p))) :
                                seq \in [1..(Redraws + 1) -> draws(p)]}
<1>1. Juries(c, reps, committed) = CHOOSE y \in {juries(p) : p \in {Same(P)}} : TRUE
  BY DEF Juries, With, DrawWeights, Tabulated, MaySit, Cutoff
<1>2. Same(P) = P
  OBVIOUS
<1>3. DOMAIN P = pool /\ pool \subseteq DOMAIN reps /\ \A m \in pool : MaySit(m, c)
  OBVIOUS
<1> HIDE DEF P, pool, weight
<1>4. \A f : Same(f) = f
  OBVIOUS
<1> HIDE DEF Same
<1>5. Juries(c, reps, committed) = juries(P)
  <2> HIDE DEF juries
  <2>1. {juries(p) : p \in {P}} = {juries(P)}
    OBVIOUS
  <2>2. (CHOOSE y \in {juries(P)} : TRUE) = juries(P)
    OBVIOUS
  <2> QED
    BY <1>1, <1>2, <2>1, <2>2
<1>6. eligible(P) \subseteq pool
  BY <1>3 DEF Electorate
<1>7. DOMAIN weights(P) = eligible(P)
  BY <1>4
<1>8. ASSUME NEW d \in draws(P)
      PROVE  d \subseteq pool /\ IsFiniteSet(d) /\ Cardinality(d) <= MaxJury
  <2>1. PICK vrf : d = Tally(ElectCommittee(weights(P), vrf, JurySize))
    OBVIOUS
  <2>2. PICK S \in SUBSET eligible(P) : ElectCommittee(weights(P), vrf, JurySize) \in [S -> Nat]
    BY <1>7, WinnersHaveSeats
  <2>3. S \subseteq pool /\ S \subseteq Nat /\ IsFiniteSet(S) /\ MaxJury \in Nat
    BY <1>3, <1>6, FS_Subset, ReputationAssumption, JusticeAssumption DEF JusticeConfig
  <2> QED
    BY <2>1, <2>2, <2>3, TallyFits
<1>9. CASE eligible(P) = {}
  <2>1. jury = {}
    BY <1>5, <1>9
  <2>2. Cardinality({}) = 0 /\ IsFiniteSet({}) /\ MaxJury \in Nat
    BY FS_EmptySet, JusticeAssumption DEF JusticeConfig
  <2> QED
    BY <2>1, <2>2
<1>10. CASE eligible(P) # {}
  <2> HIDE DEF draws, eligible
  <2>1. PICK seq \in [1..(Redraws + 1) -> draws(P)] : jury = BestDraw(seq, DrawFloor(eligible(P)))
    BY <1>5, <1>10
  <2>2. Redraws \in Nat
    BY JusticeAssumption
  <2>3. jury \in draws(P)
    BY <2>1, <2>2, BestDrawIsADraw
  <2> QED
    BY <1>3, <1>8, <2>3
<1> QED
  BY <1>9, <1>10

LEMMA ReputedAreMasks ==
  ASSUME NEW snapshot
  PROVE  DOMAIN ConsensusReputation(snapshot) \subseteq Masks
<1> DEFINE Same(f) == CHOOSE g \in {f} : g = g
           all == [m \in Masks |-> ConsensusReputationOf(snapshot, m)]
           Of(f) == Same([m \in Positive(f) |-> f[m]])
<1>1. ConsensusReputation(snapshot) = CHOOSE y \in {Of(f) : f \in {Same(all)}} : TRUE
  BY DEF ConsensusReputation, With, Tabulated
<1>2. \A f : Same(f) = f
  OBVIOUS
<1>3. DOMAIN all = Masks
  OBVIOUS
<1> HIDE DEF Same, all
<1>4. DOMAIN Of(all) = Positive(all) /\ Positive(all) \subseteq Masks
  BY <1>2, <1>3 DEF Positive
<1> HIDE DEF Of
<1>5. {Of(f) : f \in {all}} = {Of(all)} /\ (CHOOSE y \in {Of(all)} : TRUE) = Of(all)
  OBVIOUS
<1> QED
  BY <1>1, <1>2, <1>4, <1>5

(* What a block does to a case: it waits on, or it is drawn among those who *)
(* may sit in it.                                                          *)
Fits(jury, c) ==
  /\ jury \subseteq Masks /\ \A m \in jury : MaySit(m, c)
  /\ IsFiniteSet(jury) /\ Cardinality(jury) <= MaxJury

LEMMA DrawnAmongFit ==
  ASSUME NEW n, NEW committed, DrawJuries(n, committed), NEW id \in DOMAIN Cases
  PROVE  \/ Cases'[id] = Cases[id]
         \/ /\ Awaiting(id)
            /\ \E jury : Fits(jury, Cases[id]) /\ Cases'[id] = Seated(Cases[id], jury)
<1>1. PICK reps \in {ConsensusReputation(ReputationSnapshot')} :
        \E jury \in [Due(n) -> UNION {Juries(Cases[i], reps, committed) : i \in Due(n)}] :
          /\ \A i \in Due(n) : jury[i] \in Juries(Cases[i], reps, committed)
          /\ Cases' = [i \in DOMAIN Cases |->
                         IF i \in Due(n) /\ Cases[i].status = "AwaitingJury"
                         THEN Seated(Cases[i], jury[i]) ELSE Cases[i]]
  BY DEF DrawJuries
<1>2. PICK jury :
        /\ \A i \in Due(n) : jury[i] \in Juries(Cases[i], reps, committed)
        /\ Cases' = [i \in DOMAIN Cases |->
                       IF i \in Due(n) /\ Cases[i].status = "AwaitingJury"
                       THEN Seated(Cases[i], jury[i]) ELSE Cases[i]]
  BY <1>1
<1>3. DOMAIN reps \subseteq Masks
  BY <1>1, ReputedAreMasks
<1>4. CASE id \in Due(n) /\ Cases[id].status = "AwaitingJury"
  <2>1. Cases'[id] = Seated(Cases[id], jury[id])
    BY <1>2, <1>4
  <2>2. jury[id] \in Juries(Cases[id], reps, committed)
    BY <1>2, <1>4
  <2>3. Fits(jury[id], Cases[id])
    BY <1>3, <2>2, JuryFits DEF Fits
  <2> QED
    BY <1>4, <2>1, <2>3 DEF Awaiting
<1>5. CASE ~(id \in Due(n) /\ Cases[id].status = "AwaitingJury")
  BY <1>2, <1>5
<1> QED
  BY <1>4, <1>5

(* Every step: a case stays as it was, gets its jury, or is closed.        *)
Closings == {"ResolvedGuilty", "ResolvedNotGuilty", "Lapsed"}
Stays(id) == Cases'[id] = Cases[id]
GetsJury(id) ==
  /\ Awaiting(id) /\ number' = number + 1 /\ number < MaxBlock
  /\ UNCHANGED <<Votes, Vouches, GuiltyMarks>>
  /\ \E jury : Fits(jury, Cases[id]) /\ Cases'[id] = Seated(Cases[id], jury)
IsClosed(id) ==
  /\ Cases[id].status = "Open" /\ UNCHANGED Votes
  /\ \E status \in Closings : Cases'[id] = [Cases[id] EXCEPT !.status = status]

LEMMA FilingKeeps ==
  ASSUME Docket, NEW p, NEW d, NEW dim, NEW loss, NEW evidence, NEW extra, NEW incapacity,
         DoOpen(p, d, dim, loss, evidence, extra, incapacity), NEW id \in DOMAIN Cases
  PROVE  Stays(id)
<1>1. PICK k \in Nat : DOMAIN Cases = 0..(k - 1)
  BY DEF Docket, DocketTypes
<1>2. Cardinality(DOMAIN Cases) = k
  BY <1>1, FS_Interval
<1>3. id # Cardinality(DOMAIN Cases)
  BY <1>1, <1>2
<1> QED
  BY <1>3 DEF DoOpen, Stays

LEMMA CaseStep ==
  ASSUME Docket, [Next]_vars, NEW id \in DOMAIN Cases
  PROVE  Stays(id) \/ GetsJury(id) \/ IsClosed(id)
<1>0. ASSUME Cases' = Cases PROVE Stays(id)
  BY <1>0 DEF Stays
<1>1. CASE OpenBlock
  <2>1. PICK committed \in Committers : DrawJuries(number + 1, committed)
    BY <1>1 DEF OpenBlock
  <2>2. number' = number + 1 /\ number < MaxBlock /\ UNCHANGED <<Votes, Vouches, GuiltyMarks>>
    BY <1>1, <2>1 DEF OpenBlock, OnInitialize, RunEpoch, reputation, graph, DrawJuries
  <2> QED
    BY <2>1, <2>2, DrawnAmongFit DEF Stays, GetsJury
<1>2. ASSUME NEW p \in Plaintiffs, NEW d \in Defendants, File(p, d) \/ FileIncapacity(p, d)
      PROVE  Stays(id)
  BY <1>2, FilingKeeps DEF File, OpenCase, FileIncapacity, OpenIncapacityCase
<1>3. ASSUME NEW tie \in Ties, CastVouch(tie) \/ WithdrawVouch(tie) PROVE Stays(id)
  BY <1>0, <1>3 DEF CastVouch, WithdrawVouch, Vouch, RevokeVouch, justice
<1>4. ASSUME NEW i \in DOMAIN Cases, Vote(i) PROVE Stays(id)
  BY <1>0, <1>4 DEF Vote, CastVote
<1>5. ASSUME NEW i \in DOMAIN Cases, Settle(i) PROVE Stays(id) \/ IsClosed(id)
  <2>1. PICK status \in Closings : Cases' = [Cases EXCEPT ![i].status = status]
    BY <1>5 DEF Settle, Lapse, Acquit, Nullify, Convict, Close, Closings
  <2>2. Cases[i].status = "Open" /\ UNCHANGED Votes
    BY <1>5 DEF Settle, Lapse, Acquit, Nullify, Convict, MayClose
  <2>3. CASE i = id
    BY <2>1, <2>2, <2>3 DEF IsClosed
  <2>4. CASE i # id
    BY <2>1, <2>4 DEF Stays
  <2> QED
    BY <2>3, <2>4
<1>6. CASE UNCHANGED vars
  BY <1>0, <1>6 DEF vars, justice
<1> QED
  BY <1>1, <1>2, <1>3, <1>4, <1>5, <1>6 DEF Next

LEMMA SeatedMayVote ==
  ASSUME Docket, [Next]_vars, NEW id \in DOMAIN Cases,
         Cases[id].status = "AwaitingJury", Cases'[id].status = "Open"
  PROVE  \A j \in Cases'[id].jury : ~JurorDisqualified(j, Cases[id].parties)'
<1>1. Fields \subseteq DOMAIN Cases[id]
  BY DEF Docket, DocketTypes
<1>2. GetsJury(id)
  BY CaseStep DEF Stays, IsClosed
<1>3. PICK jury : Fits(jury, Cases[id]) /\ Cases'[id] = Seated(Cases[id], jury)
  BY <1>2 DEF GetsJury
<1>4. Cases'[id].jury = jury /\ Cases'[id].parties = Cases[id].parties
  <2>1. jury # {}
    BY <1>1, <1>3 DEF Seated, Fields
  <2> QED
    BY <1>1, <1>3, <2>1 DEF Seated, Fields
<1>5. Vouches' = Vouches
  BY <1>2 DEF GetsJury
<1>6. ASSUME NEW j \in jury PROVE ~JurorDisqualified(j, Cases[id].parties)
  <2>1. ~ExcludesAtDraw(j, Cases[id].parties, Cutoff(Cases[id]))
    BY <1>3 DEF Fits, MaySit
  <2> QED
    BY <2>1 DEF ExcludesAtDraw, JurorDisqualified
<1> QED
  BY <1>4, <1>5, <1>6 DEF JurorDisqualified, VouchesFor, Edges

(* Whoever the draw seats could vote at that moment: the draw looks for    *)
(* every interest that voids a vote.                                       *)
THEOREM JurorsCanVote == Spec => SeatedJurorsCanVote
<1>1. Docket /\ [Next]_vars
      => \A id \in DOMAIN Cases :
           Cases[id].status = "AwaitingJury" /\ Cases'[id].status = "Open"
           => \A j \in Cases'[id].jury : ~JurorDisqualified(j, Cases[id].parties)'
  BY SeatedMayVote
<1> QED
  BY <1>1, DocketInit, DocketStep, PTL DEF Spec, SeatedJurorsCanVote

-----------------------------------------------------------------------------
(* The register: what a case holds, who has a vote in it, and the marks it *)
(* leaves.                                                                 *)
CaseInOrder(c) ==
  /\ c \in Case
  /\ c.jury \cap c.parties = {} /\ Cardinality(c.jury) <= MaxJury
  /\ c.jury = {} => c.status \in {"AwaitingJury", "Lapsed"}
  /\ c.status = "AwaitingJury" => c.jury = {}

CasesInOrder == \A id \in DOMAIN Cases : CaseInOrder(Cases[id])
VotesInOrder ==
  /\ DOMAIN Votes = DOMAIN Cases
  /\ \A id \in DOMAIN Cases : DOMAIN Votes[id] \subseteq Cases[id].jury
Lost(id, m) ==
  /\ id \in DOMAIN Cases
  /\ Cases[id].defendant = m /\ ~Cases[id].incapacity /\ Cases[id].status = "ResolvedGuilty"
MarksInOrder ==
  /\ GuiltyMarks \in [Masks -> Seq(Nat)]
  /\ \A m \in Masks :
       /\ \A i, j \in DOMAIN GuiltyMarks[m] : GuiltyMarks[m][i] = GuiltyMarks[m][j] => i = j
       /\ \A id \in ToSet(GuiltyMarks[m]) : Lost(id, m)
Register == Docket /\ CasesInOrder /\ VotesInOrder /\ MarksInOrder

LEMMA RegisterInit == Init => Register
<1> SUFFICES ASSUME Init PROVE Register
  OBVIOUS
<1>1. /\ Cases = <<>> /\ Votes = <<>> /\ GuiltyMarks = [m \in Masks |-> <<>>]
  BY DEF Init, InitJustice
<1>2. DOMAIN Cases = {} /\ DOMAIN Votes = {}
  BY <1>1
<1>3. ToSet(<<>>) = {} /\ DOMAIN <<>> = {} /\ <<>> \in Seq(Nat)
  BY DEF ToSet
<1>4. MarksInOrder
  BY <1>1, <1>3 DEF MarksInOrder
<1> QED
  BY <1>2, <1>4, DocketInit DEF Register, CasesInOrder, VotesInOrder

LEMMA RegisterShows == Register => DocketInOrder
<1> SUFFICES ASSUME Register PROVE DocketInOrder
  OBVIOUS
<1>1. ASSUME NEW id \in DOMAIN Cases
      PROVE  LET c == Cases[id] IN
             /\ c \in Case
             /\ c.jury \cap c.parties = {} /\ Cardinality(c.jury) <= MaxJury
             /\ DOMAIN Votes[id] \subseteq c.jury
             /\ c.jury = {} => c.status \in {"AwaitingJury", "Lapsed"}
             /\ c.status = "AwaitingJury" => c.jury = {}
  BY DEF Register, CasesInOrder, CaseInOrder, VotesInOrder
<1>2. ASSUME NEW m \in Masks
      PROVE  /\ \A i, j \in DOMAIN GuiltyMarks[m] : GuiltyMarks[m][i] = GuiltyMarks[m][j] => i = j
             /\ \A id \in ToSet(GuiltyMarks[m]) :
                  /\ Cases[id].defendant = m /\ ~Cases[id].incapacity
                  /\ Cases[id].status = "ResolvedGuilty"
  BY DEF Register, MarksInOrder, Lost
<1> QED
  BY <1>1, <1>2 DEF DocketInOrder

LEMMA SeatedInOrder ==
  ASSUME NEW c, CaseInOrder(c), c.status = "AwaitingJury", NEW jury, Fits(jury, c),
         number' \in 0..MaxBlock
  PROVE  CaseInOrder(Seated(c, jury))
<1>1. jury \cap c.parties = {}
  BY DEF Fits, MaySit, ExcludesAtDraw
<1>2. c \in Case /\ c.jury = {}
  BY DEF CaseInOrder
<1>3. CASE jury = {}
  <2>1. Seated(c, jury) = [c EXCEPT !.status = "Lapsed"]
    BY <1>3 DEF Seated
  <2>2. [c EXCEPT !.status = "Lapsed"] \in Case
    BY <1>2 DEF Case, CaseStatus
  <2> QED
    BY <1>2, <2>1, <2>2 DEF CaseInOrder, Case
<1>4. CASE jury # {}
  <2> DEFINE d == [c EXCEPT !.status = "Open", !.jury = jury, !.opened_at = number']
  <2>1. Seated(c, jury) = d
    BY <1>4 DEF Seated
  <2>2. d \in Case
    BY <1>2 DEF Case, CaseStatus, Fits
  <2>3. d.jury = jury /\ d.status = "Open" /\ d.parties = c.parties
    BY <1>2 DEF Case
  <2> HIDE DEF d
  <2> QED
    BY <1>1, <1>4, <2>1, <2>2, <2>3 DEF CaseInOrder, Fits
<1> QED
  BY <1>3, <1>4

LEMMA ClosedInOrder ==
  ASSUME NEW c, CaseInOrder(c), c.status = "Open", NEW status \in Closings
  PROVE  CaseInOrder([c EXCEPT !.status = status])
<1> DEFINE d == [c EXCEPT !.status = status]
<1>1. c \in Case
  BY DEF CaseInOrder
<1>2. d \in Case /\ d.status = status /\ d.jury = c.jury /\ d.parties = c.parties
  BY <1>1 DEF Case, CaseStatus, Closings
<1>3. c.jury # {}
  BY DEF CaseInOrder
<1> HIDE DEF d
<1>4. CaseInOrder(d)
  BY <1>2, <1>3 DEF CaseInOrder, Closings
<1> QED
  BY <1>4 DEF d

LEMMA CaseStaysInOrder ==
  ASSUME Register, [Next]_vars, NEW id \in DOMAIN Cases
  PROVE  CaseInOrder(Cases'[id])
<1>1. CaseInOrder(Cases[id])
  BY DEF Register, CasesInOrder
<1>2. CASE Stays(id)
  BY <1>1, <1>2 DEF Stays
<1>3. CASE GetsJury(id)
  <2>1. number' \in 0..MaxBlock
    BY <1>3, ReputationAssumption DEF GetsJury, Register, Docket, DocketTypes
  <2> QED
    BY <1>1, <1>3, <2>1, SeatedInOrder DEF GetsJury, Awaiting
<1>4. CASE IsClosed(id)
  BY <1>1, <1>4, ClosedInOrder DEF IsClosed
<1> QED
  BY <1>2, <1>3, <1>4, CaseStep DEF Register

LEMMA FiledInOrder ==
  ASSUME Register, NEW p \in Masks, NEW d \in Masks, NEW dim, NEW loss \in Nat,
         NEW evidence \in SUBSET Nat, NEW extra \in SUBSET Masks, NEW incapacity \in BOOLEAN,
         DoOpen(p, d, dim, loss, evidence, extra, incapacity)
  PROVE  \E id : /\ DOMAIN Cases' = DOMAIN Cases \cup {id} /\ id \notin DOMAIN Cases
                 /\ CaseInOrder(Cases'[id])
                 /\ Votes' = [i \in DOMAIN Votes \union {id} |-> IF i = id THEN <<>> ELSE Votes[i]]
                 /\ GuiltyMarks' = GuiltyMarks
<1> DEFINE id == Cardinality(DOMAIN Cases)
           c == [plaintiff |-> p, defendant |-> d, suit |-> Suit(dim),
                 loss |-> loss, evidence |-> evidence, incapacity |-> incapacity,
                 parties |-> {p, d} \union extra, jury |-> {},
                 status |-> "AwaitingJury", opened_at |-> number]
<1>1. PICK k \in Nat : DOMAIN Cases = 0..(k - 1)
  BY DEF Register, Docket, DocketTypes
<1>2. id = k /\ id \notin DOMAIN Cases
  BY <1>1, FS_Interval
<1>3. /\ dim \in 0..3
      /\ Cases' = [i \in DOMAIN Cases \union {id} |-> IF i # id THEN Cases[i] ELSE c]
      /\ Votes' = [i \in DOMAIN Votes \union {id} |-> IF i = id THEN <<>> ELSE Votes[i]]
      /\ GuiltyMarks' = GuiltyMarks
  BY DEF DoOpen
<1>4. Suit(dim) \in Suits
  BY <1>3 DEF Suit, SuitAll, Suits
<1>5. number \in 0..MaxBlock
  BY DEF Register, Docket, DocketTypes
<1>6. {p, d} \union extra \in SUBSET Masks
  OBVIOUS
<1>7. c \in Case /\ c.jury = {} /\ c.status = "AwaitingJury"
  BY <1>4, <1>5, <1>6 DEF Case, CaseStatus
<1> HIDE DEF c
<1>8. CaseInOrder(c)
  <2>1. Cardinality({}) = 0 /\ MaxJury \in Nat
    BY FS_EmptySet, JusticeAssumption DEF JusticeConfig
  <2> QED
    BY <1>7, <2>1 DEF CaseInOrder
<1>9. DOMAIN Cases' = DOMAIN Cases \cup {id} /\ Cases'[id] = c
  BY <1>3
<1> QED
  BY <1>2, <1>3, <1>8, <1>9

(* A step files a case, or leaves the set of cases as it is; a vote is a   *)
(* juror's, and only a conviction leaves a mark.                           *)
SomeCaseFiled ==
  \E id : /\ DOMAIN Cases' = DOMAIN Cases \cup {id} /\ id \notin DOMAIN Cases
          /\ CaseInOrder(Cases'[id])
          /\ Votes' = [i \in DOMAIN Votes \union {id} |-> IF i = id THEN <<>> ELSE Votes[i]]
          /\ GuiltyMarks' = GuiltyMarks
SomeVoteCast ==
  /\ UNCHANGED <<Cases, GuiltyMarks>>
  /\ \E id \in DOMAIN Cases : \E juror, guilty :
       /\ juror \in Cases[id].jury
       /\ Votes' = [Votes EXCEPT ![id] = [j \in DOMAIN @ \union {juror} |->
                                            IF j = juror THEN guilty ELSE @[j]]]
SomeoneConvicted ==
  \E closer : \E id \in DOMAIN Cases : Convict(closer, id)
OnlyCasesChange == DOMAIN Cases' = DOMAIN Cases /\ UNCHANGED <<Votes, GuiltyMarks>>

LEMMA RegisterChanges ==
  ASSUME Register, [Next]_vars
  PROVE  SomeCaseFiled \/ SomeVoteCast \/ SomeoneConvicted \/ OnlyCasesChange
<1>1. CASE OpenBlock
  <2>1. PICK committed \in Committers : DrawJuries(number + 1, committed)
    BY <1>1 DEF OpenBlock
  <2> QED
    BY <2>1 DEF DrawJuries, OnlyCasesChange
<1>2. ASSUME NEW p \in Plaintiffs, NEW d \in Defendants, File(p, d) \/ FileIncapacity(p, d)
      PROVE  SomeCaseFiled
  <2>1. p \in Masks /\ d \in Masks
    BY CourtAssumption
  <2>2. CASE File(p, d)
    <3>1. PICK evidence \in Evidences, loss \in Losses, extra \in Tied :
            DoOpen(p, d, 1, loss, evidence, extra, FALSE)
      BY <2>2 DEF File, OpenCase
    <3>2. evidence \in SUBSET Nat /\ loss \in Nat /\ extra \in SUBSET Masks
      BY CourtAssumption
    <3> QED
      BY <2>1, <3>1, <3>2, FiledInOrder DEF SomeCaseFiled
  <2>3. CASE FileIncapacity(p, d)
    <3>1. PICK extra \in Tied : DoOpen(p, d, 2, 0, {}, extra, TRUE)
      BY <2>3 DEF FileIncapacity, OpenIncapacityCase
    <3>2. extra \in SUBSET Masks
      BY CourtAssumption
    <3> QED
      BY <2>1, <3>1, <3>2, FiledInOrder DEF SomeCaseFiled
  <2> QED
    BY <1>2, <2>2, <2>3
<1>3. ASSUME NEW tie \in Ties, CastVouch(tie) \/ WithdrawVouch(tie) PROVE OnlyCasesChange
  <2>1. UNCHANGED justice
    BY <1>3 DEF CastVouch, WithdrawVouch
  <2> QED
    BY <2>1 DEF justice, OnlyCasesChange
<1>4. ASSUME NEW i \in DOMAIN Cases, Vote(i) PROVE SomeVoteCast
  <2>1. PICK juror \in Cases[i].jury, guilty \in BOOLEAN : CastVote(juror, i, guilty)
    BY <1>4 DEF Vote
  <2>2. UNCHANGED <<Cases, GuiltyMarks>>
    BY <2>1 DEF CastVote
  <2>3. Votes' = [Votes EXCEPT ![i] = [j \in DOMAIN @ \union {juror} |->
                                         IF j = juror THEN guilty ELSE @[j]]]
    BY <2>1 DEF CastVote
  <2> QED
    BY <2>2, <2>3, Zenon DEF SomeVoteCast
<1>5. ASSUME NEW i \in DOMAIN Cases, Settle(i) PROVE SomeoneConvicted \/ OnlyCasesChange
  <2>1. PICK closer \in Closers :
          Lapse(closer, i) \/ Acquit(closer, i) \/ Nullify(closer, i) \/ Convict(closer, i)
    BY <1>5 DEF Settle
  <2>2. CASE Convict(closer, i)
    BY <2>2 DEF SomeoneConvicted
  <2>3. CASE Lapse(closer, i) \/ Acquit(closer, i) \/ Nullify(closer, i)
    <3>1. PICK status : Cases' = [Cases EXCEPT ![i].status = status]
      BY <2>3 DEF Lapse, Acquit, Nullify, Close
    <3>2. UNCHANGED <<Votes, GuiltyMarks>>
      BY <2>3 DEF Lapse, Acquit, Nullify
    <3> QED
      BY <3>1, <3>2 DEF OnlyCasesChange
  <2> QED
    BY <2>1, <2>2, <2>3
<1>6. CASE UNCHANGED vars
  BY <1>6 DEF vars, justice, OnlyCasesChange
<1> QED
  BY <1>1, <1>2, <1>3, <1>4, <1>5, <1>6 DEF Next

LEMMA ConvictChanges ==
  ASSUME Register, NEW closer, NEW id \in DOMAIN Cases, Convict(closer, id)
  PROVE  LET m == Cases[id].defendant
             kept == IF Len(GuiltyMarks[m]) = MaxGuiltyMarks THEN Tail(GuiltyMarks[m])
                     ELSE GuiltyMarks[m]
         IN  /\ Cases[id].status = "Open" /\ ~Cases[id].incapacity /\ m \in Masks
             /\ Cases' = [Cases EXCEPT ![id].status = "ResolvedGuilty"]
             /\ DOMAIN Cases' = DOMAIN Cases /\ Votes' = Votes
             /\ GuiltyMarks' = [GuiltyMarks EXCEPT ![m] = Append(kept, id)]
<1>1. /\ Cases[id].status = "Open" /\ ~Cases[id].incapacity
      /\ Cases' = [Cases EXCEPT ![id].status = "ResolvedGuilty"] /\ Votes' = Votes
  BY DEF Convict, MayClose, Close
<1>2. Cases[id] \in Case
  BY DEF Register, CasesInOrder, CaseInOrder
<1>3. GuiltyMarks' = [GuiltyMarks EXCEPT ![Cases[id].defendant] =
         Append(IF Len(GuiltyMarks[Cases[id].defendant]) = MaxGuiltyMarks
                THEN Tail(GuiltyMarks[Cases[id].defendant])
                ELSE GuiltyMarks[Cases[id].defendant], id)]
  BY DEF Convict
<1> QED
  BY <1>1, <1>2, <1>3 DEF Case

LEMMA CasesStep == Register /\ [Next]_vars => CasesInOrder' /\ DOMAIN Cases \subseteq DOMAIN Cases'
<1> SUFFICES ASSUME Register, [Next]_vars
             PROVE  CasesInOrder' /\ DOMAIN Cases \subseteq DOMAIN Cases'
  OBVIOUS
<1>1. CASE SomeCaseFiled
  <2>1. PICK id : DOMAIN Cases' = DOMAIN Cases \cup {id} /\ CaseInOrder(Cases'[id])
    BY <1>1 DEF SomeCaseFiled
  <2> QED
    BY <2>1, CaseStaysInOrder DEF CasesInOrder
<1>2. CASE DOMAIN Cases' = DOMAIN Cases
  BY <1>2, CaseStaysInOrder DEF CasesInOrder
<1>3. CASE SomeoneConvicted
  BY <1>2, <1>3, ConvictChanges DEF SomeoneConvicted
<1> QED
  BY <1>1, <1>2, <1>3, RegisterChanges DEF SomeVoteCast, OnlyCasesChange

LEMMA JuryKept ==
  ASSUME Register, [Next]_vars, NEW id \in DOMAIN Cases, NEW juror \in Cases[id].jury
  PROVE  juror \in Cases'[id].jury
<1>1. Cases[id] \in Case /\ (Awaiting(id) => Cases[id].jury = {})
  BY DEF Register, CasesInOrder, CaseInOrder, Awaiting
<1>2. ~GetsJury(id)
  BY <1>1 DEF GetsJury
<1>3. CASE IsClosed(id)
  BY <1>1, <1>3 DEF IsClosed, Case
<1> QED
  BY <1>2, <1>3, CaseStep DEF Stays, Register

LEMMA VotesStep == Register /\ [Next]_vars => VotesInOrder'
<1> SUFFICES ASSUME Register, [Next]_vars PROVE VotesInOrder'
  OBVIOUS
<1>0. DOMAIN Votes = DOMAIN Cases /\ \A id \in DOMAIN Cases : DOMAIN Votes[id] \subseteq Cases[id].jury
  BY DEF Register, VotesInOrder
<1>1. CASE SomeCaseFiled
  <2>1. PICK id : /\ DOMAIN Cases' = DOMAIN Cases \cup {id} /\ id \notin DOMAIN Cases
                  /\ Votes' = [i \in DOMAIN Votes \union {id} |-> IF i = id THEN <<>> ELSE Votes[i]]
    BY <1>1 DEF SomeCaseFiled
  <2>2. DOMAIN Votes' = DOMAIN Cases'
    BY <1>0, <2>1
  <2>3. ASSUME NEW i \in DOMAIN Cases' PROVE DOMAIN Votes'[i] \subseteq Cases'[i].jury
    <3>1. CASE i = id
      <4>1. Votes'[i] = <<>> /\ DOMAIN <<>> = {}
        BY <2>1, <3>1
      <4> QED
        BY <4>1
    <3>2. CASE i # id
      <4>1. i \in DOMAIN Cases /\ Votes'[i] = Votes[i]
        BY <1>0, <2>1, <3>2
      <4> QED
        BY <1>0, <4>1, JuryKept
    <3> QED
      BY <3>1, <3>2
  <2> QED
    BY <2>2, <2>3 DEF VotesInOrder
<1>2. CASE SomeVoteCast
  <2>0. PICK id \in DOMAIN Cases : \E juror, guilty :
          /\ juror \in Cases[id].jury
          /\ Votes' = [Votes EXCEPT ![id] = [j \in DOMAIN @ \union {juror} |->
                                               IF j = juror THEN guilty ELSE @[j]]]
    BY <1>2 DEF SomeVoteCast
  <2>1. PICK juror, guilty :
          /\ juror \in Cases[id].jury
          /\ Votes' = [Votes EXCEPT ![id] = [j \in DOMAIN Votes[id] \union {juror} |->
                                            IF j = juror THEN guilty ELSE Votes[id][j]]]
    BY <2>0
  <2>2. Cases' = Cases
    BY <1>2 DEF SomeVoteCast
  <2>3. DOMAIN Votes' = DOMAIN Votes /\ DOMAIN Votes'[id] = DOMAIN Votes[id] \union {juror}
    BY <1>0, <2>1
  <2>4. \A i \in DOMAIN Cases : i # id => Votes'[i] = Votes[i]
    BY <1>0, <2>1
  <2>5. DOMAIN Votes'[id] \subseteq Cases[id].jury
    BY <1>0, <2>1, <2>3
  <2> QED
    BY <1>0, <2>2, <2>3, <2>4, <2>5 DEF VotesInOrder
<1>3. CASE DOMAIN Cases' = DOMAIN Cases /\ Votes' = Votes
  BY <1>0, <1>3, JuryKept DEF VotesInOrder
<1>4. CASE SomeoneConvicted
  BY <1>3, <1>4, ConvictChanges DEF SomeoneConvicted
<1> QED
  BY <1>1, <1>2, <1>3, <1>4, RegisterChanges DEF OnlyCasesChange

LEMMA LostForGood ==
  ASSUME Register, [Next]_vars, NEW id, NEW m, Lost(id, m)
  PROVE  Lost(id, m)'
<1>1. id \in DOMAIN Cases /\ Cases[id].status = "ResolvedGuilty"
  BY DEF Lost
<1>2. Stays(id)
  BY <1>1, CaseStep DEF Register, GetsJury, IsClosed, Awaiting
<1>3. id \in DOMAIN Cases'
  BY <1>1, CasesStep
<1> QED
  BY <1>2, <1>3 DEF Lost, Stays

LEMMA MarksStep == Register /\ [Next]_vars => MarksInOrder'
<1> SUFFICES ASSUME Register, [Next]_vars PROVE MarksInOrder'
  OBVIOUS
<1>0. /\ GuiltyMarks \in [Masks -> Seq(Nat)]
      /\ \A m \in Masks :
           /\ \A i, j \in DOMAIN GuiltyMarks[m] : GuiltyMarks[m][i] = GuiltyMarks[m][j] => i = j
           /\ \A id \in ToSet(GuiltyMarks[m]) : Lost(id, m)
  BY DEF Register, MarksInOrder
<1>1. CASE GuiltyMarks' = GuiltyMarks
  <2>1. ASSUME NEW m \in Masks, NEW id \in ToSet(GuiltyMarks[m]) PROVE Lost(id, m)'
    BY <1>0, <2>1, LostForGood
  <2> QED
    BY <1>0, <1>1, <2>1 DEF MarksInOrder
<1>2. CASE SomeoneConvicted
  <2>1. PICK closer : \E id \in DOMAIN Cases : Convict(closer, id)
    BY <1>2 DEF SomeoneConvicted
  <2>2. PICK id \in DOMAIN Cases : Convict(closer, id)
    BY <2>1
  <2>m. PICK m : m = Cases[id].defendant
    OBVIOUS
  <2> DEFINE marks == GuiltyMarks[m]
             kept == IF Len(marks) = MaxGuiltyMarks THEN Tail(marks) ELSE marks
             grown == Append(kept, id)
  <2>3. /\ Cases[id].status = "Open" /\ ~Cases[id].incapacity /\ m \in Masks
        /\ Cases' = [Cases EXCEPT ![id].status = "ResolvedGuilty"]
        /\ DOMAIN Cases' = DOMAIN Cases
        /\ GuiltyMarks' = [GuiltyMarks EXCEPT ![m] = grown]
    BY <2>2, <2>m, ConvictChanges
  <2>4. id \in Nat /\ Cases[id] \in Case
    BY DEF Register, Docket, DocketTypes, CasesInOrder, CaseInOrder
  <2>5. Lost(id, m)'
    BY <2>m, <2>3, <2>4 DEF Lost, Case
  <2>6. marks \in Seq(Nat) /\ id \notin ToSet(marks)
        /\ (\A i, j \in DOMAIN marks : marks[i] = marks[j] => i = j)
        /\ (\A k \in ToSet(marks) : Lost(k, m)')
    <3>1. \A k \in ToSet(marks) : Lost(k, m)
      BY <1>0, <2>3
    <3>2. ~Lost(id, m)
      BY <2>3 DEF Lost
    <3>3. ASSUME NEW k \in ToSet(marks) PROVE Lost(k, m)'
      <4>1. Lost(k, m)
        BY <3>1
      <4> QED
        BY <4>1, LostForGood
    <3> QED
      BY <1>0, <2>3, <3>1, <3>2, <3>3
  <2>7. kept \in Seq(Nat) /\ ToSet(kept) \subseteq ToSet(marks)
        /\ (\A i, j \in DOMAIN kept : kept[i] = kept[j] => i = j)
    <3>1. CASE Len(marks) = MaxGuiltyMarks
      <4>1. Len(marks) > 0 /\ Len(marks) \in Nat
        BY <2>6, <3>1, JusticeAssumption
      <4>2. kept = Tail(marks) /\ kept \in Seq(Nat) /\ Len(kept) = Len(marks) - 1
            /\ \A i \in 1..Len(kept) : kept[i] = marks[i + 1]
        BY <2>6, <3>1, <4>1
      <4>3. DOMAIN kept = 1..Len(kept) /\ DOMAIN marks = 1..Len(marks)
        BY <2>6, <4>2
      <4> HIDE DEF marks, kept
      <4>4. \A i \in DOMAIN kept : i \in Int /\ i + 1 \in DOMAIN marks /\ kept[i] = marks[i + 1]
        BY <4>1, <4>2, <4>3
      <4>5. ToSet(kept) \subseteq ToSet(marks)
        BY <4>4 DEF ToSet
      <4>6. ASSUME NEW i \in DOMAIN kept, NEW j \in DOMAIN kept, kept[i] = kept[j] PROVE i = j
        <5>1. i + 1 = j + 1
          BY <2>6, <4>4, <4>6
        <5> QED
          BY <4>4, <5>1
      <4> QED
        BY <4>2, <4>5, <4>6
    <3>2. CASE Len(marks) # MaxGuiltyMarks
      BY <2>6, <3>2
    <3> QED
      BY <3>1, <3>2
  <2> HIDE DEF marks, kept
  <2>8. grown \in Seq(Nat) /\ ToSet(grown) = ToSet(kept) \cup {id}
        /\ (\A i, j \in DOMAIN grown : grown[i] = grown[j] => i = j)
    <3>1. /\ grown \in Seq(Nat) /\ Len(grown) = Len(kept) + 1 /\ Len(kept) \in Nat
          /\ grown[Len(kept) + 1] = id /\ \A i \in 1..Len(kept) : grown[i] = kept[i]
      BY <2>4, <2>7
    <3>2. DOMAIN grown = 1..(Len(kept) + 1) /\ DOMAIN kept = 1..Len(kept)
      BY <2>7, <3>1
    <3> HIDE DEF grown
    <3>3. \A i \in DOMAIN grown : (i \in DOMAIN kept /\ grown[i] = kept[i])
                                  \/ (i = Len(kept) + 1 /\ grown[i] = id)
      BY <3>1, <3>2
    <3>4. ToSet(grown) = ToSet(kept) \cup {id}
      BY <3>1, <3>2, <3>3 DEF ToSet
    <3>5. \A i \in DOMAIN kept : kept[i] # id
      BY <2>6, <2>7 DEF ToSet
    <3> QED
      BY <2>7, <3>1, <3>3, <3>4, <3>5
  <2> HIDE DEF grown
  <2>9. GuiltyMarks' \in [Masks -> Seq(Nat)]
    BY <1>0, <2>3, <2>8
  <2>10. ASSUME NEW n \in Masks
         PROVE  /\ \A i, j \in DOMAIN GuiltyMarks'[n] :
                     GuiltyMarks'[n][i] = GuiltyMarks'[n][j] => i = j
                /\ \A k \in ToSet(GuiltyMarks'[n]) : Lost(k, n)'
    <3>1. CASE n = m
      <4>1. GuiltyMarks'[n] = grown
        BY <1>0, <2>3, <3>1
      <4> QED
        BY <2>5, <2>6, <2>7, <2>8, <3>1, <4>1
    <3>2. CASE n # m
      <4>1. GuiltyMarks'[n] = GuiltyMarks[n]
        BY <1>0, <2>3, <3>2
      <4>2. ASSUME NEW k \in ToSet(GuiltyMarks[n]) PROVE Lost(k, n)'
        BY <1>0, <4>2, LostForGood
      <4> QED
        BY <1>0, <4>1, <4>2
    <3> QED
      BY <3>1, <3>2
  <2> QED
    BY <2>9, <2>10 DEF MarksInOrder
<1> QED
  BY <1>1, <1>2, RegisterChanges DEF SomeCaseFiled, SomeVoteCast, OnlyCasesChange

LEMMA RegisterStep == Register /\ [Next]_vars => Register'
<1>1. Register => Docket
  BY DEF Register
<1> QED
  BY <1>1, DocketStep, CasesStep, VotesStep, MarksStep DEF Register

(* Whatever order filings, draws, votes and closings come in, the register *)
(* never shows a party on the jury, a vote of someone without a seat, a    *)
(* case judged without a jury or a mark for a case that was not lost.      *)
THEOREM DocketKeptInOrder == Spec => []DocketInOrder
<1> QED
  BY RegisterInit, RegisterStep, RegisterShows, PTL DEF Spec

-----------------------------------------------------------------------------
(* The evidence and its journal.  What the folds of the recount and of the *)
(* cascade build up stays what it should be.                               *)

(* A power of a natural number is one, and not 0 unless the number is.     *)
LEMMA PowerStays ==
  ASSUME NEW N, N \in {Nat, Nat \ {0}}, NEW base \in N, NEW n \in Nat
  PROVE  Power(base, n) \in N
<1> DEFINE T == [i \in 1..n |-> i]
           V == N
           Step(s, x) == s * base
           iter == CHOOSE g : g = [S \in SUBSET DOMAIN T |->
                     IF S = {} THEN 1 ELSE Step(g[S \ {Max(S)}], T[Max(S)])]
<1>1. PICK k \in Nat : DOMAIN T = 1..k
  OBVIOUS
<1>2. Power(base, n) = iter[DOMAIN T]
  BY DEF Power, FoldLeft, MapThenFoldSet
<1>3. \A i \in 1..k, s \in V : Step(s, T[i]) \in V
  <2>1. \A a, b \in Nat : a * b \in Nat /\ (a # 0 /\ b # 0 => a * b # 0)
    OBVIOUS
  <2> QED
    BY <2>1
<1>m. \A S \in SUBSET (1..k) : S # {} => Max(S) \in 1..k
  BY LastIndex
<1>b. 1 \in V
  OBVIOUS
<1> HIDE DEF T, V, Step
<1> DEFINE step == [p \in (1..k) \X V |-> Step(p[2], T[p[1]])]
<1>4. step \in [(1..k) \X V -> V] /\ \A i \in 1..k, s \in V : step[<<i, s>>] = Step(s, T[i])
  BY <1>3
<1> HIDE DEF step
<1>5. PICK g : SequenceFoldsInto(g, step, 1, k, V)
  BY <1>b, <1>4, SequenceFoldSolvable
<1>6. g = [S \in SUBSET (1..k) |-> IF S = {} THEN 1 ELSE Step(g[S \ {Max(S)}], T[Max(S)])]
  <2>1. \A S \in SUBSET (1..k) : S # {} =>
          step[<<Max(S), g[S \ {Max(S)}]>>] = Step(g[S \ {Max(S)}], T[Max(S)])
    BY <1>m, <1>4, <1>5 DEF SequenceFoldsInto
  <2> QED
    BY <1>5, <2>1 DEF SequenceFoldsInto
<1>7. iter = [S \in SUBSET (1..k) |-> IF S = {} THEN 1 ELSE Step(iter[S \ {Max(S)}], T[Max(S)])]
  BY <1>1, <1>6
<1> HIDE DEF iter
<1>8. \A S \in SUBSET (1..k) : S # {} /\ iter[S \ {Max(S)}] \in V => iter[S] \in V
  BY <1>m, <1>3, <1>7
<1>9. iter[{}] \in V
  BY <1>b, <1>7
<1>10. iter[1..k] \in V
  BY <1>8, <1>9, SequenceFoldStays
<1> QED
  BY <1>1, <1>2, <1>10 DEF V

Admissions == Masks \X Suits \X Nat

LEMMA FeedStays ==
  ASSUME NEW epoch \in 0..MaxBlock, NEW credits \in Seq(Admissions)
  PROVE  Feed(credits, epoch) \in Seq(Admissions)
<1> DEFINE T == StorageOrder
           V == Seq(Admissions)
           Step(s, x) == IF EpochService(epoch)[x] = 0 THEN s
                         ELSE Append(s, <<x, "technical", ServiceEvidenceRate * EpochService(epoch)[x]>>)
           iter == CHOOSE g : g = [S \in SUBSET DOMAIN T |->
                     IF S = {} THEN credits ELSE Step(g[S \ {Max(S)}], T[Max(S)])]
<1>1. PICK k \in Nat : DOMAIN T = 1..k
  BY ReputationAssumption
<1>2. Feed(credits, epoch) = iter[DOMAIN T]
  BY DEF Feed, FoldLeft, MapThenFoldSet
<1>3. \A i \in 1..k, s \in V : Step(s, T[i]) \in V
  <2>1. \A i \in 1..k : T[i] \in Masks
    BY <1>1, ReputationAssumption
  <2>2. \A x \in Masks : EpochService(epoch)[x] \in Nat
    BY ReputationAssumption DEF EpochService
  <2>3. ServiceEvidenceRate \in Nat
    BY ReputationAssumption DEF ReputationConfig
  <2>4. "technical" \in Suits
    BY DEF Suits
  <2>5. \A a, b \in Nat : a * b \in Nat
    OBVIOUS
  <2>6. \A x \in Masks : <<x, "technical", ServiceEvidenceRate * EpochService(epoch)[x]>> \in Admissions
    BY <2>2, <2>3, <2>4, <2>5 DEF Admissions
  <2> HIDE DEF T
  <2> QED
    BY <2>1, <2>6
<1>m. \A S \in SUBSET (1..k) : S # {} => Max(S) \in 1..k
  BY LastIndex
<1>b. credits \in V
  OBVIOUS
<1> HIDE DEF T, V, Step
<1> DEFINE step == [p \in (1..k) \X V |-> Step(p[2], T[p[1]])]
<1>4. step \in [(1..k) \X V -> V] /\ \A i \in 1..k, s \in V : step[<<i, s>>] = Step(s, T[i])
  BY <1>3
<1> HIDE DEF step
<1>5. PICK g : SequenceFoldsInto(g, step, credits, k, V)
  BY <1>b, <1>4, SequenceFoldSolvable
<1>6. g = [S \in SUBSET (1..k) |-> IF S = {} THEN credits ELSE Step(g[S \ {Max(S)}], T[Max(S)])]
  <2>1. \A S \in SUBSET (1..k) : S # {} =>
          step[<<Max(S), g[S \ {Max(S)}]>>] = Step(g[S \ {Max(S)}], T[Max(S)])
    BY <1>m, <1>4, <1>5 DEF SequenceFoldsInto
  <2> QED
    BY <1>5, <2>1 DEF SequenceFoldsInto
<1>7. iter = [S \in SUBSET (1..k) |-> IF S = {} THEN credits ELSE Step(iter[S \ {Max(S)}], T[Max(S)])]
  BY <1>1, <1>6
<1> HIDE DEF iter
<1>8. \A S \in SUBSET (1..k) : S # {} /\ iter[S \ {Max(S)}] \in V => iter[S] \in V
  BY <1>m, <1>3, <1>7
<1>9. iter[{}] \in V
  BY <1>b, <1>7
<1>10. iter[1..k] \in V
  BY <1>8, <1>9, SequenceFoldStays
<1> QED
  BY <1>1, <1>2, <1>10 DEF V

LEMMA ServiceEpochsAreBlocks ==
  ASSUME NEW n \in 0..MaxBlock, ServiceCreditCursor \in Nat
  PROVE  /\ IsFiniteSet(ServiceEpochs(n)) /\ Cardinality(ServiceEpochs(n)) \in Nat
         /\ \A i \in 1..Cardinality(ServiceEpochs(n)) : ServiceCreditCursor + i - 1 \in 0..MaxBlock
<1> DEFINE ended == n \div EpochLength - 1
           top == Min({ended, ServiceCreditCursor + 7})
<1>1. CASE ServiceEvidenceRate = 0
  <2>1. ServiceEpochs(n) = {}
    BY <1>1 DEF ServiceEpochs
  <2> QED
    BY <2>1, FS_EmptySet
<1>2. CASE ServiceEvidenceRate # 0
  <2>1. ServiceEpochs(n) = ServiceCreditCursor..top
    BY <1>2 DEF ServiceEpochs
  <2>2. ended \in Int /\ ended =< n
    <3>1. EpochLength \in Nat \ {0} /\ n \in Nat
      BY ReputationAssumption DEF ReputationConfig
    <3>2. n \div EpochLength \in Nat /\ n \div EpochLength =< n
      <4>1. PICK q \in Nat, r \in 0..(EpochLength - 1) : n \div EpochLength = q /\ n = EpochLength * q + r
        BY <3>1
      <4>2. PICK l \in Nat : EpochLength = l + 1
        BY <3>1
      <4>3. EpochLength * q = l * q + q /\ l * q \in Nat
        BY <4>2
      <4> QED
        BY <4>1, <4>3
    <3> QED
      BY <3>1, <3>2
  <2> HIDE DEF ended
  <2>3. top \in Int /\ top =< ended
    <3>1. ServiceCreditCursor + 7 \in Int
      OBVIOUS
    <3>2. top = IF ended =< ServiceCreditCursor + 7 THEN ended ELSE ServiceCreditCursor + 7
      BY <2>2, <3>1, MinMaxOfTwo
    <3> QED
      BY <2>2, <3>1, <3>2
  <2> HIDE DEF top
  <2>4. /\ IsFiniteSet(ServiceCreditCursor..top)
        /\ Cardinality(ServiceCreditCursor..top)
             = IF ServiceCreditCursor > top THEN 0 ELSE top - ServiceCreditCursor + 1
    BY <2>3, FS_Interval
  <2>5. MaxBlock \in Nat
    BY ReputationAssumption
  <2> QED
    BY <2>1, <2>2, <2>3, <2>4, <2>5
<1> QED
  BY <1>1, <1>2

LEMMA ServiceCreditsTyped ==
  ASSUME NEW n \in 0..MaxBlock, ServiceCreditCursor \in Nat
  PROVE  ServiceCredits(n) \in Seq(Admissions)
<1> DEFINE T == [i \in 1..Cardinality(ServiceEpochs(n)) |-> ServiceCreditCursor + i - 1]
           V == Seq(Admissions)
           Step(s, x) == Feed(s, x)
           iter == CHOOSE g : g = [S \in SUBSET DOMAIN T |->
                     IF S = {} THEN <<>> ELSE Step(g[S \ {Max(S)}], T[Max(S)])]
<1>1. PICK k \in Nat : DOMAIN T = 1..k
  BY ServiceEpochsAreBlocks
<1>2. ServiceCredits(n) = iter[DOMAIN T]
  BY DEF ServiceCredits, FoldLeft, MapThenFoldSet
<1>3. \A i \in 1..k, s \in V : Step(s, T[i]) \in V
  <2>1. \A i \in 1..k : T[i] \in 0..MaxBlock
    BY <1>1, ServiceEpochsAreBlocks
  <2> HIDE DEF T
  <2> QED
    BY <2>1, FeedStays
<1>m. \A S \in SUBSET (1..k) : S # {} => Max(S) \in 1..k
  BY LastIndex
<1>b. <<>> \in V
  OBVIOUS
<1> HIDE DEF T, V, Step
<1> DEFINE step == [p \in (1..k) \X V |-> Step(p[2], T[p[1]])]
<1>4. step \in [(1..k) \X V -> V] /\ \A i \in 1..k, s \in V : step[<<i, s>>] = Step(s, T[i])
  BY <1>3
<1> HIDE DEF step
<1>5. PICK g : SequenceFoldsInto(g, step, <<>>, k, V)
  BY <1>b, <1>4, SequenceFoldSolvable
<1>6. g = [S \in SUBSET (1..k) |-> IF S = {} THEN <<>> ELSE Step(g[S \ {Max(S)}], T[Max(S)])]
  <2>1. \A S \in SUBSET (1..k) : S # {} =>
          step[<<Max(S), g[S \ {Max(S)}]>>] = Step(g[S \ {Max(S)}], T[Max(S)])
    BY <1>m, <1>4, <1>5 DEF SequenceFoldsInto
  <2> QED
    BY <1>5, <2>1 DEF SequenceFoldsInto
<1>7. iter = [S \in SUBSET (1..k) |-> IF S = {} THEN <<>> ELSE Step(iter[S \ {Max(S)}], T[Max(S)])]
  BY <1>1, <1>6
<1> HIDE DEF iter
<1>8. \A S \in SUBSET (1..k) : S # {} /\ iter[S \ {Max(S)}] \in V => iter[S] \in V
  BY <1>m, <1>3, <1>7
<1>9. iter[{}] \in V
  BY <1>b, <1>7
<1>10. iter[1..k] \in V
  BY <1>8, <1>9, SequenceFoldStays
<1> QED
  BY <1>1, <1>2, <1>10 DEF V

Books == [Masks -> [Suits -> Nat]]

LEMMA Entered ==
  ASSUME NEW evidence \in Books, NEW a \in Admissions
  PROVE  [evidence EXCEPT ![a[1]][a[2]] = @ + a[3]] \in Books
<1>1. a[1] \in Masks /\ a[2] \in Suits /\ a[3] \in Nat
  BY DEF Admissions
<1>2. evidence[a[1]][a[2]] + a[3] \in Nat
  BY <1>1 DEF Books
<1> QED
  BY <1>1, <1>2 DEF Books

LEMMA CreditedTyped ==
  ASSUME NEW evidence \in Books, NEW admissions \in Seq(Admissions)
  PROVE  Credited(evidence, admissions) \in Books
<1> DEFINE T == admissions
           V == Books
           Step(s, x) == [s EXCEPT ![x[1]][x[2]] = @ + x[3]]
           iter == CHOOSE g : g = [S \in SUBSET DOMAIN T |->
                     IF S = {} THEN evidence ELSE Step(g[S \ {Max(S)}], T[Max(S)])]
<1>1. PICK k \in Nat : DOMAIN T = 1..k
  OBVIOUS
<1>2. Credited(evidence, admissions) = iter[DOMAIN T]
  BY DEF Credited, FoldLeft, MapThenFoldSet
<1>3. \A i \in 1..k, s \in V : Step(s, T[i]) \in V
  <2>1. \A i \in 1..k : T[i] \in Admissions
    BY <1>1
  <2> HIDE DEF T
  <2> QED
    BY <2>1, Entered
<1>m. \A S \in SUBSET (1..k) : S # {} => Max(S) \in 1..k
  BY LastIndex
<1>b. evidence \in V
  OBVIOUS
<1> HIDE DEF T, V, Step
<1> DEFINE step == [p \in (1..k) \X V |-> Step(p[2], T[p[1]])]
<1>4. step \in [(1..k) \X V -> V] /\ \A i \in 1..k, s \in V : step[<<i, s>>] = Step(s, T[i])
  BY <1>3
<1> HIDE DEF step
<1>5. PICK g : SequenceFoldsInto(g, step, evidence, k, V)
  BY <1>b, <1>4, SequenceFoldSolvable
<1>6. g = [S \in SUBSET (1..k) |-> IF S = {} THEN evidence ELSE Step(g[S \ {Max(S)}], T[Max(S)])]
  <2>1. \A S \in SUBSET (1..k) : S # {} =>
          step[<<Max(S), g[S \ {Max(S)}]>>] = Step(g[S \ {Max(S)}], T[Max(S)])
    BY <1>m, <1>4, <1>5 DEF SequenceFoldsInto
  <2> QED
    BY <1>5, <2>1 DEF SequenceFoldsInto
<1>7. iter = [S \in SUBSET (1..k) |-> IF S = {} THEN evidence ELSE Step(iter[S \ {Max(S)}], T[Max(S)])]
  BY <1>1, <1>6
<1> HIDE DEF iter
<1>8. \A S \in SUBSET (1..k) : S # {} /\ iter[S \ {Max(S)}] \in V => iter[S] \in V
  BY <1>m, <1>3, <1>7
<1>9. iter[{}] \in V
  BY <1>b, <1>7
<1>10. iter[1..k] \in V
  BY <1>8, <1>9, SequenceFoldStays
<1> QED
  BY <1>1, <1>2, <1>10 DEF V

LEMMA DecayedTyped ==
  ASSUME Evidence \in Books
  PROVE  Decayed \in Books
<1>1. /\ RetentionNum \in Nat /\ RetentionDen \in Nat \ {0}
  BY ReputationAssumption DEF ReputationConfig
<1>2. \A m \in Masks, s \in Suits : (Evidence[m][s] * RetentionNum) \div RetentionDen \in Nat
  <2>1. ASSUME NEW m \in Masks, NEW s \in Suits
        PROVE (Evidence[m][s] * RetentionNum) \div RetentionDen \in Nat
    <3>1. PICK e \in Nat : e = Evidence[m][s]
      BY DEF Books
    <3>2. e * RetentionNum \in Nat
      BY <1>1
    <3> QED
      BY <1>1, <3>1, <3>2
  <2> QED
    BY <2>1
<1> DEFINE aged(m) == [s \in Suits |-> (Evidence[m][s] * RetentionNum) \div RetentionDen]
           Same(f) == CHOOSE g \in {f} : g = g
<1>3. Decayed = Same([m \in Masks |-> Same(aged(m))])
  BY DEF Decayed, Tabulated
<1>4. \A m \in Masks : aged(m) \in [Suits -> Nat]
  BY <1>2
<1> HIDE DEF aged
<1>5. \A f : Same(f) = f
  OBVIOUS
<1> HIDE DEF Same
<1> QED
  BY <1>3, <1>4, <1>5 DEF Books

Liables == Masks \X Nat

LEMMA SponsorsTyped ==
  ASSUME NEW level \in Seq(Liables), NEW who, NEW suit, NEW visited, NEW share \in Nat
  PROVE  Sponsors(level, who, suit, visited, share) \in Seq(Liables)
<1> DEFINE T == StorageOrder
           V == Seq(Liables)
           Step(s, x) == IF x \notin visited /\ Answers(x, who, suit)
                         THEN Append(s, <<x, share>>) ELSE s
           iter == CHOOSE g : g = [S \in SUBSET DOMAIN T |->
                     IF S = {} THEN level ELSE Step(g[S \ {Max(S)}], T[Max(S)])]
<1>1. PICK k \in Nat : DOMAIN T = 1..k
  BY ReputationAssumption
<1>2. Sponsors(level, who, suit, visited, share) = iter[DOMAIN T]
  BY DEF Sponsors, FoldLeft, MapThenFoldSet
<1>3. \A i \in 1..k, s \in V : Step(s, T[i]) \in V
  <2>1. \A i \in 1..k : T[i] \in Masks
    BY <1>1, ReputationAssumption
  <2>2. \A x \in Masks : <<x, share>> \in Liables
    BY DEF Liables
  <2> HIDE DEF T
  <2> QED
    BY <2>1, <2>2
<1>m. \A S \in SUBSET (1..k) : S # {} => Max(S) \in 1..k
  BY LastIndex
<1>b. level \in V
  OBVIOUS
<1> HIDE DEF T, V, Step
<1> DEFINE step == [p \in (1..k) \X V |-> Step(p[2], T[p[1]])]
<1>4. step \in [(1..k) \X V -> V] /\ \A i \in 1..k, s \in V : step[<<i, s>>] = Step(s, T[i])
  BY <1>3
<1> HIDE DEF step
<1>5. PICK g : SequenceFoldsInto(g, step, level, k, V)
  BY <1>b, <1>4, SequenceFoldSolvable
<1>6. g = [S \in SUBSET (1..k) |-> IF S = {} THEN level ELSE Step(g[S \ {Max(S)}], T[Max(S)])]
  <2>1. \A S \in SUBSET (1..k) : S # {} =>
          step[<<Max(S), g[S \ {Max(S)}]>>] = Step(g[S \ {Max(S)}], T[Max(S)])
    BY <1>m, <1>4, <1>5 DEF SequenceFoldsInto
  <2> QED
    BY <1>5, <2>1 DEF SequenceFoldsInto
<1>7. iter = [S \in SUBSET (1..k) |-> IF S = {} THEN level ELSE Step(iter[S \ {Max(S)}], T[Max(S)])]
  BY <1>1, <1>6
<1> HIDE DEF iter
<1>8. \A S \in SUBSET (1..k) : S # {} /\ iter[S \ {Max(S)}] \in V => iter[S] \in V
  BY <1>m, <1>3, <1>7
<1>9. iter[{}] \in V
  BY <1>b, <1>7
<1>10. iter[1..k] \in V
  BY <1>8, <1>9, SequenceFoldStays
<1> QED
  BY <1>1, <1>2, <1>10 DEF V

-----------------------------------------------------------------------------
(* The cascade.  It starts at the culprit; once the culprit has answered,  *)
(* with the loss at most, nothing takes from it again.                     *)
CascadeStates == [ev : [Masks -> Nat], visited : SUBSET Masks, next : Seq(Liables)]
Answered(m, floor) == {st \in CascadeStates : m \in st.visited /\ st.ev[m] >= floor}
Unhit(ev) == {[ev |-> ev, visited |-> {}, next |-> <<>>]}

HitFrom(st, entry, after) ==
  /\ after \in CascadeStates
  /\ ~Liable(st, entry) => after = st
  /\ Liable(st, entry) => /\ after.visited = st.visited \cup {entry[1]}
                          /\ after.ev[entry[1]] >= st.ev[entry[1]] - entry[2]
                          /\ \A m \in Masks : m # entry[1] => after.ev[m] = st.ev[m]

LEMMA HitTyped ==
  ASSUME NEW suit, NEW isCulprit \in BOOLEAN, NEW last \in BOOLEAN,
         NEW st \in CascadeStates, NEW entry \in Liables
  PROVE  HitFrom(st, entry, CascadeHit(suit, isCulprit, last, st, entry))
<1> DEFINE who == entry[1]
           held == st.ev[who]
           hit == IF isCulprit THEN entry[2] ELSE Min({entry[2], held \div 2})
           share == (hit * SponsorLiability) \div 100
           visited == st.visited \cup {who}
           left == Saturating(held, hit)
           list == IF last \/ share = 0 THEN st.next ELSE Sponsors(st.next, who, suit, visited, share)
           after == [ev |-> [st.ev EXCEPT ![who] = left], visited |-> visited, next |-> list]
<1>1. CascadeHit(suit, isCulprit, last, st, entry) = IF ~Liable(st, entry) THEN st ELSE after
  BY DEF CascadeHit, CascadeStates
<1>2. who \in Masks /\ entry[2] \in Nat
  BY DEF Liables
<1>3. held \in Nat /\ visited \in SUBSET Masks /\ st.next \in Seq(Liables) /\ st.ev \in [Masks -> Nat]
  BY <1>2 DEF CascadeStates
<1> HIDE DEF who, held, visited
<1>4. hit \in Nat /\ hit =< entry[2]
  <2>1. held \div 2 \in Nat
    BY <1>3
  <2>2. PICK half \in Nat : half = held \div 2
    BY <2>1
  <2>3. Min({entry[2], half}) = IF entry[2] =< half THEN entry[2] ELSE half
    BY <1>2, MinMaxOfTwo
  <2> QED
    BY <1>2, <2>2, <2>3
<1> HIDE DEF hit
<1>5. left \in Nat /\ left >= held - entry[2]
  <2>1. PICK d \in Int, zero \in Int : d = held - hit /\ zero = 0
    BY <1>3, <1>4
  <2>2. Max({d, zero}) = IF d =< zero THEN zero ELSE d
    BY MinMaxOfTwo
  <2>3. left = Max({d, zero})
    BY <2>1 DEF Saturating
  <2> HIDE DEF left
  <2> QED
    BY <1>2, <1>3, <1>4, <2>1, <2>2, <2>3
<1>6. share \in Nat
  <2>1. SponsorLiability \in Nat
    BY ReputationAssumption DEF ReputationConfig
  <2>2. hit * SponsorLiability \in Nat
    BY <1>4, <2>1
  <2> QED
    BY <2>2
<1> HIDE DEF left, share
<1>7. list \in Seq(Liables)
  BY <1>3, <1>6, SponsorsTyped
<1> HIDE DEF list
<1>8. after \in CascadeStates
  BY <1>2, <1>3, <1>5, <1>7 DEF CascadeStates
<1>9. /\ after.visited = visited /\ after.ev[who] = left
      /\ \A m \in Masks : m # who => after.ev[m] = st.ev[m]
  BY <1>2, <1>3
<1> HIDE DEF after
<1> QED
  BY <1>1, <1>5, <1>8, <1>9 DEF HitFrom, who, held, visited

LEMMA HitKeeps ==
  ASSUME NEW suit, NEW isCulprit \in BOOLEAN, NEW last \in BOOLEAN,
         NEW m \in Masks, NEW floor \in Int, NEW st \in Answered(m, floor), NEW entry \in Liables
  PROVE  CascadeHit(suit, isCulprit, last, st, entry) \in Answered(m, floor)
<1> DEFINE after == CascadeHit(suit, isCulprit, last, st, entry)
<1>1. st \in CascadeStates /\ m \in st.visited /\ st.ev[m] >= floor
  BY DEF Answered
<1>2. /\ after \in CascadeStates
      /\ ~Liable(st, entry) => after = st
      /\ Liable(st, entry) => /\ after.visited = st.visited \cup {entry[1]}
                              /\ \A k \in Masks : k # entry[1] => after.ev[k] = st.ev[k]
  <2>1. HitFrom(st, entry, after)
    BY <1>1, HitTyped
  <2> HIDE DEF after
  <2> QED
    BY <2>1 DEF HitFrom
<1> HIDE DEF after
<1>3. CASE Liable(st, entry)
  <2>1. entry[1] # m
    BY <1>1, <1>3 DEF Liable
  <2> QED
    BY <1>1, <1>2, <1>3, <2>1 DEF Answered, after
<1> QED
  BY <1>1, <1>2, <1>3 DEF Answered, after

LEMMA FirstHit ==
  ASSUME NEW suit, NEW isCulprit \in BOOLEAN, NEW last \in BOOLEAN,
         NEW m \in Masks, NEW loss \in Nat, NEW ev \in [Masks -> Nat], NEW st \in Unhit(ev)
  PROVE  CascadeHit(suit, isCulprit, last, st, <<m, loss>>)
           \in Answered(m, ev[m] - loss) \cup Unhit(ev)
<1> DEFINE entry == <<m, loss>>
           after == CascadeHit(suit, isCulprit, last, st, entry)
<1>1. st = [ev |-> ev, visited |-> {}, next |-> <<>>] /\ st \in CascadeStates
  <2>1. <<>> \in Seq(Liables) /\ {} \in SUBSET Masks
    OBVIOUS
  <2>2. st = [ev |-> ev, visited |-> {}, next |-> <<>>]
    BY DEF Unhit
  <2>3. [ev |-> ev, visited |-> {}, next |-> <<>>] \in CascadeStates
    BY <2>1 DEF CascadeStates
  <2> QED
    BY <2>2, <2>3
<1>2. entry \in Liables /\ entry[1] = m /\ entry[2] = loss
  BY DEF Liables
<1>3. /\ after \in CascadeStates
      /\ ~Liable(st, entry) => after = st
      /\ Liable(st, entry) => /\ after.visited = st.visited \cup {entry[1]}
                              /\ after.ev[entry[1]] >= st.ev[entry[1]] - entry[2]
  <2>1. HitFrom(st, entry, after)
    BY <1>1, <1>2, HitTyped
  <2> HIDE DEF after
  <2> QED
    BY <2>1 DEF HitFrom
<1> HIDE DEF after
<1>4. CASE Liable(st, entry)
  <2>1. m \in after.visited /\ after.ev[m] >= ev[m] - loss
    BY <1>1, <1>2, <1>3, <1>4
  <2> QED
    BY <1>3, <2>1 DEF Answered, after
<1> QED
  BY <1>3, <1>4 DEF after

LEMMA WithValue ==
  ASSUME NEW suit, NEW isCulprit, NEW last, NEW st, NEW entry
  PROVE  With(st, LAMBDA t : CascadeHit(suit, isCulprit, last, t, entry))
           = CascadeHit(suit, isCulprit, last, st, entry)
<1> DEFINE F(t) == CascadeHit(suit, isCulprit, last, t, entry)
<1>1. With(st, LAMBDA t : CascadeHit(suit, isCulprit, last, t, entry))
        = CHOOSE y \in {F(t) : t \in {st}} : TRUE
  BY DEF With
<1> HIDE DEF F
<1>2. {F(t) : t \in {st}} = {F(st)} /\ (CHOOSE y \in {F(st)} : TRUE) = F(st)
  OBVIOUS
<1> QED
  BY <1>1, <1>2 DEF F

(* A level stays in a set of states if each of its hits does.                *)
LEMMA LevelStays ==
  ASSUME NEW suit, NEW isCulprit, NEW last, NEW st \in CascadeStates, NEW V,
         [ev |-> st.ev, visited |-> st.visited, next |-> <<>>] \in V,
         \A s \in V, i \in DOMAIN st.next :
            CascadeHit(suit, isCulprit, last, s, st.next[i]) \in V
  PROVE  CascadeLevel(suit, isCulprit, last, st) \in V
<1> DEFINE T == st.next
           Base == [ev |-> st.ev, visited |-> st.visited, next |-> <<>>]
           Step(s, x) == With(s, LAMBDA t : CascadeHit(suit, isCulprit, last, t, x))
           iter == CHOOSE g : g = [S \in SUBSET DOMAIN T |->
                     IF S = {} THEN Base ELSE Step(g[S \ {Max(S)}], T[Max(S)])]
<1>1. PICK k \in Nat : DOMAIN T = 1..k
  BY DEF CascadeStates
<1>2. CascadeLevel(suit, isCulprit, last, st) = iter[DOMAIN T]
  BY DEF CascadeLevel, FoldLeft, MapThenFoldSet
<1>3. \A i \in 1..k, s \in V : Step(s, T[i]) \in V
  <2>1. \A s, x : Step(s, x) = CascadeHit(suit, isCulprit, last, s, x)
    BY WithValue
  <2> HIDE DEF Step
  <2> QED
    BY <1>1, <2>1
<1>m. \A S \in SUBSET (1..k) : S # {} => Max(S) \in 1..k
  BY LastIndex
<1>b. Base \in V
  OBVIOUS
<1> HIDE DEF T, Base, Step
<1> DEFINE step == [p \in (1..k) \X V |-> Step(p[2], T[p[1]])]
<1>4. step \in [(1..k) \X V -> V] /\ \A i \in 1..k, s \in V : step[<<i, s>>] = Step(s, T[i])
  BY <1>3
<1> HIDE DEF step
<1>5. PICK g : SequenceFoldsInto(g, step, Base, k, V)
  BY <1>b, <1>4, SequenceFoldSolvable
<1>6. g = [S \in SUBSET (1..k) |-> IF S = {} THEN Base ELSE Step(g[S \ {Max(S)}], T[Max(S)])]
  <2>1. \A S \in SUBSET (1..k) : S # {} =>
          step[<<Max(S), g[S \ {Max(S)}]>>] = Step(g[S \ {Max(S)}], T[Max(S)])
    BY <1>m, <1>4, <1>5 DEF SequenceFoldsInto
  <2> QED
    BY <1>5, <2>1 DEF SequenceFoldsInto
<1>7. iter = [S \in SUBSET (1..k) |-> IF S = {} THEN Base ELSE Step(iter[S \ {Max(S)}], T[Max(S)])]
  BY <1>1, <1>6
<1> HIDE DEF iter
<1>8. \A S \in SUBSET (1..k) : S # {} /\ iter[S \ {Max(S)}] \in V => iter[S] \in V
  BY <1>m, <1>3, <1>7
<1>9. iter[{}] \in V
  BY <1>b, <1>7
<1>10. iter[1..k] \in V
  BY <1>8, <1>9, SequenceFoldStays
<1> QED
  BY <1>1, <1>2, <1>10

LEMMA LevelKeeps ==
  ASSUME NEW suit, NEW isCulprit \in BOOLEAN, NEW last \in BOOLEAN,
         NEW m \in Masks, NEW floor \in Int, NEW st \in Answered(m, floor)
  PROVE  CascadeLevel(suit, isCulprit, last, st) \in Answered(m, floor)
<1>1. st \in CascadeStates /\ m \in st.visited /\ st.ev[m] >= floor
  BY DEF Answered
<1>2. [ev |-> st.ev, visited |-> st.visited, next |-> <<>>] \in Answered(m, floor)
  <2>1. <<>> \in Seq(Liables)
    OBVIOUS
  <2> QED
    BY <1>1, <2>1 DEF Answered, CascadeStates
<1>3. \A i \in DOMAIN st.next : st.next[i] \in Liables
  BY <1>1 DEF CascadeStates
<1>4. \A s \in Answered(m, floor), i \in DOMAIN st.next :
        CascadeHit(suit, isCulprit, last, s, st.next[i]) \in Answered(m, floor)
  BY <1>3, HitKeeps
<1> QED
  BY <1>1, <1>2, <1>4, LevelStays

LEMMA LevelTyped ==
  ASSUME NEW suit, NEW isCulprit \in BOOLEAN, NEW last \in BOOLEAN, NEW st \in CascadeStates
  PROVE  CascadeLevel(suit, isCulprit, last, st) \in CascadeStates
<1>1. [ev |-> st.ev, visited |-> st.visited, next |-> <<>>] \in CascadeStates
  <2>1. <<>> \in Seq(Liables)
    OBVIOUS
  <2> QED
    BY <2>1 DEF CascadeStates
<1>2. \A i \in DOMAIN st.next : st.next[i] \in Liables
  BY DEF CascadeStates
<1>3. \A s \in CascadeStates, x \in Liables :
        HitFrom(s, x, CascadeHit(suit, isCulprit, last, s, x))
  BY HitTyped
<1>4. \A s \in CascadeStates, i \in DOMAIN st.next :
        CascadeHit(suit, isCulprit, last, s, st.next[i]) \in CascadeStates
  BY <1>2, <1>3 DEF HitFrom
<1> QED
  BY <1>1, <1>4, LevelStays

Start(ev, m, loss) == [ev |-> ev, visited |-> {}, next |-> <<<<m, loss>>>>]

LEMMA FirstLevel ==
  ASSUME NEW suit, NEW isCulprit \in BOOLEAN, NEW last \in BOOLEAN,
         NEW m \in Masks, NEW loss \in Nat, NEW ev \in [Masks -> Nat],
         NEW st \in Unhit(ev) \cup {Start(ev, m, loss)}
  PROVE  CascadeLevel(suit, isCulprit, last, st) \in (Answered(m, ev[m] - loss) \cup Unhit(ev))
<1> DEFINE V == Answered(m, ev[m] - loss) \cup Unhit(ev)
<1>1. st.ev = ev /\ st.visited = {} /\ st \in CascadeStates
      /\ \A i \in DOMAIN st.next : st.next[i] = <<m, loss>>
  <2>1. <<m, loss>> \in Liables
    BY DEF Liables
  <2>2. <<>> \in Seq(Liables) /\ <<<<m, loss>>>> \in Seq(Liables) /\ {} \in SUBSET Masks
    BY <2>1
  <2>3. CASE st = [ev |-> ev, visited |-> {}, next |-> <<>>]
    <3>1. st.ev = ev /\ st.visited = {} /\ st \in CascadeStates
      BY <2>2, <2>3 DEF CascadeStates
    <3>2. DOMAIN st.next = {}
      BY <2>3
    <3> QED
      BY <3>1, <3>2
  <2>4. CASE st = Start(ev, m, loss)
    <3>1. st.ev = ev /\ st.visited = {} /\ st \in CascadeStates
      BY <2>2, <2>4 DEF CascadeStates, Start
    <3>2. st.next = <<<<m, loss>>>>
      BY <2>4 DEF Start
    <3>3. \A i \in DOMAIN st.next : st.next[i] = <<m, loss>>
      BY <3>2
    <3> QED
      BY <3>1, <3>3
  <2> QED
    BY <2>3, <2>4 DEF Unhit
<1>2. [ev |-> st.ev, visited |-> st.visited, next |-> <<>>] \in V
  BY <1>1 DEF Unhit
<1>3. ASSUME NEW s \in V PROVE CascadeHit(suit, isCulprit, last, s, <<m, loss>>) \in V
  <2>1. <<m, loss>> \in Liables /\ ev[m] - loss \in Int
    BY DEF Liables
  <2>2. CASE s \in Answered(m, ev[m] - loss)
    BY <2>1, <2>2, HitKeeps
  <2>3. CASE s \in Unhit(ev)
    BY <2>3, FirstHit
  <2> QED
    BY <2>2, <2>3
<1> HIDE DEF V
<1>4. \A s \in V, i \in DOMAIN st.next : CascadeHit(suit, isCulprit, last, s, st.next[i]) \in V
  BY <1>1, <1>3
<1>5. CascadeLevel(suit, isCulprit, last, st) \in V
  BY <1>1, <1>2, <1>4, LevelStays
<1> QED
  BY <1>5 DEF V

Cascading(ev, m, loss) ==
  Answered(m, ev[m] - loss) \cup Unhit(ev) \cup {Start(ev, m, loss)}
CascadeFrom(ev, m, suit, loss, depth) ==
  FoldLeft(LAMBDA old, i : With(old, LAMBDA st : CascadeLevel(suit, i = 1, i = depth + 1, st)),
           Start(ev, m, loss), [i \in 1..(depth + 1) |-> i])

LEMMA WithLevel ==
  ASSUME NEW suit, NEW isCulprit, NEW last, NEW old
  PROVE  With(old, LAMBDA st : CascadeLevel(suit, isCulprit, last, st))
           = CascadeLevel(suit, isCulprit, last, old)
<1> DEFINE F(t) == CascadeLevel(suit, isCulprit, last, t)
<1>1. With(old, LAMBDA st : CascadeLevel(suit, isCulprit, last, st))
        = CHOOSE y \in {F(t) : t \in {old}} : TRUE
  BY DEF With
<1> HIDE DEF F
<1>2. {F(t) : t \in {old}} = {F(old)} /\ (CHOOSE y \in {F(old)} : TRUE) = F(old)
  OBVIOUS
<1> QED
  BY <1>1, <1>2 DEF F

LEMMA LevelCascades ==
  ASSUME NEW suit, NEW isCulprit \in BOOLEAN, NEW last \in BOOLEAN,
         NEW m \in Masks, NEW loss \in Nat, NEW ev \in [Masks -> Nat],
         NEW st \in Cascading(ev, m, loss)
  PROVE  CascadeLevel(suit, isCulprit, last, st) \in Cascading(ev, m, loss)
<1>1. PICK floor \in Int : floor = ev[m] - loss
  OBVIOUS
<1>2. CASE st \in Answered(m, floor)
  BY <1>1, <1>2, LevelKeeps DEF Cascading
<1>3. CASE st \in Unhit(ev) \cup {Start(ev, m, loss)}
  BY <1>3, FirstLevel DEF Cascading
<1> QED
  BY <1>1, <1>2, <1>3 DEF Cascading

(* So does the whole cascade, if only its first level is the culprit's.      *)
LEMMA CascadeStays ==
  ASSUME NEW ev \in [Masks -> Nat], NEW m \in Masks, NEW suit, NEW loss \in Nat, NEW depth \in Nat,
         NEW V \in SUBSET CascadeStates, Start(ev, m, loss) \in V,
         \A first, last \in BOOLEAN, s \in V :
            (first => s = Start(ev, m, loss)) => CascadeLevel(suit, first, last, s) \in V
  PROVE  CascadeFrom(ev, m, suit, loss, depth) \in V
<1> DEFINE T == [i \in 1..(depth + 1) |-> i]
           W == CascadeStates
           Base == Start(ev, m, loss)
           Step(s, x) == With(s, LAMBDA st : CascadeLevel(suit, x = 1, x = depth + 1, st))
           iter == CHOOSE g : g = [S \in SUBSET DOMAIN T |->
                     IF S = {} THEN Base ELSE Step(g[S \ {Max(S)}], T[Max(S)])]
<1>1. PICK k \in Nat : DOMAIN T = 1..k
  OBVIOUS
<1>2. CascadeFrom(ev, m, suit, loss, depth) = iter[DOMAIN T]
  BY DEF CascadeFrom, FoldLeft, MapThenFoldSet
<1>t. \A i \in 1..k : T[i] = i
  BY <1>1
<1>l. ASSUME NEW x, NEW s
      PROVE  \E first, last \in BOOLEAN : /\ first = (x = 1)
                                         /\ Step(s, x) = CascadeLevel(suit, first, last, s)
  <2>1. PICK first \in BOOLEAN, last \in BOOLEAN : first = (x = 1) /\ last = (x = depth + 1)
    OBVIOUS
  <2>2. Step(s, x) = CascadeLevel(suit, x = 1, x = depth + 1, s)
    BY WithLevel
  <2> HIDE DEF Step
  <2> QED
    BY <2>1, <2>2
<1> HIDE DEF Step
<1>3. \A i \in 1..k, s \in W : Step(s, T[i]) \in W
  BY <1>l, LevelTyped
<1>m. \A S \in SUBSET (1..k) : S # {} => Max(S) \in S /\ Max(S) \in 1..k
  BY LastIndex
<1>b. Base \in W /\ Base \in V
  OBVIOUS
<1> HIDE DEF T, W
<1> DEFINE step == [p \in (1..k) \X W |-> Step(p[2], T[p[1]])]
<1>4. step \in [(1..k) \X W -> W] /\ \A i \in 1..k, s \in W : step[<<i, s>>] = Step(s, T[i])
  BY <1>3
<1> HIDE DEF step
<1>5. PICK g : SequenceFoldsInto(g, step, Base, k, W)
  BY <1>b, <1>4, SequenceFoldSolvable
<1>6. g = [S \in SUBSET (1..k) |-> IF S = {} THEN Base ELSE Step(g[S \ {Max(S)}], T[Max(S)])]
  <2>1. \A S \in SUBSET (1..k) : S # {} =>
          step[<<Max(S), g[S \ {Max(S)}]>>] = Step(g[S \ {Max(S)}], T[Max(S)])
    BY <1>m, <1>4, <1>5 DEF SequenceFoldsInto
  <2> QED
    BY <1>5, <2>1 DEF SequenceFoldsInto
<1>7. iter = [S \in SUBSET (1..k) |-> IF S = {} THEN Base ELSE Step(iter[S \ {Max(S)}], T[Max(S)])]
  BY <1>1, <1>6
<1> HIDE DEF iter, Base
<1>9. iter[{}] = Base
  BY <1>7
<1>8. ASSUME NEW S \in SUBSET (1..k), S # {}, iter[S \ {Max(S)}] \in V PROVE iter[S] \in V
  <2>1. Max(S) \in S /\ Max(S) \in 1..k /\ iter[S] = Step(iter[S \ {Max(S)}], Max(S))
    BY <1>m, <1>t, <1>7, <1>8
  <2>2. PICK first \in BOOLEAN, last \in BOOLEAN :
          first = (Max(S) = 1) /\ iter[S] = CascadeLevel(suit, first, last, iter[S \ {Max(S)}])
    BY <1>l, <2>1
  <2>3. ASSUME first PROVE iter[S \ {Max(S)}] = Start(ev, m, loss)
    <3>1. Max(S) = 1
      BY <2>2, <2>3
    <3>2. S \ {Max(S)} = {}
      <4>1. S \in SUBSET Nat
        OBVIOUS
      <4>2. ASSUME NEW y \in S PROVE y = 1
        <5>1. S \in SUBSET (0..k)
          OBVIOUS
        <5>2. y =< Max(S)
          BY <1>1, <1>8, <5>1, GreatestBelongs
        <5> QED
          BY <3>1, <5>2
      <4> QED
        BY <3>1, <4>2
    <3> QED
      BY <1>9, <3>2 DEF Base
  <2>4. PICK s : s = iter[S \ {Max(S)}] /\ s \in V /\ (first => s = Start(ev, m, loss))
    BY <1>8, <2>3
  <2>5. CascadeLevel(suit, first, last, s) \in V
    BY <2>4
  <2> QED
    BY <2>2, <2>4, <2>5
<1>10. iter[1..k] \in V
  BY <1>8, <1>9, <1>b, SequenceFoldStays
<1> QED
  BY <1>1, <1>2, <1>10

LEMMA CascadeEnds ==
  ASSUME NEW ev \in [Masks -> Nat], NEW m \in Masks, NEW suit, NEW loss \in Nat, NEW depth \in Nat
  PROVE  CascadeFrom(ev, m, suit, loss, depth) \in Cascading(ev, m, loss)
<1>1. Start(ev, m, loss) \in CascadeStates
  <2>1. <<m, loss>> \in Liables
    BY DEF Liables
  <2>2. <<<<m, loss>>>> \in Seq(Liables)
    BY <2>1
  <2> QED
    BY <2>2 DEF Start, CascadeStates
<1>2. Cascading(ev, m, loss) \in SUBSET CascadeStates
  <2>1. Answered(m, ev[m] - loss) \in SUBSET CascadeStates
    BY DEF Answered
  <2>2. Unhit(ev) \in SUBSET CascadeStates
    <3>1. <<>> \in Seq(Liables) /\ {} \in SUBSET Masks
      OBVIOUS
    <3> QED
      BY <3>1 DEF Unhit, CascadeStates
  <2> QED
    BY <1>1, <2>1, <2>2 DEF Cascading
<1>3. Start(ev, m, loss) \in Cascading(ev, m, loss)
  BY DEF Cascading
<1>4. \A first, last \in BOOLEAN, s \in Cascading(ev, m, loss) :
        CascadeLevel(suit, first, last, s) \in Cascading(ev, m, loss)
  BY LevelCascades
<1> QED
  BY <1>2, <1>3, <1>4, CascadeStays

LEMMA CascadeSlashBounded ==
  ASSUME Evidence \in Books, NEW m \in Masks, NEW suit \in Suits, NEW loss \in Nat, NEW depth \in Nat
  PROVE  /\ CascadeSlash(m, suit, loss, depth) \in [Masks -> Nat]
         /\ CascadeSlash(m, suit, loss, depth)[m] >= Evidence[m][suit] - loss
<1> DEFINE ev == [k \in Masks |-> Evidence[k][suit]]
           end == CascadeFrom(ev, m, suit, loss, depth)
<1>1. ev \in [Masks -> Nat] /\ ev[m] = Evidence[m][suit] /\ ev[m] \in Nat
  BY DEF Books
<1>2. (CHOOSE g \in {ev} : g = g) = ev
  OBVIOUS
<1>3. Tabulated(LAMBDA k : Evidence[k][suit], Masks) = CHOOSE g \in {ev} : g = g
  BY DEF Tabulated
<1> HIDE DEF ev
<1>4. CascadeSlash(m, suit, loss, depth) = end.ev
  BY <1>2, <1>3 DEF CascadeSlash, CascadeFrom, Start
<1>5. end \in Cascading(ev, m, loss)
  BY <1>1, CascadeEnds
<1> HIDE DEF end
<1>6. end.ev \in [Masks -> Nat] /\ end.ev[m] >= ev[m] - loss
  <2>1. CASE end \in Answered(m, ev[m] - loss)
    BY <2>1 DEF Answered, CascadeStates
  <2>2. CASE end \in Unhit(ev) \cup {Start(ev, m, loss)}
    <3>1. end.ev = ev
      BY <2>2 DEF Unhit, Start
    <3> QED
      BY <1>1, <3>1
  <2> QED
    BY <1>5, <2>1, <2>2 DEF Cascading
<1> QED
  BY <1>1, <1>4, <1>6

-----------------------------------------------------------------------------
(* What the journal holds, and what the verdicts struck from it: a record  *)
(* gone is gone, and ids are never given again.                            *)
JournalTyped ==
  /\ Epoch \in Nat /\ ServiceCreditCursor \in Nat /\ NextEvidenceRecordId \in Nat
  /\ Evidence \in Books
  /\ DOMAIN EvidenceRecords \subseteq 0..(NextEvidenceRecordId - 1)
  /\ \A id \in DOMAIN EvidenceRecords :
       EvidenceRecords[id].amount \in Nat /\ EvidenceRecords[id].epoch \in 0..Epoch
StruckForGood ==
  /\ \A v \in verdicts : /\ v.struck \subseteq 0..(NextEvidenceRecordId - 1)
                         /\ v.struck \cap DOMAIN EvidenceRecords = {}
                         /\ v.loss <= v.worth
  /\ \A v, u \in verdicts : v # u => v.struck \cap u.struck = {}
JournalGrows ==
  /\ NextEvidenceRecordId <= NextEvidenceRecordId'
  /\ DOMAIN EvidenceRecords' \cap 0..(NextEvidenceRecordId - 1) \subseteq DOMAIN EvidenceRecords

LEMMA GrantsTyped ==
  /\ Len(Grants) \in Nat /\ DOMAIN Grants = 1..Len(Grants)
  /\ \A i \in 1..Len(Grants) : Grants[i][3] \in Nat
<1>1. Grants \in Seq(Admissions)
  BY ReputationAssumption DEF Admissions
<1>2. Len(Grants) \in Nat /\ DOMAIN Grants = 1..Len(Grants)
  BY <1>1
<1>3. \A i \in 1..Len(Grants) : Grants[i] \in Admissions
  BY <1>1
<1>4. \A a \in Admissions : a[3] \in Nat
  BY DEF Admissions
<1> QED
  BY <1>2, <1>3, <1>4

LEMMA GenesisTyped == GenesisEvidence \in Books
<1> DEFINE given(m, s) == {i \in DOMAIN Grants : Grants[i][1] = m /\ Grants[i][2] = s}
<1>1. PICK n \in Nat : DOMAIN Grants = 1..n /\ n = Len(Grants)
  BY GrantsTyped
<1>2. \A i \in 1..n : Grants[i][3] \in Nat
  BY <1>1, GrantsTyped
<1>3. ASSUME NEW m \in Masks, NEW s \in Suits
      PROVE (IF given(m, s) = {} THEN 0 ELSE Grants[Max(given(m, s))][3]) \in Nat
  <2>1. given(m, s) \in SUBSET (1..n)
    BY <1>1
  <2> HIDE DEF given
  <2>2. given(m, s) # {} => Max(given(m, s)) \in 1..n
    BY <2>1, LastIndex
  <2> QED
    BY <1>2, <2>2
<1> QED
  BY <1>3 DEF GenesisEvidence, Books

LEMMA JournalInit == Init => JournalTyped /\ StruckForGood
<1> SUFFICES ASSUME Init PROVE JournalTyped /\ StruckForGood
  OBVIOUS
<1>1. /\ Epoch = 0 /\ ServiceCreditCursor = 0 /\ NextEvidenceRecordId = Len(Grants)
      /\ Evidence = GenesisEvidence /\ verdicts = {}
      /\ EvidenceRecords = [id \in 0..(Len(Grants) - 1) |->
                              [who |-> Grants[id + 1][1], suit |-> Grants[id + 1][2],
                               amount |-> Grants[id + 1][3], epoch |-> 0]]
  BY DEF Init, InitReputation, InitJustice
<1>2. Len(Grants) \in Nat /\ \A i \in 1..Len(Grants) : Grants[i][3] \in Nat
  BY GrantsTyped
<1>3. \A id \in 0..(Len(Grants) - 1) : id + 1 \in 1..Len(Grants)
  BY <1>2
<1>4. DOMAIN EvidenceRecords = 0..(Len(Grants) - 1)
      /\ \A id \in DOMAIN EvidenceRecords :
           EvidenceRecords[id].amount \in Nat /\ EvidenceRecords[id].epoch = 0
  BY <1>1, <1>2, <1>3
<1> QED
  BY <1>1, <1>2, <1>4, GenesisTyped DEF JournalTyped, StruckForGood

LEMMA WorthIsNat ==
  ASSUME JournalTyped, NEW id \in DOMAIN EvidenceRecords
  PROVE  RecordCurrent(id) \in Nat
<1> DEFINE r == EvidenceRecords[id]
<1>1. r.amount \in Nat /\ r.epoch \in 0..Epoch /\ Epoch \in Nat
  BY DEF JournalTyped
<1> HIDE DEF r
<1>2. PICK n \in Nat : n = Epoch - r.epoch
  BY <1>1
<1>3. RetentionNum \in Nat /\ RetentionDen \in Nat \ {0}
  BY ReputationAssumption DEF ReputationConfig
<1>4. PICK N, P : N = Nat /\ P = Nat \ {0}
  OBVIOUS
<1>5. Power(RetentionNum, n) \in N
  BY <1>3, <1>4, PowerStays
<1>6. Power(RetentionDen, n) \in P
  BY <1>3, <1>4, PowerStays
<1>7. PICK a \in Nat, b \in Nat \ {0} : a = Power(RetentionNum, n) /\ b = Power(RetentionDen, n)
  BY <1>4, <1>5, <1>6
<1>8. r.amount * a \in Nat
  BY <1>1, <1>7
<1>9. (r.amount * a) \div b \in Nat
  BY <1>7, <1>8
<1>10. RecordCurrent(id) = (r.amount * a) \div b
  BY <1>2, <1>7 DEF RecordCurrent, Worth, Retained, r
<1> QED
  BY <1>9, <1>10

LEMMA WorthSum ==
  ASSUME JournalTyped, NEW D \in SUBSET DOMAIN EvidenceRecords
  PROVE  MapThenSumSet(RecordCurrent, D) \in Nat
<1> DEFINE v == [e \in D |-> RecordCurrent(e)]
           c == [S \in SUBSET D |-> CHOOSE x \in S : TRUE]
           iter == CHOOSE g : g = [S \in SUBSET D |->
                     IF S = {} THEN 0
                     ELSE RecordCurrent(CHOOSE x \in S : TRUE) + g[S \ {CHOOSE x \in S : TRUE}]]
<1>f. IsFiniteSet(D)
  <2>1. D \subseteq 0..(NextEvidenceRecordId - 1) /\ NextEvidenceRecordId \in Nat
    BY DEF JournalTyped
  <2>2. PICK a \in Int, b \in Int : a = 0 /\ b = NextEvidenceRecordId - 1
    BY <2>1
  <2>3. IsFiniteSet(a..b)
    BY FS_Interval
  <2> QED
    BY <2>1, <2>2, <2>3, FS_Subset
<1>1. MapThenSumSet(RecordCurrent, D) = iter[D]
  BY DEF MapThenSumSet, MapThenFoldSet
<1>2. \A x \in D : v[x] \in Nat /\ v[x] \in Int /\ RecordCurrent(x) = v[x]
  BY WorthIsNat
<1> HIDE DEF v
<1>3. \A S \in SUBSET D : S # {} => c[S] \in S
  OBVIOUS
<1>i. \A x \in D : v[x] \in Int
  BY <1>2
<1>4. PICK g : Recursion(g, v, c, D)
  BY <1>f, <1>i, <1>3, RecursionSolvable
<1>5. \A S \in SUBSET D : S # {} =>
        /\ (CHOOSE x \in S : TRUE) = c[S]
        /\ RecordCurrent(CHOOSE x \in S : TRUE) = v[c[S]]
  BY <1>2, <1>3
<1> HIDE DEF c
<1>6. g = [S \in SUBSET D |->
             IF S = {} THEN 0
             ELSE RecordCurrent(CHOOSE x \in S : TRUE) + g[S \ {CHOOSE x \in S : TRUE}]]
  BY <1>4, <1>5 DEF Recursion
<1>7. iter = [S \in SUBSET D |->
             IF S = {} THEN 0
             ELSE RecordCurrent(CHOOSE x \in S : TRUE) + iter[S \ {CHOOSE x \in S : TRUE}]]
  BY <1>6
<1> HIDE DEF iter
<1>8. Recursion(iter, v, c, D)
  <2>1. \A S \in SUBSET D : S # {} =>
          RecordCurrent(CHOOSE x \in S : TRUE) + iter[S \ {CHOOSE x \in S : TRUE}]
            = v[c[S]] + iter[S \ {c[S]}]
    BY <1>5
  <2>2. iter = [S \in SUBSET D |-> IF S = {} THEN 0 ELSE v[c[S]] + iter[S \ {c[S]}]]
    BY <1>7, <2>1
  <2> QED
    BY <2>2 DEF Recursion
<1>9. iter[D] = Sum(v, D)
  BY <1>f, <1>i, <1>3, <1>8, RecursionIsSum, SumGiven
<1>n. \A x \in D : v[x] \in Nat
  BY <1>2
<1>10. Sum(v, D) \in Nat
  BY <1>f, <1>n, SumNat
<1> QED
  BY <1>1, <1>9, <1>10

LEMMA JournalDomain ==
  ASSUME NEW records, NEW next, NEW admissions
  PROVE  DOMAIN Journal(records, next, admissions)
           = DOMAIN records \union (next..(next + Len(admissions) - 1))
BY DEF Journal

LEMMA EpochKeepsJournal ==
  ASSUME JournalTyped, NEW n \in 0..MaxBlock, RunEpoch(n)
  PROVE  JournalTyped' /\ JournalGrows
<1>1. PICK credits \in {ServiceCredits(n)} :
        LET head == NextEvidenceRecordId + Len(credits)
        IN  /\ Evidence' = Credited(Decayed, credits)
            /\ ServiceCreditCursor' = ServiceCreditCursor + Cardinality(ServiceEpochs(n))
            /\ NextEvidenceRecordId' = head
            /\ EvidenceRecords' =
                 Swept(Journal(EvidenceRecords, NextEvidenceRecordId, credits), head)
            /\ Epoch' = Epoch + 1
  BY DEF RunEpoch
<1>2. /\ Epoch \in Nat /\ ServiceCreditCursor \in Nat /\ NextEvidenceRecordId \in Nat
      /\ Evidence \in Books
      /\ DOMAIN EvidenceRecords \subseteq 0..(NextEvidenceRecordId - 1)
      /\ \A id \in DOMAIN EvidenceRecords :
           EvidenceRecords[id].amount \in Nat /\ EvidenceRecords[id].epoch \in 0..Epoch
  BY DEF JournalTyped
<1>3. credits \in Seq(Admissions)
  BY <1>1, <1>2, ServiceCreditsTyped
<1>4. Credited(Decayed, credits) \in Books
  BY <1>2, <1>3, DecayedTyped, CreditedTyped
<1>5. ServiceCreditCursor' \in Nat
  <2>1. Cardinality(ServiceEpochs(n)) \in Nat
    BY <1>2, ServiceEpochsAreBlocks
  <2> QED
    BY <1>1, <1>2, <2>1
<1>6. Len(credits) \in Nat /\ \A i \in 1..Len(credits) : credits[i][3] \in Nat
  BY <1>3 DEF Admissions
<1>h. PICK first \in Nat, head \in Nat :
        first = NextEvidenceRecordId /\ head = NextEvidenceRecordId + Len(credits)
  <2>1. PICK len \in Nat, first \in Nat : len = Len(credits) /\ first = NextEvidenceRecordId
    BY <1>2, <1>6
  <2>2. first + len \in Nat
    OBVIOUS
  <2> QED
    BY <2>1, <2>2
<1> DEFINE J == Journal(EvidenceRecords, NextEvidenceRecordId, credits)
<1>7. DOMAIN J = DOMAIN EvidenceRecords \cup (first..(head - 1))
  <2>1. DOMAIN Journal(EvidenceRecords, NextEvidenceRecordId, credits)
          = DOMAIN EvidenceRecords
              \union (NextEvidenceRecordId..(NextEvidenceRecordId + Len(credits) - 1))
    BY JournalDomain, Zenon
  <2> QED
    BY <1>h, <2>1
<1>8. ASSUME NEW id \in DOMAIN J PROVE J[id].amount \in Nat /\ J[id].epoch \in 0..Epoch
  <2>1. CASE id < first
    <3>1. id \in DOMAIN EvidenceRecords /\ J[id] = EvidenceRecords[id]
      BY <1>2, <1>6, <1>h, <1>7, <2>1 DEF Journal
    <3> QED
      BY <1>2, <3>1
  <2>2. CASE ~(id < first)
    <3>1. id \in first..(head - 1)
      BY <1>2, <1>h, <1>7, <2>2
    <3>2. id - first + 1 \in 1..Len(credits)
      BY <1>2, <1>6, <1>h, <3>1
    <3> DEFINE a == credits[id - first + 1]
    <3>3. J[id] = Record(a[1], a[2], a[3])
      BY <1>h, <2>2, <3>1 DEF Journal
    <3>4. a[3] \in Nat
      BY <1>6, <3>2
    <3> HIDE DEF J, a
    <3> QED
      BY <1>2, <3>3, <3>4 DEF Record
  <2> QED
    BY <2>1, <2>2
<1> HIDE DEF J
<1>9. DOMAIN EvidenceRecords' \subseteq DOMAIN J /\ \A id \in DOMAIN EvidenceRecords' : EvidenceRecords'[id] = J[id]
  BY <1>1 DEF Swept, J
<1>10. NextEvidenceRecordId' = head /\ head \in Nat /\ first \in Nat /\ first <= head /\ Epoch' = Epoch + 1
  BY <1>1, <1>2, <1>6, <1>h
<1>11. DOMAIN J \subseteq 0..(head - 1)
  BY <1>2, <1>h, <1>7, <1>10
<1>12. \A id \in DOMAIN EvidenceRecords' :
         EvidenceRecords'[id].amount \in Nat /\ EvidenceRecords'[id].epoch \in 0..Epoch'
  BY <1>2, <1>8, <1>9, <1>10
<1>13. JournalTyped'
  BY <1>1, <1>2, <1>4, <1>5, <1>9, <1>10, <1>11, <1>12 DEF JournalTyped
<1>14. JournalGrows
  BY <1>2, <1>h, <1>7, <1>9, <1>10 DEF JournalGrows
<1> QED
  BY <1>13, <1>14

LEMMA StillStruck ==
  ASSUME JournalTyped, StruckForGood, JournalTyped', JournalGrows, verdicts' = verdicts
  PROVE  StruckForGood'
<1>1. NextEvidenceRecordId \in Nat /\ NextEvidenceRecordId' \in Nat
  BY DEF JournalTyped
<1>2. ASSUME NEW v \in verdicts
      PROVE  v.struck \subseteq 0..(NextEvidenceRecordId' - 1) /\ v.struck \cap DOMAIN EvidenceRecords' = {}
  BY <1>1 DEF StruckForGood, JournalGrows
<1> QED
  BY <1>2 DEF StruckForGood

LEMMA ConvictStrikes ==
  ASSUME Register, JournalTyped, StruckForGood, NEW closer, NEW id \in DOMAIN Cases, Convict(closer, id)
  PROVE  JournalTyped' /\ StruckForGood'
<1> DEFINE c == Cases[id]
           struck == Struck(c.defendant, c.suit, c.evidence)
           worth == MapThenSumSet(RecordCurrent, struck)
           applied == Applied(c.defendant, c.suit, c.evidence, c.loss)
           after == CascadeSlash(c.defendant, c.suit, applied, 3)
           loss == Evidence[c.defendant][c.suit] - Evidence'[c.defendant][c.suit]
           v == [case |-> id, struck |-> struck, worth |-> worth, loss |-> loss]
<1>1. c.defendant \in Masks /\ c.suit \in Suits /\ c.loss \in Nat
  BY DEF Register, CasesInOrder, CaseInOrder, Case
<1>2. /\ Evidence' = [m \in Masks |-> [Evidence[m] EXCEPT ![c.suit] = after[m]]]
      /\ EvidenceRecords' = [i \in DOMAIN EvidenceRecords \ struck |-> EvidenceRecords[i]]
      /\ verdicts' = verdicts \cup {v}
      /\ UNCHANGED <<Epoch, ServiceCreditCursor, NextEvidenceRecordId>>
  BY DEF Convict, OnGuilty, RectifyForVerdict, Slash
<1>3. struck \subseteq DOMAIN EvidenceRecords
  BY DEF Struck
<1>4. worth \in Nat
  BY <1>3, WorthSum
<1>5. applied \in Nat /\ applied <= worth
  <2>1. PICK w \in Nat, l \in Nat : w = worth /\ l = c.loss
    BY <1>1, <1>4
  <2>2. applied = Min({l, w})
    BY <2>1 DEF Applied
  <2>3. Min({l, w}) = IF l =< w THEN l ELSE w
    BY MinMaxOfTwo
  <2> HIDE DEF applied, worth
  <2> QED
    BY <2>1, <2>2, <2>3
<1>6. Evidence \in Books
  BY DEF JournalTyped
<1> HIDE DEF worth, applied, struck
<1>7. after \in [Masks -> Nat] /\ after[c.defendant] >= Evidence[c.defendant][c.suit] - applied
  BY <1>1, <1>5, <1>6, CascadeSlashBounded
<1> HIDE DEF c, after
<1>8. Evidence' \in Books /\ Evidence'[c.defendant][c.suit] = after[c.defendant]
  BY <1>1, <1>2, <1>6, <1>7 DEF Books
<1>9. loss <= worth
  <2>1. /\ Evidence[c.defendant][c.suit] \in Nat /\ after[c.defendant] \in Nat
    BY <1>1, <1>6, <1>7 DEF Books
  <2> QED
    BY <1>4, <1>5, <1>7, <1>8, <2>1
<1> HIDE DEF loss
<1>10. v.struck = struck /\ v.loss = loss /\ v.worth = worth
  OBVIOUS
<1> HIDE DEF v
<1>11. JournalTyped'
  <2>1. DOMAIN EvidenceRecords' \subseteq DOMAIN EvidenceRecords
        /\ \A i \in DOMAIN EvidenceRecords' : EvidenceRecords'[i] = EvidenceRecords[i]
    BY <1>2
  <2> QED
    BY <1>2, <1>8, <2>1 DEF JournalTyped
<1>12. StruckForGood'
  <2>1. DOMAIN EvidenceRecords' = DOMAIN EvidenceRecords \ struck
    BY <1>2
  <2>2. struck \subseteq 0..(NextEvidenceRecordId - 1)
    BY <1>3 DEF JournalTyped
  <2>3. ASSUME NEW u \in verdicts'
        PROVE /\ u.struck \subseteq 0..(NextEvidenceRecordId' - 1)
              /\ u.struck \cap DOMAIN EvidenceRecords' = {}
              /\ u.loss <= u.worth
    BY <1>2, <1>9, <1>10, <2>1, <2>2 DEF StruckForGood
  <2>4. ASSUME NEW u \in verdicts', NEW w \in verdicts', u # w PROVE u.struck \cap w.struck = {}
    BY <1>2, <1>3, <1>10, <2>4 DEF StruckForGood
  <2> QED
    BY <2>3, <2>4 DEF StruckForGood
<1> QED
  BY <1>11, <1>12

LEMMA JournalStep ==
  Register /\ JournalTyped /\ StruckForGood /\ [Next]_vars => JournalTyped' /\ StruckForGood'
<1> SUFFICES ASSUME Register, JournalTyped, StruckForGood, [Next]_vars
             PROVE  JournalTyped' /\ StruckForGood'
  OBVIOUS
<1>0. ASSUME UNCHANGED <<Epoch, ServiceCreditCursor, NextEvidenceRecordId, Evidence, EvidenceRecords, verdicts>>
      PROVE  JournalTyped' /\ StruckForGood'
  BY <1>0 DEF JournalTyped, StruckForGood
<1>r. ASSUME UNCHANGED <<reputation, verdicts>> PROVE JournalTyped' /\ StruckForGood'
  BY <1>0, <1>r DEF reputation, standing, journal
<1>1. CASE OpenBlock
  <2>1. PICK committed \in Committers : DrawJuries(number + 1, committed)
    BY <1>1 DEF OpenBlock
  <2>2. verdicts' = verdicts
    BY <2>1 DEF DrawJuries
  <2>3. number + 1 \in 0..MaxBlock /\ OnInitialize(number + 1)
    <3>1. number \in Nat /\ MaxBlock \in Nat
      BY ReputationAssumption DEF Register, Docket, DocketTypes
    <3> QED
      BY <1>1, <3>1 DEF OpenBlock
  <2>4. CASE RunEpoch(number + 1)
    BY <2>2, <2>3, <2>4, EpochKeepsJournal, StillStruck
  <2>5. CASE UNCHANGED reputation
    BY <1>r, <2>2, <2>5
  <2> QED
    BY <2>3, <2>4, <2>5 DEF OnInitialize
<1>2. ASSUME NEW p \in Plaintiffs, NEW d \in Defendants, File(p, d) \/ FileIncapacity(p, d)
      PROVE  JournalTyped' /\ StruckForGood'
  <2>1. UNCHANGED <<reputation, verdicts>>
    BY <1>2 DEF File, FileIncapacity, OpenCase, OpenIncapacityCase, DoOpen
  <2> QED
    BY <1>r, <2>1
<1>3. ASSUME NEW tie \in Ties, CastVouch(tie) \/ WithdrawVouch(tie)
      PROVE  JournalTyped' /\ StruckForGood'
  <2>1. UNCHANGED <<standing, journal, verdicts>>
    BY <1>3 DEF CastVouch, WithdrawVouch, Vouch, RevokeVouch, justice
  <2> QED
    BY <1>0, <2>1 DEF standing, journal
<1>4. ASSUME NEW i \in DOMAIN Cases, Vote(i) PROVE JournalTyped' /\ StruckForGood'
  <2>1. UNCHANGED <<reputation, verdicts>>
    BY <1>4 DEF Vote, CastVote
  <2> QED
    BY <1>r, <2>1
<1>5. ASSUME NEW i \in DOMAIN Cases, Settle(i) PROVE JournalTyped' /\ StruckForGood'
  <2>1. PICK closer \in Closers :
          Lapse(closer, i) \/ Acquit(closer, i) \/ Nullify(closer, i) \/ Convict(closer, i)
    BY <1>5 DEF Settle
  <2>2. CASE Convict(closer, i)
    BY <2>2, ConvictStrikes
  <2>3. CASE Lapse(closer, i) \/ Acquit(closer, i) \/ Nullify(closer, i)
    <3>1. UNCHANGED <<reputation, verdicts>>
      BY <2>3 DEF Lapse, Acquit, Nullify
    <3> QED
      BY <1>r, <3>1
  <2> QED
    BY <2>1, <2>2, <2>3
<1>6. CASE UNCHANGED vars
  BY <1>r, <1>6 DEF vars, justice
<1> QED
  BY <1>1, <1>2, <1>3, <1>4, <1>5, <1>6 DEF Next

(* However many cases point to the same evidence, no record answers for    *)
(* two verdicts, and a verdict takes no more from the convicted than the   *)
(* records it struck were worth, whatever the cascade does above it.       *)
THEOREM VerdictsRectifyOnce == Spec => []RectifiedOnce
<1>1. StruckForGood => RectifiedOnce
  BY DEF StruckForGood, RectifiedOnce
<1> QED
  BY <1>1, RegisterInit, RegisterStep, JournalInit, JournalStep, PTL DEF Spec

-----------------------------------------------------------------------------
(* The bands of the entrenchment guard.                                      *)
Band == [start : Nat, cleared : Nat \union {None}]
BandEnded(band, now) ==
    band.cleared # None /\ band.start < band.cleared /\ band.cleared =< now
BandLasts(band, now) == band.cleared = None /\ band.start =< now
BandsInv ==
    /\ number \in Nat /\ EntrenchmentHalted \in BOOLEAN
    /\ EntrenchmentBands \in Seq(Band)
    /\ \A i \in 1..Len(EntrenchmentBands) :
         \/ BandEnded(EntrenchmentBands[i], number)
         \/ BandLasts(EntrenchmentBands[i], number)
    /\ BandsTrackHalts

\* What an epoch that ends in block n does to them.
GuardSteps(halted, n) ==
    /\ EntrenchmentHalted' = halted
    /\ EntrenchmentBands' =
         IF halted /\ ~EntrenchmentHalted THEN OpenBand(EntrenchmentBands, n)
         ELSE IF ~halted /\ EntrenchmentHalted THEN CloseBand(EntrenchmentBands, n)
         ELSE EntrenchmentBands

LEMMA GuardOfEpoch ==
  ASSUME NEW reps, NEW n, StepEntrenchmentGuard(reps, n)
  PROVE  \E halted \in BOOLEAN : GuardSteps(halted, n)
<1> DEFINE Stepped(step) ==
             /\ EntrenchmentHalted' = step.halted
             /\ EntrenchmentBands' =
                  IF step.halted /\ ~EntrenchmentHalted THEN OpenBand(EntrenchmentBands, n)
                  ELSE IF ~step.halted /\ EntrenchmentHalted THEN CloseBand(EntrenchmentBands, n)
                  ELSE EntrenchmentBands
<1>1. PICK step : /\ \E share : step = EntrenchmentHaltStep(share, ThresholdFp, EntrenchmentCounter,
                                                            RequiredEpochs)
                  /\ Stepped(step)
  BY DEF StepEntrenchmentGuard
<1>2. step.halted \in BOOLEAN
  <2> DEFINE over == EntrenchmentCounter + 1 >= RequiredEpochs
  <2>1. \/ step = [counter |-> EntrenchmentCounter + 1, halted |-> over]
        \/ step = [counter |-> 0, halted |-> FALSE]
    BY <1>1 DEF EntrenchmentHaltStep
  <2>2. over \in BOOLEAN
    OBVIOUS
  <2> HIDE DEF over
  <2>3. CASE step = [counter |-> EntrenchmentCounter + 1, halted |-> over]
    <3>1. step.halted = over
      BY <2>3, Zenon
    <3> QED
      BY <2>2, <3>1, Zenon
  <2>4. CASE step = [counter |-> 0, halted |-> FALSE]
    <3>1. step.halted = FALSE
      BY <2>4, Zenon
    <3> QED
      BY <3>1, Zenon
  <2> QED
    BY <2>1, <2>3, <2>4
<1> QED
  BY <1>1, <1>2 DEF GuardSteps

LEMMA BandsMove ==
  ASSUME BandsInv, number' = number + 1, NEW halted \in BOOLEAN, GuardSteps(halted, number + 1)
  PROVE  BandsInv'
<1> DEFINE b == EntrenchmentBands
           n == number + 1
           L == Len(EntrenchmentBands)
<1>1. /\ number \in Nat /\ b \in Seq(Band) /\ L \in Nat /\ n \in Nat /\ DOMAIN b = 1..L
      /\ \A i \in 1..L : /\ b[i] \in Band /\ b[i].start \in Nat /\ b[i].start < n
                         /\ b[i].cleared # None =>
                              b[i].cleared \in Nat /\ b[i].cleared < n /\ b[i].start < b[i].cleared
  <2>1. number \in Nat /\ b \in Seq(Band)
    BY DEF BandsInv
  <2>2. L \in Nat /\ n \in Nat /\ DOMAIN b = 1..L /\ \A i \in 1..L : b[i] \in Band
    BY <2>1
  <2>3. ASSUME NEW i \in 1..L
        PROVE  /\ b[i].start \in Nat /\ b[i].start < n
               /\ b[i].cleared # None =>
                    b[i].cleared \in Nat /\ b[i].cleared < n /\ b[i].start < b[i].cleared
    <3>1. b[i].start \in Nat /\ b[i].cleared \in Nat \union {None}
      BY <2>2 DEF Band
    <3>2. BandEnded(b[i], number) \/ BandLasts(b[i], number)
      BY DEF BandsInv
    <3> QED
      BY <2>1, <3>1, <3>2 DEF BandEnded, BandLasts
  <2> QED
    BY <2>1, <2>2, <2>3
<1>2. None \notin Nat
  BY ReputationAssumption
<1>3. /\ EntrenchmentHalted \in BOOLEAN
      /\ EntrenchmentHalted <=> L # 0 /\ b[L].cleared = None
      /\ \A i \in 1..(L - 1) : /\ b[i].cleared # None /\ b[i].cleared < b[i + 1].start
  BY <1>1 DEF BandsInv, BandsTrackHalts, Last
<1>4. EntrenchmentHalted' = halted
  BY DEF GuardSteps
<1>5. CASE halted /\ ~EntrenchmentHalted
  <2> DEFINE old == IF L = MaxBands THEN Tail(b) ELSE b
             new == [start |-> n, cleared |-> None]
  <2>1. EntrenchmentBands' = Append(old, new)
    BY <1>5 DEF GuardSteps, OpenBand
  <2>2. new \in Band
    BY <1>1 DEF Band
  <2>3. PICK d \in Nat : /\ old \in Seq(Band) /\ Len(old) + d = L /\ Len(old) \in Nat
                         /\ \A i \in 1..Len(old) : old[i] = b[i + d]
    <3>1. CASE L = MaxBands
      <4>1. L # 0 /\ b # <<>>
        BY <3>1, <1>1, ReputationAssumption DEF ReputationConfig
      <4>2. Tail(b) \in Seq(Band) /\ Len(Tail(b)) = L - 1 /\ \A i \in 1..(L - 1) : Tail(b)[i] = b[i + 1]
        BY <1>1, <4>1
      <4>3. old = Tail(b)
        BY <3>1
      <4> HIDE DEF old
      <4>4. Len(old) + 1 = L /\ Len(old) \in Nat
        BY <1>1, <4>1, <4>2, <4>3
      <4>5. \A i \in 1..Len(old) : old[i] = b[i + 1]
        BY <4>2, <4>3
      <4> QED
        BY <4>2, <4>3, <4>4, <4>5
    <3>2. CASE L # MaxBands
      <4>1. old = b
        BY <3>2
      <4> HIDE DEF old
      <4>2. Len(old) + 0 = L /\ \A i \in 1..Len(old) : old[i] = b[i + 0]
        BY <1>1, <4>1
      <4> QED
        BY <1>1, <4>1, <4>2
    <3> QED
      BY <3>1, <3>2
  <2> DEFINE k == Len(old)
  <2>4. /\ EntrenchmentBands' \in Seq(Band) /\ Len(EntrenchmentBands') = k + 1
        /\ EntrenchmentBands'[k + 1] = new /\ \A i \in 1..k : EntrenchmentBands'[i] = old[i]
    BY <2>1, <2>2, <2>3
  <2>k. k \in Nat /\ L = k + d
    BY <2>3
  <2>5. \A i \in 1..k : i + d \in 1..L /\ (i # k => i + d \in 1..(L - 1)) /\ (i = k => i + d = L)
    <3> HIDE DEF old, L
    <3> HIDE DEF k
    <3> QED
      BY <2>k
  <2>6. \A i \in 1..k : /\ old[i].cleared # None /\ old[i].start \in Nat /\ old[i].cleared \in Nat
                        /\ old[i].start < old[i].cleared /\ old[i].cleared < n
                        /\ i # k => old[i].cleared < old[i + 1].start
    <3>1. L # 0 => b[L].cleared # None
      BY <1>3, <1>5
    <3>2. \A i \in 1..k : i # k => old[i + 1] = b[i + d + 1]
      <4>1. ASSUME NEW i \in 1..k, i # k PROVE old[i + 1] = b[i + d + 1]
        <5>1. i + 1 \in 1..k /\ (i + 1) + d = i + d + 1
          BY <2>k, <4>1
        <5> QED
          BY <2>3, <5>1
      <4> QED
        BY <4>1
    <3>3. ASSUME NEW i \in 1..k
          PROVE  /\ old[i].cleared # None /\ old[i].start \in Nat /\ old[i].cleared \in Nat
                 /\ old[i].start < old[i].cleared /\ old[i].cleared < n
      <4>1. old[i] = b[i + d] /\ i + d \in 1..L
        BY <2>3, <2>5
      <4>2. b[i + d].cleared # None
        BY <1>3, <2>5, <3>1, <2>k
      <4> HIDE DEF old
      <4> QED
        BY <1>1, <4>1, <4>2
    <3>4. ASSUME NEW i \in 1..k, i # k PROVE old[i].cleared < old[i + 1].start
      BY <1>3, <2>3, <2>5, <3>2, <3>4
    <3> QED
      BY <3>3, <3>4
  <2> HIDE DEF old
  <2>7. number' = n /\ k \in Nat
    BY <2>3
  <2>8. \A i \in 1..(k + 1) : i = k + 1 \/ i \in 1..k
    BY <2>7
  <2>9. \A i \in 1..(k + 1) : BandEnded(EntrenchmentBands'[i], n) \/ BandLasts(EntrenchmentBands'[i], n)
    BY <1>1, <2>4, <2>6, <2>7, <2>8 DEF BandEnded, BandLasts
  <2>10. \A i \in 1..k : /\ EntrenchmentBands'[i].cleared # None
                         /\ EntrenchmentBands'[i].start < EntrenchmentBands'[i].cleared
                         /\ EntrenchmentBands'[i].cleared < EntrenchmentBands'[i + 1].start
    <3>1. ASSUME NEW i \in 1..k PROVE EntrenchmentBands'[i].cleared < EntrenchmentBands'[i + 1].start
      <4>1. CASE i = k
        BY <2>4, <2>6, <2>7, <4>1
      <4>2. CASE i # k
        <5>1. i + 1 \in 1..k
          BY <2>7, <4>2
        <5> QED
          BY <2>4, <2>6, <4>2, <5>1
      <4> QED
        BY <4>1, <4>2
    <3> QED
      BY <2>4, <2>6, <3>1
  <2>11. EntrenchmentBands' # <<>> /\ EntrenchmentBands'[Len(EntrenchmentBands')].cleared = None
    BY <2>4, <2>7
  <2>12. (k + 1) - 1 = k
    BY <2>7
  <2> QED
    BY <1>1, <1>4, <1>5, <2>4, <2>7, <2>9, <2>10, <2>11, <2>12 DEF BandsInv, BandsTrackHalts, Last
<1>6. CASE ~halted /\ EntrenchmentHalted
  <2>1. L # 0 /\ b[L].cleared = None /\ L \in 1..L
    BY <1>1, <1>3, <1>6
  <2>2. EntrenchmentBands' = [b EXCEPT ![L].cleared = n]
    BY <1>1, <1>6, <2>1 DEF GuardSteps, CloseBand, Last
  <2>3. /\ EntrenchmentBands' \in Seq(Band) /\ Len(EntrenchmentBands') = L
        /\ EntrenchmentBands'[L] = [b[L] EXCEPT !.cleared = n]
        /\ \A i \in 1..(L - 1) : EntrenchmentBands'[i] = b[i]
    <3>1. [b[L] EXCEPT !.cleared = n] \in Band
      BY <1>1, <2>1 DEF Band
    <3> QED
      BY <1>1, <2>1, <2>2, <3>1
  <2>4. EntrenchmentBands'[L].cleared = n /\ EntrenchmentBands'[L].start = b[L].start /\ n # None
    BY <1>1, <1>2, <2>1, <2>3 DEF Band
  <2>5. number' = n
    OBVIOUS
  <2>6. \A i \in 1..L : i = L \/ i \in 1..(L - 1)
    <3>1. L \in Nat
      BY <1>1
    <3> HIDE DEF L
    <3> QED
      BY <3>1
  <2>7. ASSUME NEW i \in 1..L PROVE BandEnded(EntrenchmentBands'[i], n)
    <3>1. CASE i = L
      <4>1. EntrenchmentBands'[i].cleared = n /\ EntrenchmentBands'[i].start = b[i].start
        BY <2>4, <3>1
      <4>2. b[i].start < n /\ n =< n /\ n # None
        BY <1>1, <2>4
      <4> QED
        BY <4>1, <4>2 DEF BandEnded
    <3>2. CASE i # L
      <4>1. i \in 1..(L - 1) /\ EntrenchmentBands'[i] = b[i] /\ b[i].cleared # None
        BY <1>3, <2>3, <2>6, <3>2
      <4>2. b[i].cleared \in Nat /\ b[i].cleared < n /\ b[i].start < b[i].cleared
        BY <1>1, <4>1
      <4> QED
        BY <1>1, <4>1, <4>2 DEF BandEnded
    <3> QED
      BY <3>1, <3>2
  <2>8. \A i \in 1..(L - 1) : /\ EntrenchmentBands'[i].cleared # None
                              /\ EntrenchmentBands'[i].start < EntrenchmentBands'[i].cleared
                              /\ EntrenchmentBands'[i].cleared < EntrenchmentBands'[i + 1].start
    <3>1. \A i \in 1..(L - 1) : i \in 1..L /\ EntrenchmentBands'[i].cleared < b[i + 1].start
                                /\ i + 1 \in 1..L
      BY <1>1, <1>3, <2>3
    <3>2. \A i \in 1..L : EntrenchmentBands'[i].start = b[i].start
      BY <2>3, <2>4, <2>6
    <3> QED
      BY <2>7, <3>1, <3>2 DEF BandEnded
  <2>9. EntrenchmentBands'[Len(EntrenchmentBands')].cleared # None
    BY <2>3, <2>4
  <2> QED
    BY <1>1, <1>4, <1>6, <2>3, <2>5, <2>7, <2>8, <2>9 DEF BandsInv, BandsTrackHalts, Last
<1>7. CASE halted = EntrenchmentHalted
  <2>1. EntrenchmentBands' = b /\ EntrenchmentHalted' = EntrenchmentHalted /\ number' = n
    BY <1>7 DEF GuardSteps
  <2>2. \A i \in 1..L : BandEnded(b[i], n) \/ BandLasts(b[i], n)
    BY <1>1 DEF BandEnded, BandLasts
  <2> QED
    BY <1>1, <1>3, <2>1, <2>2 DEF BandsInv, BandsTrackHalts
<1> QED
  BY <1>3, <1>5, <1>6, <1>7

LEMMA BandsStep == BandsInv /\ [NextEpochs]_varsEpochs => BandsInv'
<1> SUFFICES ASSUME BandsInv, [NextEpochs]_varsEpochs PROVE BandsInv'
  OBVIOUS
<1>1. CASE OpenEpochBlock
  <2>1. CASE (number + 1) % EpochLength = 0
    <3>1. PICK reps : StepEntrenchmentGuard(reps, number + 1)
      BY <1>1, <2>1 DEF OpenEpochBlock, OnInitialize, RunEpoch
    <3> QED
      BY <1>1, <3>1, GuardOfEpoch, BandsMove DEF OpenEpochBlock
  <2>2. CASE (number + 1) % EpochLength # 0
    <3>1. GuardSteps(EntrenchmentHalted, number + 1) /\ number' = number + 1
      BY <1>1, <2>2 DEF OpenEpochBlock, OnInitialize, reputation, guard, GuardSteps
    <3> QED
      BY <3>1, BandsMove DEF BandsInv
  <2> QED
    BY <2>1, <2>2
<1>2. CASE ~OpenEpochBlock
  <2>1. number' = number /\ UNCHANGED guard
    <3>1. CASE UNCHANGED varsEpochs
      BY <3>1 DEF varsEpochs, reputation
    <3>2. ASSUME NEW suit \in CallSuits, NEW a, NEW b, Attest(a, b, suit) \/ Claim(b, a, suit)
          PROVE  number' = number /\ UNCHANGED guard
      BY <3>2 DEF Attest, Claim, AttestEvidence, ClaimAttestedEvidence
    <3>3. ASSUME NEW suit \in CallSuits, NEW a, NEW b, PlaceVouch(a, b, suit) \/ TakeVouchBack(a, b, suit)
          PROVE  number' = number /\ UNCHANGED guard
      BY <3>3 DEF PlaceVouch, TakeVouchBack, Vouch, RevokeVouch
    <3>4. ASSUME NEW suit \in CallSuits, NEW m, Submit(m, suit) \/ Report(m, suit)
          PROVE  number' = number /\ UNCHANGED guard
      BY <3>4 DEF Submit, Report, SubmitEvidence, ReportFraud
    <3>5. CASE SetWindows
      BY <3>5 DEF SetWindows, SetBootstrapWindow, SetProbationWindow
    <3> QED
      BY <1>2, <3>1, <3>2, <3>3, <3>4, <3>5 DEF NextEpochs
  <2> QED
    BY <2>1 DEF BandsInv, BandsTrackHalts, guard
<1> QED
  BY <1>1, <1>2

(* A band is open exactly while the guard halts, and the bands follow each   *)
(* other, whatever the standings, the threshold and the capacity of the list.*)
THEOREM BandsAlwaysTrack == SpecEpochs => []BandsTrackHalts
<1>1. InitEpochs => BandsInv
  <2> SUFFICES ASSUME InitEpochs PROVE BandsInv
    OBVIOUS
  <2>1. number = 0 /\ EntrenchmentHalted = FALSE /\ EntrenchmentBands = <<>>
    BY DEF InitEpochs, InitReputation
  <2>2. EntrenchmentBands \in Seq(Band) /\ Len(EntrenchmentBands) = 0
    BY <2>1
  <2>3. 1..0 = {} /\ 1..(0 - 1) = {}
    OBVIOUS
  <2>4. BandsTrackHalts
    BY <2>1, <2>2, <2>3 DEF BandsTrackHalts
  <2> QED
    BY <2>1, <2>2, <2>3, <2>4 DEF BandsInv
<1>2. BandsInv => BandsTrackHalts
  BY DEF BandsInv
<1> QED
  BY <1>1, <1>2, BandsStep, PTL DEF SpecEpochs

-----------------------------------------------------------------------------
(* The electorate of the committee.                                          *)
LEMMA ReputedStand ==
  ASSUME NEW snapshot
  PROVE  LET reps == ConsensusReputation(snapshot) IN Positive(reps) = DOMAIN reps
<1> DEFINE Same(f) == CHOOSE g \in {f} : g = g
           all == [m \in Masks |-> ConsensusReputationOf(snapshot, m)]
           Of(f) == Same([m \in Positive(f) |-> f[m]])
<1>1. ConsensusReputation(snapshot) = CHOOSE y \in {Of(f) : f \in {Same(all)}} : TRUE
  BY DEF ConsensusReputation, With, Tabulated
<1>2. \A f : Same(f) = f
  OBVIOUS
<1> HIDE DEF Same, all
<1>3. Of(all) = [m \in Positive(all) |-> all[m]]
  BY <1>2
<1>4. Positive(Of(all)) = DOMAIN Of(all)
  BY <1>3 DEF Positive
<1> HIDE DEF Of
<1>5. {Of(f) : f \in {all}} = {Of(all)} /\ (CHOOSE y \in {Of(all)} : TRUE) = Of(all)
  OBVIOUS
<1> QED
  BY <1>1, <1>2, <1>4, <1>5

LEMMA ElectorateFits ==
  ASSUME NEW reputable, IsFiniteSet(reputable), NEW committed
  PROVE  /\ Electorate(reputable, committed) \subseteq reputable
         /\ Cardinality(Electorate(reputable, committed)) >= Min({Floor, Cardinality(reputable)})
<1> DEFINE k == Cardinality(reputable)
<1>1. k \in Nat /\ Floor \in Nat
  BY FS_CardinalityType, ScaleAssumption
<1> HIDE DEF k
<1>2. Min({Floor, k}) \in Int /\ Min({Floor, k}) =< k
  BY <1>1, MinMaxOfTwo
<1>3. CASE UsesBeacon(reputable, committed)
  BY <1>3 DEF UsesBeacon, Electorate
<1>4. CASE ~UsesBeacon(reputable, committed)
  <2>1. Electorate(reputable, committed) = reputable
    BY <1>4 DEF Electorate
  <2> QED
    BY <1>1, <1>2, <2>1 DEF k
<1> QED
  BY <1>3, <1>4

(* The committee is drawn among masks with standing and a vote key, at least *)
(* Floor of them when there are as many, whoever committed to the beacon.    *)
THEOREM CommitteeIsViable == SpecEpochs => []CommitteeViable
<1>1. CommitteeViable
  <2> DEFINE reps == ConsensusReputation(ReputationSnapshot)
  <2>1. Positive(reps) = DOMAIN reps /\ DOMAIN reps \subseteq Masks
    BY ReputedStand, ReputedAreMasks
  <2> HIDE DEF reps
  <2>2. ASSUME NEW bound \in SUBSET Masks, NEW committed \in SUBSET Masks
        PROVE  LET eligible == ElectorateOf(CommitteeInputs(reps, bound, committed))
                   reputable == DOMAIN reps \cap bound
               IN  /\ eligible \subseteq reputable
                   /\ ~EntrenchmentHalted =>
                        Cardinality(eligible) >= Min({Floor, Cardinality(reputable)})
    <3> DEFINE reputable == DOMAIN reps \cap bound
    <3>1. ElectorateOf(CommitteeInputs(reps, bound, committed)) =
            IF EntrenchmentHalted THEN {} ELSE Electorate(reputable, committed)
      BY <2>1 DEF ElectorateOf, CommitteeInputs, FinalityElectorate
    <3>2. IsFiniteSet(reputable)
      <4>1. reputable \subseteq Masks /\ IsFiniteSet(Masks)
        BY <2>1, ReputationAssumption
      <4> QED
        BY <4>1, FS_Subset
    <3> HIDE DEF reputable
    <3>3. /\ Electorate(reputable, committed) \subseteq reputable
          /\ Cardinality(Electorate(reputable, committed)) >= Min({Floor, Cardinality(reputable)})
      BY <3>2, ElectorateFits
    <3> QED
      BY <3>1, <3>3 DEF reputable
  <2> QED
    BY <2>2 DEF CommitteeViable, reps
<1> QED
  BY <1>1, PTL DEF SpecEpochs

-----------------------------------------------------------------------------
(* The cascade spares half: who is hit on a level above the culprit's keeps  *)
(* at least half, and nobody is hit twice.                                   *)
SparedHalf(c, ev) ==
  {st \in CascadeStates :
     \A m \in Masks : m # c => /\ 2 * st.ev[m] >= ev[m]
                               /\ m \in st.visited \/ st.ev[m] = ev[m]}

LEMMA HitSpares ==
  ASSUME NEW suit, NEW last \in BOOLEAN, NEW st \in CascadeStates, NEW entry \in Liables,
         Liable(st, entry)
  PROVE  2 * CascadeHit(suit, FALSE, last, st, entry).ev[entry[1]] >= st.ev[entry[1]]
<1> DEFINE who == entry[1]
           held == st.ev[who]
           hit == Min({entry[2], held \div 2})
           left == Saturating(held, hit)
<1>1. who \in Masks /\ entry[2] \in Nat
  BY DEF Liables
<1>2. CascadeHit(suit, FALSE, last, st, entry).ev = [st.ev EXCEPT ![who] = left]
  BY DEF CascadeHit
<1>3. held \in Nat /\ st.ev \in [Masks -> Nat]
  BY <1>1 DEF CascadeStates
<1>4. CascadeHit(suit, FALSE, last, st, entry).ev[who] = left
  BY <1>1, <1>2, <1>3
<1> HIDE DEF who, held
<1>5. 2 * left >= held
  <2>1. PICK half \in Nat : half = held \div 2 /\ 2 * half =< held
    BY <1>3
  <2>2. Min({entry[2], half}) = IF entry[2] =< half THEN entry[2] ELSE half
    BY <1>1, <2>1, MinMaxOfTwo
  <2>3. hit \in Nat /\ hit =< half
    BY <1>1, <2>1, <2>2
  <2> HIDE DEF hit
  <2>4. PICK d \in Int, zero \in Int : d = held - hit /\ zero = 0
    BY <1>3, <2>3
  <2>5. Max({d, zero}) = IF d =< zero THEN zero ELSE d
    BY MinMaxOfTwo
  <2>6. left = Max({d, zero})
    BY <2>4 DEF Saturating
  <2> HIDE DEF left
  <2> QED
    BY <1>3, <2>1, <2>3, <2>4, <2>5, <2>6
<1> QED
  BY <1>4, <1>5 DEF who, held

LEMMA HitHalves ==
  ASSUME NEW suit, NEW isCulprit \in BOOLEAN, NEW last \in BOOLEAN, NEW c, NEW ev \in [Masks -> Nat],
         NEW st \in SparedHalf(c, ev), NEW entry \in Liables, ~isCulprit \/ entry[1] = c
  PROVE  CascadeHit(suit, isCulprit, last, st, entry) \in SparedHalf(c, ev)
<1> DEFINE after == CascadeHit(suit, isCulprit, last, st, entry)
<1>1. st \in CascadeStates /\ \A m \in Masks : m # c => /\ 2 * st.ev[m] >= ev[m]
                                                        /\ m \in st.visited \/ st.ev[m] = ev[m]
  BY DEF SparedHalf
<1>2. HitFrom(st, entry, after)
  BY <1>1, HitTyped
<1>3. ASSUME Liable(st, entry), entry[1] # c PROVE 2 * after.ev[entry[1]] >= st.ev[entry[1]]
  <2>1. isCulprit = FALSE
    BY <1>3
  <2> QED
    BY <1>1, <1>3, <2>1, HitSpares
<1> HIDE DEF after
<1>4. CASE ~Liable(st, entry)
  BY <1>2, <1>4 DEF HitFrom, after
<1>5. CASE Liable(st, entry)
  <2>1. entry[1] \notin st.visited /\ entry[1] \in Masks
    BY <1>5 DEF Liable, Liables
  <2>2. after \in CascadeStates /\ after.visited = st.visited \cup {entry[1]}
        /\ \A m \in Masks : m # entry[1] => after.ev[m] = st.ev[m]
    BY <1>2, <1>5 DEF HitFrom
  <2>3. ASSUME NEW m \in Masks, m # c
        PROVE  2 * after.ev[m] >= ev[m] /\ (m \in after.visited \/ after.ev[m] = ev[m])
    <3>1. CASE m = entry[1]
      <4>1. st.ev[m] = ev[m] /\ 2 * after.ev[m] >= st.ev[m]
        BY <1>1, <1>3, <1>5, <2>1, <2>3, <3>1
      <4> QED
        BY <2>2, <3>1, <4>1
    <3>2. CASE m # entry[1]
      BY <1>1, <2>2, <2>3, <3>2
    <3> QED
      BY <3>1, <3>2
  <2> QED
    BY <2>2, <2>3 DEF SparedHalf, after
<1> QED
  BY <1>4, <1>5

LEMMA LevelSpares ==
  ASSUME NEW suit, NEW isCulprit \in BOOLEAN, NEW last \in BOOLEAN,
         NEW c \in Masks, NEW loss \in Nat, NEW ev \in [Masks -> Nat], NEW st \in SparedHalf(c, ev),
         isCulprit => st = Start(ev, c, loss)
  PROVE  CascadeLevel(suit, isCulprit, last, st) \in SparedHalf(c, ev)
<1>1. st \in CascadeStates
  BY DEF SparedHalf
<1>2. [ev |-> st.ev, visited |-> st.visited, next |-> <<>>] \in SparedHalf(c, ev)
  <2>1. <<>> \in Seq(Liables)
    OBVIOUS
  <2>2. PICK base : base = [ev |-> st.ev, visited |-> st.visited, next |-> <<>>]
    OBVIOUS
  <2>3. base \in CascadeStates /\ base.ev = st.ev /\ base.visited = st.visited
    BY <1>1, <2>1, <2>2 DEF CascadeStates
  <2> QED
    BY <2>2, <2>3 DEF SparedHalf
<1>3. \A i \in DOMAIN st.next : st.next[i] \in Liables /\ (isCulprit => st.next[i][1] = c)
  <2>1. \A i \in DOMAIN st.next : st.next[i] \in Liables
    BY <1>1 DEF CascadeStates
  <2>2. ASSUME isCulprit, NEW i \in DOMAIN st.next PROVE st.next[i][1] = c
    <3>1. st.next = <<<<c, loss>>>>
      BY <2>2 DEF Start
    <3> QED
      BY <3>1
  <2> QED
    BY <2>1, <2>2
<1>4. ASSUME NEW s \in SparedHalf(c, ev), NEW i \in DOMAIN st.next
      PROVE  CascadeHit(suit, isCulprit, last, s, st.next[i]) \in SparedHalf(c, ev)
  <2>1. PICK x \in Liables : x = st.next[i] /\ (~isCulprit \/ x[1] = c)
    BY <1>3
  <2> QED
    BY <2>1, HitHalves
<1> QED
  BY <1>1, <1>2, <1>4, LevelStays

LEMMA CascadeSpares ==
  ASSUME Evidence \in Books, NEW c \in Masks, NEW suit \in Suits, NEW loss \in Nat, NEW depth \in Nat
  PROVE  \A m \in Masks : m # c => 2 * CascadeSlash(c, suit, loss, depth)[m] >= Evidence[m][suit]
<1> DEFINE ev == [k \in Masks |-> Evidence[k][suit]]
           end == CascadeFrom(ev, c, suit, loss, depth)
           V == SparedHalf(c, ev)
<1>1. ev \in [Masks -> Nat] /\ \A m \in Masks : ev[m] = Evidence[m][suit]
  BY DEF Books
<1>2. (CHOOSE g \in {ev} : g = g) = ev
  OBVIOUS
<1>3. Tabulated(LAMBDA k : Evidence[k][suit], Masks) = CHOOSE g \in {ev} : g = g
  BY DEF Tabulated
<1> HIDE DEF ev
<1>4. CascadeSlash(c, suit, loss, depth) = end.ev
  BY <1>2, <1>3 DEF CascadeSlash, CascadeFrom, Start
<1>5. Start(ev, c, loss) \in V
  <2>1. <<c, loss>> \in Liables
    BY DEF Liables
  <2>2. <<<<c, loss>>>> \in Seq(Liables) /\ {} \in SUBSET Masks
    BY <2>1
  <2>3. PICK start : start = Start(ev, c, loss)
    OBVIOUS
  <2>4. start \in CascadeStates /\ start.ev = ev
    BY <1>1, <2>2, <2>3 DEF Start, CascadeStates
  <2>5. \A m \in Masks : 2 * ev[m] >= ev[m]
    BY <1>1
  <2> QED
    BY <2>3, <2>4, <2>5 DEF SparedHalf
<1>6. \A first, last \in BOOLEAN, s \in V :
        (first => s = Start(ev, c, loss)) => CascadeLevel(suit, first, last, s) \in V
  BY <1>1, LevelSpares
<1>7. V \in SUBSET CascadeStates
  BY DEF SparedHalf
<1> HIDE DEF V, end
<1>8. CascadeFrom(ev, c, suit, loss, depth) \in V
  BY <1>1, <1>5, <1>6, <1>7, CascadeStays
<1>9. end \in V
  BY <1>8 DEF end
<1>10. \A m \in Masks : m # c => 2 * end.ev[m] >= ev[m]
  BY <1>9 DEF V, SparedHalf
<1> QED
  BY <1>1, <1>4, <1>10

LEMMA SlashSpares ==
  ASSUME Evidence \in Books, NEW c \in Masks, NEW suit \in Suits, NEW loss \in Nat, NEW depth \in Nat,
         Slash(c, suit, loss, depth)
  PROVE  /\ Evidence' \in Books
         /\ \A m \in Masks, s \in Suits : m # c => 2 * Evidence'[m][s] >= Evidence[m][s]
<1>1. PICK after : /\ after = CascadeSlash(c, suit, loss, depth)
                   /\ Evidence' = [m \in Masks |-> [Evidence[m] EXCEPT ![suit] = after[m]]]
  BY DEF Slash
<1>2. after \in [Masks -> Nat] /\ \A m \in Masks : m # c => 2 * after[m] >= Evidence[m][suit]
  BY <1>1, CascadeSlashBounded, CascadeSpares
<1>3. Evidence' \in Books
  BY <1>1, <1>2 DEF Books
<1>4. ASSUME NEW m \in Masks, NEW s \in Suits, m # c PROVE 2 * Evidence'[m][s] >= Evidence[m][s]
  <2>1. Evidence[m][s] \in Nat
    BY DEF Books
  <2>2. Evidence'[m][s] = IF s = suit THEN after[m] ELSE Evidence[m][s]
    BY <1>1 DEF Books
  <2> QED
    BY <1>2, <1>4, <2>1, <2>2
<1> QED
  BY <1>3, <1>4

-----------------------------------------------------------------------------
(* What every block and every call leaves well formed: the journal, and the  *)
(* weights that wait to be claimed.                                          *)
TestimonyTyped ==
  /\ \A p \in DOMAIN Attestations : Attestations[p] \in Nat
  /\ \A p \in DOMAIN PairAttestCount : PairAttestCount[p] \in Nat
EpochsTyped == number \in 0..MaxBlock /\ JournalTyped /\ TestimonyTyped

LEMMA AdmitTyped ==
  ASSUME JournalTyped, NEW who \in Masks, NEW suit \in Suits, NEW amount \in Nat,
         Admit(who, suit, amount), UNCHANGED <<Epoch, ServiceCreditCursor>>
  PROVE  JournalTyped'
<1> DEFINE a == <<who, suit, amount>>
           J == Journal(EvidenceRecords, NextEvidenceRecordId, <<a>>)
<1>1. /\ Evidence' = [Evidence EXCEPT ![who][suit] = @ + amount]
      /\ EvidenceRecords' = J /\ NextEvidenceRecordId' = NextEvidenceRecordId + 1
      /\ Epoch' = Epoch /\ ServiceCreditCursor' = ServiceCreditCursor
  BY DEF Admit
<1>2. Epoch \in Nat /\ ServiceCreditCursor \in Nat /\ NextEvidenceRecordId \in Nat /\ Evidence \in Books
      /\ DOMAIN EvidenceRecords \subseteq 0..(NextEvidenceRecordId - 1)
      /\ \A id \in DOMAIN EvidenceRecords :
           EvidenceRecords[id].amount \in Nat /\ EvidenceRecords[id].epoch \in 0..Epoch
  BY DEF JournalTyped
<1>3. Evidence' \in Books
  BY <1>1, <1>2 DEF Books
<1>4. PICK next \in Nat : next = NextEvidenceRecordId
  BY <1>2
<1>5. DOMAIN J = DOMAIN EvidenceRecords \cup {next}
  <2>1. DOMAIN J = DOMAIN EvidenceRecords \cup (NextEvidenceRecordId..(NextEvidenceRecordId + Len(<<a>>) - 1))
    BY JournalDomain, Zenon
  <2>2. next..(next + Len(<<a>>) - 1) = {next}
    OBVIOUS
  <2> HIDE DEF J
  <2> QED
    BY <1>4, <2>1, <2>2
<1>6. ASSUME NEW id \in DOMAIN J PROVE J[id].amount \in Nat /\ J[id].epoch \in 0..Epoch
  <2>1. CASE id = next
    <3>1. <<a>>[id - next + 1] = a /\ ~(id < next)
      BY <2>1
    <3>2. J[id] = Record(a[1], a[2], a[3])
      BY <1>4, <1>5, <2>1, <3>1 DEF Journal
    <3> HIDE DEF J
    <3> QED
      BY <1>2, <3>2 DEF Record
  <2>2. CASE id # next
    <3>1. id \in DOMAIN EvidenceRecords /\ id < next
      BY <1>2, <1>4, <1>5, <2>2
    <3>2. J[id] = EvidenceRecords[id]
      BY <1>4, <1>5, <3>1 DEF Journal
    <3> HIDE DEF J
    <3> QED
      BY <1>2, <3>1, <3>2
  <2> QED
    BY <2>1, <2>2
<1> HIDE DEF J
<1>7. DOMAIN J \subseteq 0..(NextEvidenceRecordId' - 1)
  BY <1>1, <1>2, <1>4, <1>5
<1> QED
  BY <1>1, <1>2, <1>3, <1>4, <1>6, <1>7 DEF JournalTyped

(* The weight a testimony admits: half as much each time, of at most what    *)
(* one testimony could carry.                                                *)
Carried(attester, suit, amount) == Min({amount, StakeCap(attester, suit)})

LEMMA CarriedTyped ==
  ASSUME Evidence \in Books, NEW attester \in Masks, NEW suit \in Suits, NEW amount \in Nat
  PROVE  Carried(attester, suit, amount) \in Nat
<1>1. PICK held \in Nat : held = Evidence[attester][suit]
  BY DEF Books
<1>2. AttestStakeMultiplier \in Nat
  BY ReputationAssumption DEF ReputationConfig
<1>3. PICK cap \in Nat : cap = held * AttestStakeMultiplier
  BY <1>2
<1>4. Carried(attester, suit, amount) = Min({amount, cap})
  BY <1>1, <1>3 DEF Carried, StakeCap
<1> QED
  BY <1>4, MinMaxOfTwo

LEMMA CountTyped ==
  ASSUME TestimonyTyped, NEW pair
  PROVE  At(PairAttestCount, pair) \in Nat /\ At(Attestations, pair) \in Nat
BY DEF TestimonyTyped, At

LEMMA AdmittedTyped ==
  ASSUME Evidence \in Books, TestimonyTyped,
         NEW attester \in Masks, NEW beneficiary, NEW suit \in Suits, NEW amount \in Nat
  PROVE  LET n == At(PairAttestCount, <<attester, beneficiary, suit>>)
         IN  /\ Admitted(attester, beneficiary, suit, amount) \in Nat
             /\ Admitted(attester, beneficiary, suit, amount) * Power(2, n)
                  =< Carried(attester, suit, amount)
<1> DEFINE n == At(PairAttestCount, <<attester, beneficiary, suit>>)
           w == Carried(attester, suit, amount)
           admitted == Admitted(attester, beneficiary, suit, amount)
<1>1. w \in Nat
  BY CarriedTyped
<1>2. n \in Nat
  BY CountTyped
<1>3. PICK p \in Nat \ {0} : p = Power(2, n)
  <2>1. PICK P : P = Nat \ {0}
    OBVIOUS
  <2>2. Power(2, n) \in P
    BY <1>2, <2>1, PowerStays
  <2> QED
    BY <2>1, <2>2
<1>4. admitted = 0 \/ admitted = w \div p
  BY <1>3 DEF Admitted, Carried
<1> HIDE DEF n, w, admitted
<1>5. w \div p \in Nat /\ (w \div p) * p =< w
  BY <1>1, <1>3
<1>6. admitted \in Nat /\ admitted * p =< w
  BY <1>1, <1>3, <1>4, <1>5
<1> QED
  BY <1>3, <1>6 DEF n, w, admitted

LEMMA AttestTyped ==
  ASSUME EpochsTyped, NEW attester \in Masks, NEW beneficiary, NEW suit \in Suits, NEW amount \in Nat,
         AttestEvidence(attester, beneficiary, suit, amount)
  PROVE  EpochsTyped' /\ Evidence' = Evidence
<1> DEFINE pair == <<attester, beneficiary, suit>>
           admitted == Admitted(attester, beneficiary, suit, amount)
<1>1. \/ /\ Attestations' = Put(Attestations, pair, At(Attestations, pair) + admitted)
         /\ PairAttestCount' = Put(PairAttestCount, pair, At(PairAttestCount, pair) + 1)
      \/ UNCHANGED <<Attestations, PairAttestCount>>
  BY DEF AttestEvidence
<1>2. UNCHANGED <<number, standing, journal>>
  BY DEF AttestEvidence
<1>3. admitted \in Nat
  BY AdmittedTyped DEF EpochsTyped, JournalTyped
<1>4. At(Attestations, pair) \in Nat /\ At(PairAttestCount, pair) \in Nat
  BY CountTyped DEF EpochsTyped
<1> HIDE DEF pair, admitted
<1>5. At(Attestations, pair) + admitted \in Nat /\ At(PairAttestCount, pair) + 1 \in Nat
  BY <1>3, <1>4
<1>6. TestimonyTyped'
  <2>1. CASE UNCHANGED <<Attestations, PairAttestCount>>
    BY <2>1 DEF EpochsTyped, TestimonyTyped
  <2>2. CASE /\ Attestations' = Put(Attestations, pair, At(Attestations, pair) + admitted)
             /\ PairAttestCount' = Put(PairAttestCount, pair, At(PairAttestCount, pair) + 1)
    BY <2>2, <1>5 DEF EpochsTyped, TestimonyTyped, Put
  <2> QED
    BY <1>1, <2>1, <2>2
<1>7. number' \in 0..MaxBlock /\ JournalTyped' /\ Evidence' = Evidence
  BY <1>2 DEF EpochsTyped, JournalTyped, standing, journal
<1> QED
  BY <1>6, <1>7 DEF EpochsTyped

LEMMA EpochsInit == InitEpochs => EpochsTyped
<1> SUFFICES ASSUME InitEpochs PROVE EpochsTyped
  OBVIOUS
<1>1. /\ Epoch = 0 /\ ServiceCreditCursor = 0 /\ NextEvidenceRecordId = Len(Grants)
      /\ Evidence = GenesisEvidence /\ number = 0
      /\ EvidenceRecords = [id \in 0..(Len(Grants) - 1) |->
                              [who |-> Grants[id + 1][1], suit |-> Grants[id + 1][2],
                               amount |-> Grants[id + 1][3], epoch |-> 0]]
      /\ Attestations = <<>> /\ PairAttestCount = <<>>
  BY DEF InitEpochs, InitReputation
<1>2. Len(Grants) \in Nat /\ \A i \in 1..Len(Grants) : Grants[i][3] \in Nat
  BY GrantsTyped
<1>3. \A id \in 0..(Len(Grants) - 1) : id + 1 \in 1..Len(Grants)
  BY <1>2
<1>4. DOMAIN EvidenceRecords = 0..(Len(Grants) - 1)
      /\ \A id \in DOMAIN EvidenceRecords :
           EvidenceRecords[id].amount \in Nat /\ EvidenceRecords[id].epoch = 0
  BY <1>1, <1>2, <1>3
<1>5. JournalTyped
  BY <1>1, <1>2, <1>4, GenesisTyped DEF JournalTyped
<1>6. DOMAIN Attestations = {} /\ DOMAIN PairAttestCount = {}
  BY <1>1
<1>7. number \in 0..MaxBlock
  BY <1>1, ReputationAssumption
<1> QED
  BY <1>5, <1>6, <1>7 DEF EpochsTyped, TestimonyTyped

\* Who was hit, and that the counter of epochs tells a block from a call.
Spares(c) == \A m \in Masks, s \in Suits : m # c => 2 * Evidence'[m][s] >= Evidence[m][s]

LEMMA EvidenceGrows ==
  ASSUME JournalTyped, NEW who \in Masks, NEW suit \in Suits, NEW amount \in Nat,
         Admit(who, suit, amount)
  PROVE  \A c : Spares(c)
<1>1. Evidence' = [Evidence EXCEPT ![who][suit] = @ + amount]
  BY DEF Admit
<1>2. ASSUME NEW m \in Masks, NEW s \in Suits PROVE 2 * Evidence'[m][s] >= Evidence[m][s]
  <2>1. PICK e \in Nat : e = Evidence[m][s]
    BY DEF JournalTyped, Books
  <2>2. Evidence'[m][s] = e \/ Evidence'[m][s] = e + amount
    BY <1>1, <2>1 DEF JournalTyped, Books
  <2> QED
    BY <2>1, <2>2
<1> QED
  BY <1>2 DEF Spares

LEMMA EvidenceStays ==
  ASSUME JournalTyped, Evidence' = Evidence
  PROVE  \A c : Spares(c)
<1>1. ASSUME NEW m \in Masks, NEW s \in Suits PROVE 2 * Evidence'[m][s] >= Evidence[m][s]
  <2>1. PICK e \in Nat : e = Evidence[m][s]
    BY DEF JournalTyped, Books
  <2> QED
    BY <2>1
<1> QED
  BY <1>1 DEF Spares

LEMMA EpochsStep ==
  EpochsTyped /\ [NextEpochs]_varsEpochs => EpochsTyped' /\ (Epoch' = Epoch => \E c : Spares(c))
<1> SUFFICES ASSUME EpochsTyped, [NextEpochs]_varsEpochs
             PROVE  EpochsTyped' /\ (Epoch' = Epoch => \E c : Spares(c))
  OBVIOUS
<1>t. JournalTyped /\ number \in 0..MaxBlock /\ Epoch \in Nat /\ Evidence \in Books /\ TestimonyTyped
  BY DEF EpochsTyped, JournalTyped
<1>a. Attesters \subseteq Masks /\ Vouchers \subseteq Masks /\ Beneficiaries \subseteq Masks
      /\ Culprits \subseteq Masks /\ CallSuits \subseteq Suits /\ Amounts \subseteq Nat
      /\ FraudLosses \subseteq Nat /\ Depths \subseteq Nat
  BY CallsAssumption
<1>0. ASSUME number' \in 0..MaxBlock, UNCHANGED <<standing, journal, testimony>>
      PROVE  EpochsTyped' /\ Evidence' = Evidence
  BY <1>0, <1>t DEF EpochsTyped, JournalTyped, TestimonyTyped, standing, journal, testimony
<1>s. ASSUME number' \in 0..MaxBlock, UNCHANGED <<standing, journal, testimony>>
      PROVE  EpochsTyped' /\ \E c : Spares(c)
  BY <1>0, <1>s, <1>t, EvidenceStays
<1>1. CASE OpenEpochBlock
  <2>1. number' = number + 1 /\ number + 1 \in 0..MaxBlock /\ OnInitialize(number + 1)
    <3>1. MaxBlock \in Nat
      BY ReputationAssumption
    <3> QED
      BY <1>1, <1>t, <3>1 DEF OpenEpochBlock
  <2>2. CASE RunEpoch(number + 1)
    <3>1. JournalTyped'
      BY <1>t, <2>1, <2>2, EpochKeepsJournal
    <3>2. UNCHANGED testimony /\ Epoch' = Epoch + 1
      BY <2>2 DEF RunEpoch
    <3>3. TestimonyTyped'
      BY <1>t, <3>2 DEF TestimonyTyped, testimony
    <3> QED
      BY <1>t, <2>1, <3>1, <3>2, <3>3 DEF EpochsTyped
  <2>3. CASE UNCHANGED reputation
    <3>1. UNCHANGED <<standing, journal, testimony>> /\ number' \in 0..MaxBlock
      BY <2>1, <2>3 DEF reputation
    <3> QED
      BY <1>s, <3>1
  <2> QED
    BY <2>1, <2>2, <2>3 DEF OnInitialize
<1>2. ASSUME NEW suit \in CallSuits, NEW a \in Attesters, NEW b \in Beneficiaries, Attest(a, b, suit)
      PROVE  EpochsTyped' /\ \E c : Spares(c)
  <2>1. PICK amount \in Amounts : AttestEvidence(a, b, suit, amount)
    BY <1>2 DEF Attest
  <2>2. EpochsTyped' /\ Evidence' = Evidence
    BY <1>a, <2>1, AttestTyped
  <2> QED
    BY <1>t, <2>2, EvidenceStays
<1>3. ASSUME NEW suit \in CallSuits, NEW a \in Attesters, NEW b \in Beneficiaries, Claim(b, a, suit)
      PROVE  EpochsTyped' /\ \E c : Spares(c)
  <2> DEFINE pair == <<a, b, suit>>
  <2>1. /\ pair \in DOMAIN Attestations /\ Admit(b, suit, Attestations[pair])
        /\ Attestations' = [p \in DOMAIN Attestations \ {pair} |-> Attestations[p]]
        /\ UNCHANGED <<number, Epoch, ServiceCreditCursor, PairAttestCount>>
    BY <1>3 DEF Claim, ClaimAttestedEvidence
  <2>2. PICK amount \in Nat : amount = Attestations[pair]
    BY <1>t, <2>1 DEF TestimonyTyped
  <2> HIDE DEF pair
  <2>3. b \in Masks /\ suit \in Suits /\ Admit(b, suit, amount)
    BY <1>a, <2>1, <2>2
  <2>4. JournalTyped' /\ \A c : Spares(c)
    BY <1>t, <2>1, <2>3, AdmitTyped, EvidenceGrows
  <2>5. TestimonyTyped' /\ number' \in 0..MaxBlock
    BY <1>t, <2>1 DEF TestimonyTyped
  <2> QED
    BY <2>4, <2>5 DEF EpochsTyped
<1>4. ASSUME NEW suit \in CallSuits, NEW v, NEW m, PlaceVouch(v, m, suit) \/ TakeVouchBack(v, m, suit)
      PROVE  EpochsTyped' /\ \E c : Spares(c)
  <2>1. UNCHANGED <<number, standing, journal, testimony>>
    BY <1>4 DEF PlaceVouch, TakeVouchBack, Vouch, RevokeVouch
  <2> QED
    BY <1>s, <1>t, <2>1
<1>5. ASSUME NEW suit \in CallSuits, NEW m \in Beneficiaries, Submit(m, suit)
      PROVE  EpochsTyped' /\ \E c : Spares(c)
  <2>1. PICK amount \in Amounts : SubmitEvidence(m, suit, amount)
    BY <1>5 DEF Submit
  <2>2. m \in Masks /\ suit \in Suits /\ amount \in Nat /\ Admit(m, suit, amount)
        /\ UNCHANGED <<number, Epoch, ServiceCreditCursor, testimony>>
    BY <1>a, <2>1 DEF SubmitEvidence
  <2>3. JournalTyped' /\ \A c : Spares(c)
    BY <1>t, <2>2, AdmitTyped, EvidenceGrows
  <2>4. TestimonyTyped' /\ number' \in 0..MaxBlock
    BY <1>t, <2>2 DEF TestimonyTyped, testimony
  <2> QED
    BY <2>3, <2>4 DEF EpochsTyped
<1>6. ASSUME NEW suit \in CallSuits, NEW m \in Culprits, Report(m, suit)
      PROVE  EpochsTyped' /\ \E c : Spares(c)
  <2>1. PICK loss \in FraudLosses : \E depth \in Depths : ReportFraud(m, suit, loss, depth)
    BY <1>6 DEF Report
  <2>2. PICK depth \in Depths : ReportFraud(m, suit, loss, depth)
    BY <2>1
  <2>3. m \in Masks /\ suit \in Suits /\ loss \in Nat /\ depth \in Nat /\ Slash(m, suit, loss, depth)
        /\ UNCHANGED <<number, Epoch, ServiceCreditCursor, journal, testimony>>
    BY <1>a, <2>2 DEF ReportFraud
  <2>4. Evidence' \in Books /\ Spares(m)
    BY <1>t, <2>3, SlashSpares DEF Spares
  <2>5. JournalTyped' /\ TestimonyTyped' /\ number' \in 0..MaxBlock
    BY <1>t, <2>3, <2>4 DEF JournalTyped, TestimonyTyped, journal, testimony
  <2> QED
    BY <2>4, <2>5 DEF EpochsTyped
<1>7. CASE SetWindows
  <2>1. UNCHANGED <<number, standing, journal, testimony>>
    BY <1>7 DEF SetWindows, SetBootstrapWindow, SetProbationWindow
  <2> QED
    BY <1>s, <1>t, <2>1
<1>8. CASE UNCHANGED varsEpochs
  <2>1. UNCHANGED <<number, standing, journal, testimony>>
    BY <1>8 DEF varsEpochs, reputation
  <2> QED
    BY <1>s, <1>t, <2>1
<1> QED
  BY <1>1, <1>2, <1>3, <1>4, <1>5, <1>6, <1>7, <1>8 DEF NextEpochs

(* One verdict takes more than half from no one but its culprit, whatever    *)
(* the graph of vouches, the liability and the depth of the cascade.         *)
THEOREM SponsorsAlwaysKeepHalf == SpecEpochs => SponsorsKeepHalf
<1>1. EpochsTyped /\ [NextEpochs]_varsEpochs
        => (Epoch' = Epoch =>
              Cardinality({m \in Masks : \E s \in Suits : 2 * Evidence'[m][s] < Evidence[m][s]}) <= 1)
  <2> SUFFICES ASSUME EpochsTyped, [NextEpochs]_varsEpochs, Epoch' = Epoch
               PROVE  Cardinality({m \in Masks : \E s \in Suits :
                                     2 * Evidence'[m][s] < Evidence[m][s]}) <= 1
    OBVIOUS
  <2> DEFINE hit == {m \in Masks : \E s \in Suits : 2 * Evidence'[m][s] < Evidence[m][s]}
  <2>1. PICK c : Spares(c)
    BY EpochsStep
  <2>2. EpochsTyped'
    BY EpochsStep
  <2>3. hit \subseteq {c}
    <3>1. ASSUME NEW m \in Masks, NEW s \in Suits, m # c PROVE ~(2 * Evidence'[m][s] < Evidence[m][s])
      <4>1. Evidence[m][s] \in Nat /\ Evidence'[m][s] \in Nat
        BY <2>2 DEF EpochsTyped, JournalTyped, Books
      <4> QED
        BY <2>1, <3>1, <4>1 DEF Spares
    <3> QED
      BY <3>1
  <2> HIDE DEF hit
  <2>4. IsFiniteSet({c}) /\ Cardinality({c}) = 1
    BY FS_Singleton
  <2>5. Cardinality(hit) <= 1
    BY <2>3, <2>4, FS_Subset
  <2> QED
    BY <2>5 DEF hit
<1>2. EpochsTyped /\ [NextEpochs]_varsEpochs => EpochsTyped'
  BY EpochsStep
<1> QED
  BY <1>1, <1>2, EpochsInit, PTL DEF SpecEpochs, SponsorsKeepHalf

-----------------------------------------------------------------------------
(* A power is one more factor than the power before.                         *)
PowerFold(h, base, n) ==
  \A S \in SUBSET (1..n) : /\ h[S] \in Nat
                           /\ h[S] = IF S = {} THEN 1 ELSE h[S \ {Max(S)}] * base

LEMMA PowerFolds ==
  ASSUME NEW base \in Nat, NEW n \in Nat
  PROVE  \E h : PowerFold(h, base, n) /\ Power(base, n) = h[1..n]
<1> DEFINE T == [i \in 1..n |-> i]
           Step(s, x) == s * base
           iter == CHOOSE g : g = [S \in SUBSET DOMAIN T |->
                     IF S = {} THEN 1 ELSE Step(g[S \ {Max(S)}], T[Max(S)])]
<1>1. DOMAIN T = 1..n
  OBVIOUS
<1>2. Power(base, n) = iter[DOMAIN T]
  BY DEF Power, FoldLeft, MapThenFoldSet
<1>3. \A i \in 1..n, s \in Nat : Step(s, T[i]) \in Nat /\ Step(s, T[i]) = s * base
  OBVIOUS
<1>m. \A S \in SUBSET (1..n) : S # {} => Max(S) \in 1..n
  BY LastIndex
<1> HIDE DEF T, Step
<1> DEFINE step == [p \in (1..n) \X Nat |-> Step(p[2], T[p[1]])]
<1>4. step \in [(1..n) \X Nat -> Nat] /\ \A i \in 1..n, s \in Nat : step[<<i, s>>] = Step(s, T[i])
  BY <1>3
<1> HIDE DEF step
<1>5. PICK g : SequenceFoldsInto(g, step, 1, n, Nat)
  BY <1>4, SequenceFoldSolvable
<1>6. g = [S \in SUBSET (1..n) |-> IF S = {} THEN 1 ELSE Step(g[S \ {Max(S)}], T[Max(S)])]
  <2>1. \A S \in SUBSET (1..n) : S # {} =>
          step[<<Max(S), g[S \ {Max(S)}]>>] = Step(g[S \ {Max(S)}], T[Max(S)])
    BY <1>m, <1>4, <1>5 DEF SequenceFoldsInto
  <2> QED
    BY <1>5, <2>1 DEF SequenceFoldsInto
<1>7. iter = [S \in SUBSET (1..n) |-> IF S = {} THEN 1 ELSE Step(iter[S \ {Max(S)}], T[Max(S)])]
  BY <1>1, <1>6
<1> HIDE DEF iter
<1> DEFINE G == {S \in SUBSET (1..n) : iter[S] \in Nat}
<1>8. ASSUME NEW S \in SUBSET (1..n), \A R \in SUBSET S : R # S => R \in G PROVE S \in G
  <2>1. CASE S = {}
    <3>1. iter[S] = 1
      BY <1>7, <2>1
    <3> QED
      BY <3>1
  <2>2. CASE S # {}
    <3>1. S \ {Max(S)} \in G /\ Max(S) \in 1..n
      BY <1>8, <2>2, LastIndex
    <3>2. iter[S] = Step(iter[S \ {Max(S)}], T[Max(S)])
      BY <1>7, <2>2
    <3> QED
      BY <1>3, <3>1, <3>2
  <2> QED
    BY <2>1, <2>2
<1>9. \A S \in SUBSET (1..n) : iter[S] \in Nat
  <2>1. IsFiniteSet(1..n)
    BY FS_Interval
  <2> HIDE DEF G
  <2>2. \A S \in SUBSET (1..n) : S \in G
    BY <1>8, <2>1, SubsetInduction
  <2> QED
    BY <2>2 DEF G
<1>10. ASSUME NEW S \in SUBSET (1..n)
       PROVE  iter[S] = IF S = {} THEN 1 ELSE iter[S \ {Max(S)}] * base
  <2>1. iter[S] = IF S = {} THEN 1 ELSE Step(iter[S \ {Max(S)}], T[Max(S)])
    BY <1>7
  <2>2. S # {} => Step(iter[S \ {Max(S)}], T[Max(S)]) = iter[S \ {Max(S)}] * base
    BY <1>m, <1>3, <1>9
  <2> QED
    BY <2>1, <2>2
<1> QED
  BY <1>1, <1>2, <1>9, <1>10 DEF PowerFold

LEMMA PowerNext ==
  ASSUME NEW base \in Nat, NEW n \in Nat
  PROVE  /\ Power(base, 0) = 1 /\ Power(base, n) \in Nat
         /\ Power(base, n + 1) = Power(base, n) * base
<1>1. Power(base, 0) = 1
  <2>1. PICK h : PowerFold(h, base, 0) /\ Power(base, 0) = h[1..0]
    BY PowerFolds
  <2>2. 1..0 = {}
    OBVIOUS
  <2> QED
    BY <2>1, <2>2 DEF PowerFold
<1>2. PICK h : PowerFold(h, base, n) /\ Power(base, n) = h[1..n]
  BY PowerFolds
<1>3. PICK k : PowerFold(k, base, n + 1) /\ Power(base, n + 1) = k[1..(n + 1)]
  BY PowerFolds
<1> DEFINE G == {S \in SUBSET (1..n) : k[S] = h[S]}
<1>4. ASSUME NEW S \in SUBSET (1..n), \A R \in SUBSET S : R # S => R \in G PROVE S \in G
  <2>1. S \in SUBSET (1..(n + 1))
    OBVIOUS
  <2>2. CASE S = {}
    BY <1>2, <1>3, <2>1, <2>2 DEF PowerFold
  <2>3. CASE S # {}
    <3>1. S \ {Max(S)} \in G
      BY <1>4, <2>3, LastIndex
    <3>2. k[S] = k[S \ {Max(S)}] * base
      BY <1>3, <2>1, <2>3 DEF PowerFold
    <3>3. h[S] = h[S \ {Max(S)}] * base
      BY <1>2, <2>3 DEF PowerFold
    <3> QED
      BY <3>1, <3>2, <3>3
  <2> QED
    BY <2>2, <2>3
<1>5. k[1..n] = h[1..n]
  <2>1. IsFiniteSet(1..n) /\ 1..n \in SUBSET (1..n)
    BY FS_Interval
  <2> HIDE DEF G
  <2>2. \A S \in SUBSET (1..n) : S \in G
    BY <1>4, <2>1, SubsetInduction
  <2> QED
    BY <2>1, <2>2 DEF G
<1>6. Max(1..(n + 1)) = n + 1
  <2>1. 1..(n + 1) \in SUBSET (0..(n + 1)) /\ 1..(n + 1) # {} /\ n + 1 \in 1..(n + 1) /\ n + 1 \in Nat
    OBVIOUS
  <2>2. PICK top : top = n + 1
    OBVIOUS
  <2>3. Max(1..top) \in 1..top /\ top =< Max(1..top)
    BY <2>1, <2>2, GreatestBelongs
  <2> QED
    BY <2>2, <2>3
<1>7. 1..(n + 1) \in SUBSET (1..(n + 1)) /\ 1..(n + 1) # {} /\ (1..(n + 1)) \ {n + 1} = 1..n
  <2>1. \A i \in Int : i \in 1..(n + 1) /\ i # n + 1 <=> i \in 1..n
    OBVIOUS
  <2>2. n + 1 \in 1..(n + 1)
    OBVIOUS
  <2> QED
    BY <2>1, <2>2
<1>8. k[1..(n + 1)] = k[1..n] * base
  BY <1>3, <1>6, <1>7 DEF PowerFold
<1>9. h[1..n] \in Nat
  BY <1>2 DEF PowerFold
<1> QED
  BY <1>1, <1>2, <1>3, <1>5, <1>8, <1>9

(* The inductive form of the bound: after n testimonies the pair has had at  *)
(* most 1 + 1/2 + ... + 1/2^(n-1) of what one of them could carry.           *)
Halving(t, p) == t.sum * p =< 2 * t.base * (p - 1)
PairsBounded ==
  /\ DOMAIN testified = DOMAIN PairAttestCount
  /\ \A pair \in DOMAIN testified :
       /\ testified[pair].sum \in Nat /\ testified[pair].base \in Nat
       /\ Halving(testified[pair], Power(2, PairAttestCount[pair]))

LEMMA PairsShow == TestimonyTyped /\ PairsBounded => PairFabricationBounded
<1> SUFFICES ASSUME TestimonyTyped, PairsBounded, NEW pair \in DOMAIN testified
             PROVE  testified[pair].sum <= 2 * testified[pair].base
  BY DEF PairFabricationBounded
<1>1. PICK s \in Nat, b \in Nat : s = testified[pair].sum /\ b = testified[pair].base
  BY DEF PairsBounded
<1>2. PICK n \in Nat : n = PairAttestCount[pair]
  BY DEF PairsBounded, TestimonyTyped
<1>3. PICK p \in Nat \ {0} : p = Power(2, n)
  <2>1. PICK P : P = Nat \ {0}
    OBVIOUS
  <2>2. Power(2, n) \in P
    BY <2>1, PowerStays
  <2> QED
    BY <2>1, <2>2
<1>4. s * p =< 2 * b * (p - 1)
  BY <1>1, <1>2, <1>3 DEF PairsBounded, Halving
<1>5. s * p =< 2 * b * p
  BY <1>4
<1>6. s =< 2 * b
  <2>1. ASSUME s > 2 * b PROVE FALSE
    <3>1. (s - 2 * b) * p >= 1
      BY <2>1
    <3> QED
      BY <1>5, <3>1
  <2> QED
    BY <2>1
<1> QED
  BY <1>1, <1>6

LEMMA HalvesAgain ==
  ASSUME NEW s \in Nat, NEW b \in Nat, NEW p \in Nat \ {0}, s * p =< 2 * b * (p - 1),
         NEW w \in Nat, NEW a \in Nat, a * p =< w, NEW c \in Nat, c >= b, c >= w
  PROVE  (s + a) * (p * 2) =< 2 * c * (p * 2 - 1)
<1>1. (s + a) * (p * 2) = 2 * (s * p) + 2 * (a * p)
  OBVIOUS
<1>2. 2 * c * (p * 2 - 1) = 4 * (c * (p - 1)) + 2 * c
  OBVIOUS
<1>3. b * (p - 1) =< c * (p - 1)
  <2>1. PICK d \in Nat, q \in Nat : c = b + d /\ q = p - 1
    <3>1. c - b \in Nat /\ p - 1 \in Nat
      OBVIOUS
    <3> QED
      BY <3>1
  <2>2. c * q = b * q + d * q /\ d * q >= 0
    BY <2>1
  <2> QED
    BY <2>1, <2>2
<1>4. 2 * b * (p - 1) = 2 * (b * (p - 1))
  OBVIOUS
<1>5. PICK sp \in Nat, ap \in Nat, bq \in Int, cq \in Int :
        sp = s * p /\ ap = a * p /\ bq = b * (p - 1) /\ cq = c * (p - 1)
  OBVIOUS
<1>6. 2 * sp + 2 * ap =< 4 * cq + 2 * c
  BY <1>3, <1>4, <1>5
<1> QED
  BY <1>1, <1>2, <1>5, <1>6

LEMMA PairsStep == EpochsTyped /\ PairsBounded /\ [NextEpochs]_varsEpochs => PairsBounded'
<1> SUFFICES ASSUME EpochsTyped, PairsBounded, [NextEpochs]_varsEpochs PROVE PairsBounded'
  OBVIOUS
<1>0. ASSUME UNCHANGED <<PairAttestCount, testified>> PROVE PairsBounded'
  BY <1>0 DEF PairsBounded
<1>1. ASSUME NEW suit \in CallSuits, NEW attester \in Attesters, NEW beneficiary \in Beneficiaries,
             Attest(attester, beneficiary, suit)
      PROVE  PairsBounded'
  <2>1. PICK amount \in Amounts : AttestEvidence(attester, beneficiary, suit, amount)
    BY <1>1 DEF Attest
  <2>2. attester \in Masks /\ suit \in Suits /\ amount \in Nat
    BY CallsAssumption
  <2> DEFINE pair == <<attester, beneficiary, suit>>
             admitted == Admitted(attester, beneficiary, suit, amount)
             w == Carried(attester, suit, amount)
             so_far == IF pair \in DOMAIN testified THEN testified[pair] ELSE [sum |-> 0, base |-> 0]
             now == [sum |-> so_far.sum + admitted, base |-> Max({so_far.base, w})]
             n == At(PairAttestCount, pair)
  <2>3. \/ UNCHANGED <<PairAttestCount, testified>>
        \/ /\ PairAttestCount' = Put(PairAttestCount, pair, n + 1)
           /\ testified' = Put(testified, pair, now)
    BY <2>1 DEF AttestEvidence, Carried
  <2>4. w \in Nat
    BY <2>2, CarriedTyped DEF EpochsTyped, JournalTyped
  <2>5. n \in Nat
    BY CountTyped DEF EpochsTyped
  <2>6. PICK p \in Nat \ {0} : p = Power(2, n) /\ Power(2, n + 1) = p * 2
    <3>1. PICK P : P = Nat \ {0}
      OBVIOUS
    <3>2. Power(2, n) \in P
      BY <2>5, <3>1, PowerStays
    <3> QED
      BY <2>5, <3>1, <3>2, PowerNext
  <2>7. admitted \in Nat /\ admitted * p =< w
    BY <2>2, <2>6, AdmittedTyped DEF EpochsTyped, JournalTyped
  <2>8. PICK s \in Nat, b \in Nat : s = so_far.sum /\ b = so_far.base /\ s * p =< 2 * b * (p - 1)
    <3>1. CASE pair \in DOMAIN testified
      <4>1. so_far = testified[pair] /\ n = PairAttestCount[pair]
        BY <3>1 DEF PairsBounded, At
      <4>2. testified[pair].sum \in Nat /\ testified[pair].base \in Nat
            /\ Halving(testified[pair], Power(2, PairAttestCount[pair]))
        BY <3>1 DEF PairsBounded
      <4> HIDE DEF so_far, n
      <4> QED
        BY <2>6, <4>1, <4>2 DEF Halving
    <3>2. CASE pair \notin DOMAIN testified
      <4>1. so_far.sum = 0 /\ so_far.base = 0
        BY <3>2
      <4>2. 0 * p =< 2 * 0 * (p - 1)
        BY <2>6
      <4> HIDE DEF so_far
      <4> QED
        BY <4>1, <4>2
    <3> QED
      BY <3>1, <3>2
  <2> HIDE DEF w, admitted, so_far, n, pair
  <2>9. PICK c \in Nat : c = Max({b, w}) /\ c >= b /\ c >= w
    <3>1. PICK v \in Int, u \in Int : v = w /\ u = b /\ v \in Nat /\ u \in Nat
      BY <2>4, <2>8
    <3>2. Max({u, v}) = IF u =< v THEN v ELSE u
      BY <3>1, MinMaxOfTwo
    <3> QED
      BY <3>1, <3>2
  <2>10. now.sum = s + admitted /\ now.base = c
    BY <2>8, <2>9
  <2> HIDE DEF now
  <2>11. now.sum \in Nat /\ now.base \in Nat /\ Halving(now, Power(2, n + 1))
    <3>1. (s + admitted) * (p * 2) =< 2 * c * (p * 2 - 1)
      BY <2>4, <2>6, <2>7, <2>8, <2>9, HalvesAgain
    <3> QED
      BY <2>6, <2>7, <2>8, <2>9, <2>10, <3>1 DEF Halving
  <2>12. CASE /\ PairAttestCount' = Put(PairAttestCount, pair, n + 1)
              /\ testified' = Put(testified, pair, now)
    <3>1. DOMAIN testified' = DOMAIN testified \cup {pair}
          /\ DOMAIN PairAttestCount' = DOMAIN PairAttestCount \cup {pair}
      BY <2>12 DEF Put
    <3>2. ASSUME NEW q \in DOMAIN testified'
          PROVE  /\ testified'[q].sum \in Nat /\ testified'[q].base \in Nat
                 /\ Halving(testified'[q], Power(2, PairAttestCount'[q]))
      <4>1. CASE q = pair
        <5>1. testified'[q] = now /\ PairAttestCount'[q] = n + 1
          BY <2>12, <4>1 DEF Put
        <5> QED
          BY <2>11, <5>1
      <4>2. CASE q # pair
        <5>1. q \in DOMAIN testified /\ q \in DOMAIN PairAttestCount
          BY <3>1, <3>2, <4>2 DEF PairsBounded
        <5>2. testified'[q] = testified[q] /\ PairAttestCount'[q] = PairAttestCount[q]
          BY <2>12, <4>2, <5>1 DEF Put
        <5> QED
          BY <5>1, <5>2 DEF PairsBounded
      <4> QED
        BY <4>1, <4>2
    <3> QED
      BY <3>1, <3>2 DEF PairsBounded
  <2> QED
    BY <1>0, <2>3, <2>12
<1>2. ASSUME NEW suit \in CallSuits, NEW a, NEW b, Claim(b, a, suit) PROVE PairsBounded'
  BY <1>0, <1>2 DEF Claim, ClaimAttestedEvidence
<1>3. ASSUME ~\E suit \in CallSuits, a \in Attesters, b \in Beneficiaries :
                 Attest(a, b, suit) \/ Claim(b, a, suit)
      PROVE  UNCHANGED testimony
  <2>1. CASE OpenEpochBlock
    BY <2>1 DEF OpenEpochBlock, OnInitialize, RunEpoch, reputation
  <2>2. ASSUME NEW suit \in CallSuits, NEW v, NEW m, PlaceVouch(v, m, suit) \/ TakeVouchBack(v, m, suit)
        PROVE  UNCHANGED testimony
    BY <2>2 DEF PlaceVouch, TakeVouchBack, Vouch, RevokeVouch
  <2>3. ASSUME NEW suit \in CallSuits, NEW m, Submit(m, suit) \/ Report(m, suit)
        PROVE  UNCHANGED testimony
    BY <2>3 DEF Submit, Report, SubmitEvidence, ReportFraud
  <2>4. CASE SetWindows
    BY <2>4 DEF SetWindows, SetBootstrapWindow, SetProbationWindow
  <2>5. CASE UNCHANGED varsEpochs
    BY <2>5 DEF varsEpochs, reputation
  <2> QED
    BY <1>3, <2>1, <2>2, <2>3, <2>4, <2>5 DEF NextEpochs
<1> QED
  BY <1>0, <1>1, <1>2, <1>3 DEF testimony

(* However often one mask testifies for another, and whatever amounts it     *)
(* names, it makes no more than twice what one testimony could carry.        *)
THEOREM PairsNeverFabricateMore == SpecEpochs => []PairFabricationBounded
<1>1. InitEpochs => PairsBounded
  <2> SUFFICES ASSUME InitEpochs PROVE PairsBounded
    OBVIOUS
  <2>1. PairAttestCount = <<>> /\ testified = <<>>
    BY DEF InitEpochs, InitReputation
  <2>2. DOMAIN testified = {} /\ DOMAIN PairAttestCount = {}
    BY <2>1
  <2> QED
    BY <2>2 DEF PairsBounded
<1>2. EpochsTyped /\ PairsBounded => PairFabricationBounded
  BY PairsShow DEF EpochsTyped
<1>3. EpochsTyped /\ [NextEpochs]_varsEpochs => EpochsTyped'
  BY EpochsStep
<1> QED
  BY <1>1, <1>2, <1>3, EpochsInit, PairsStep, PTL DEF SpecEpochs

LEMMA SumSplit ==
  ASSUME NEW D, IsFiniteSet(D), NEW E, IsFiniteSet(E), D \cap E = {},
         NEW v, \A x \in D \cup E : v[x] \in Int
  PROVE  Sum(v, D \cup E) = Sum(v, D) + Sum(v, E)
<1> DEFINE G == {S \in SUBSET E : Sum(v, D \cup S) = Sum(v, D) + Sum(v, S)}
<1>1. {} \in G
  <2>1. Sum(v, D) \in Int /\ Sum(v, {}) = 0 /\ D \cup {} = D
    BY SumType, SumEmpty
  <2> QED
    BY <2>1
<1>2. ASSUME NEW S \in SUBSET E, NEW x \in E, S \in G, x \notin S PROVE S \cup {x} \in G
  <2>1. IsFiniteSet(S) /\ IsFiniteSet(D \cup S)
    BY FS_Subset, FS_Union
  <2>2. Sum(v, S \cup {x}) = v[x] + Sum(v, S)
    BY <1>2, <2>1, SumPutIn
  <2>3. x \notin D \cup S /\ (D \cup S) \cup {x} = D \cup (S \cup {x})
    BY <1>2
  <2>4. Sum(v, (D \cup S) \cup {x}) = v[x] + Sum(v, D \cup S)
    <3>1. \A y \in (D \cup S) \cup {x} : v[y] \in Int
      OBVIOUS
    <3> QED
      BY <2>1, <2>3, <3>1, SumPutIn
  <2>5. Sum(v, D) \in Int /\ Sum(v, S) \in Int /\ v[x] \in Int
    BY <2>1, SumType
  <2>6. Sum(v, D \cup S) = Sum(v, D) + Sum(v, S)
    BY <1>2
  <2>7. Sum(v, D \cup (S \cup {x})) = Sum(v, D) + Sum(v, S \cup {x})
    <3>1. PICK a \in Int, b \in Int, c \in Int, both \in Int :
            a = v[x] /\ b = Sum(v, D) /\ c = Sum(v, S) /\ both = Sum(v, D \cup S)
      BY <2>5, <2>6
    <3>2. Sum(v, D \cup (S \cup {x})) = a + both /\ Sum(v, S \cup {x}) = a + c /\ both = b + c
      BY <2>2, <2>3, <2>4, <2>6, <3>1
    <3> QED
      BY <3>1, <3>2
  <2> QED
    BY <2>7
<1> HIDE DEF G
<1>3. E \in G
  BY <1>1, <1>2, ElementInduction
<1> QED
  BY <1>3 DEF G

-----------------------------------------------------------------------------
(* What the evidence of a mask is against its journal, with every number     *)
(* multiplied by RetentionDen as often as epochs have passed, so that        *)
(* nothing is rounded but the evidence itself.                               *)
LEMMA PowerSum ==
  ASSUME NEW base \in Nat, NEW i \in Nat, NEW j \in Nat
  PROVE  Power(base, i) * Power(base, j) = Power(base, i + j)
<1> DEFINE Bad == {n \in Nat : Power(base, i) * Power(base, n) # Power(base, i + n)}
<1>p. \A n \in Nat : /\ Power(base, 0) = 1 /\ Power(base, n) \in Nat
                     /\ Power(base, n + 1) = Power(base, n) * base
  BY PowerNext
<1>1. ASSUME Bad # {} PROVE FALSE
  <2>1. PICK n \in Bad : \A m \in Bad : n =< m
    BY <1>1, LeastCounterexample
  <2>2. n \in Nat /\ Power(base, i) * Power(base, n) # Power(base, i + n)
    OBVIOUS
  <2>3. n # 0
    BY <1>p, <2>2
  <2>4. PICK m \in Nat : n = m + 1
    <3>1. n - 1 \in Nat /\ n = (n - 1) + 1
      BY <2>2, <2>3
    <3> QED
      BY <3>1
  <2>5. m \notin Bad
    BY <2>1, <2>4
  <2>6. Power(base, i) * Power(base, m) = Power(base, i + m)
    BY <2>4, <2>5
  <2>7. PICK a \in Nat, b \in Nat : a = Power(base, i) /\ b = Power(base, m)
    BY <1>p, <2>4
  <2>8. Power(base, n) = b * base /\ Power(base, i + n) = Power(base, i + m) * base
    <3>1. i + m \in Nat /\ i + n = (i + m) + 1
      BY <2>4
    <3> QED
      BY <1>p, <2>4, <2>7, <3>1
  <2>9. a * (b * base) = (a * b) * base
    BY <2>7
  <2> QED
    BY <2>2, <2>6, <2>7, <2>8, <2>9
<1> QED
  BY <1>1

Old(epochs) == Power(RetentionNum, epochs)
Whole(epochs) == Power(RetentionDen, epochs)
Scaled(amount, k, now) == amount * Old(k) * Whole(now - k)

LEMMA OldAndWhole ==
  ASSUME NEW k \in Nat
  PROVE  /\ Old(k) \in Nat /\ Whole(k) \in Nat \ {0} /\ Old(0) = 1 /\ Whole(0) = 1
         /\ Old(k + 1) = Old(k) * RetentionNum /\ Whole(k + 1) = Whole(k) * RetentionDen
         /\ \A j \in Nat : Whole(k) * Whole(j) = Whole(k + j)
         /\ RetentionNum \in Nat /\ RetentionDen \in Nat \ {0} /\ RetentionNum =< RetentionDen
<1>1. RetentionNum \in Nat /\ RetentionDen \in Nat \ {0} /\ RetentionDen \in Nat /\ RetentionNum =< RetentionDen
  BY ReputationAssumption DEF ReputationConfig
<1>2. Whole(k) \in Nat \ {0}
  <2>1. PICK P : P = Nat \ {0}
    OBVIOUS
  <2>2. Power(RetentionDen, k) \in P
    BY <1>1, <2>1, PowerStays
  <2> QED
    BY <2>1, <2>2 DEF Whole
<1>3. Old(k) \in Nat /\ Old(0) = 1 /\ Old(k + 1) = Old(k) * RetentionNum
  BY <1>1, PowerNext DEF Old
<1>4. Whole(0) = 1 /\ Whole(k + 1) = Whole(k) * RetentionDen
  BY <1>1, PowerNext DEF Whole
<1>5. \A j \in Nat : Whole(k) * Whole(j) = Whole(k + j)
  BY <1>1, PowerSum DEF Whole
<1> QED
  BY <1>1, <1>2, <1>3, <1>4, <1>5

LEMMA SaturatingIs ==
  ASSUME NEW a \in Int, NEW b \in Int
  PROVE  Saturating(a, b) = IF a - b =< 0 THEN 0 ELSE a - b
<1>1. PICK d \in Int, zero \in Int : d = a - b /\ zero = 0
  OBVIOUS
<1>2. Max({d, zero}) = IF d =< zero THEN zero ELSE d
  BY MinMaxOfTwo
<1> QED
  BY <1>1, <1>2 DEF Saturating

LEMMA ScaledTyped ==
  ASSUME NEW amount \in Nat, NEW now \in Nat, NEW k \in 0..now
  PROVE  Scaled(amount, k, now) \in Nat
<1>1. k \in Nat /\ now - k \in Nat
  OBVIOUS
<1>2. PICK a \in Nat, b \in Nat : a = Old(k) /\ b = Whole(now - k)
  BY <1>1, OldAndWhole
<1>3. amount * a * b \in Nat
  BY <1>2
<1> QED
  BY <1>2, <1>3 DEF Scaled

LEMMA ScaledNew ==
  ASSUME NEW amount \in Nat, NEW now \in Nat
  PROVE  Scaled(amount, 0, now) = amount * Whole(now)
<1>1. Old(0) = 1 /\ now - 0 = now /\ Whole(now) \in Nat
  BY OldAndWhole
<1> QED
  BY <1>1 DEF Scaled

LEMMA ScaledAges ==
  ASSUME NEW amount \in Nat, NEW now \in Nat, NEW epoch \in 0..now
  PROVE  Scaled(amount, Saturating(now + 1 - epoch, 1), now + 1)
           >= RetentionNum * Scaled(amount, Saturating(now - epoch, 1), now)
<1>p. RetentionNum \in Nat /\ RetentionDen \in Nat /\ RetentionNum =< RetentionDen
  BY OldAndWhole
<1>1. CASE epoch = now
  <2>1. Saturating(now + 1 - epoch, 1) = 0 /\ Saturating(now - epoch, 1) = 0
    BY <1>1, SaturatingIs
  <2>2. PICK w \in Nat : w = Whole(now) /\ Whole(now + 1) = w * RetentionDen
    BY OldAndWhole
  <2>3. Scaled(amount, 0, now + 1) = amount * (w * RetentionDen) /\ Scaled(amount, 0, now) = amount * w
    BY <2>2, ScaledNew
  <2>4. PICK aw \in Nat : aw = amount * w
    BY <2>2
  <2>5. amount * (w * RetentionDen) = aw * RetentionDen
    BY <1>p, <2>2, <2>4
  <2>6. aw * RetentionDen >= aw * RetentionNum
    BY <1>p, <2>4
  <2>7. aw * RetentionNum = RetentionNum * aw
    BY <1>p, <2>4
  <2> QED
    BY <1>p, <2>1, <2>3, <2>4, <2>5, <2>6, <2>7
<1>2. CASE epoch # now
  <2>1. PICK k \in Nat : now - epoch - 1 = k /\ now - k \in Nat
    BY <1>2
  <2>2. Saturating(now + 1 - epoch, 1) = k + 1 /\ Saturating(now - epoch, 1) = k
    BY <1>2, <2>1, SaturatingIs
  <2>3. (now + 1) - (k + 1) = now - k
    BY <2>1
  <2>4. PICK o \in Nat, w \in Nat : o = Old(k) /\ w = Whole(now - k) /\ Old(k + 1) = o * RetentionNum
    BY <2>1, OldAndWhole
  <2>5. Scaled(amount, k + 1, now + 1) = amount * (o * RetentionNum) * w /\ Scaled(amount, k, now) = amount * o * w
    BY <2>3, <2>4 DEF Scaled
  <2>6. amount * (o * RetentionNum) * w = RetentionNum * (amount * o * w)
    BY <1>p, <2>4
  <2>7. RetentionNum * (amount * o * w) \in Int
    BY <1>p, <2>4
  <2> QED
    BY <2>2, <2>5, <2>6, <2>7
<1> QED
  BY <1>1, <1>2

LEMMA ScaledWorth ==
  ASSUME NEW amount \in Nat, NEW now \in Nat, NEW k \in 0..now
  PROVE  /\ Retained(amount, k) \in Nat
         /\ Scaled(amount, k, now) =< (Retained(amount, k) + 1) * Whole(now)
<1>1. k \in Nat /\ now - k \in Nat /\ k + (now - k) = now
  OBVIOUS
<1>2. PICK o \in Nat, d \in Nat \ {0}, w \in Nat :
        /\ o = Old(k) /\ d = Whole(k) /\ w = Whole(now - k) /\ d * w = Whole(now)
  <2>1. PICK j \in Nat : j = now - k /\ k + j = now
    BY <1>1
  <2>2. Whole(k) * Whole(j) = Whole(now)
    BY <1>1, <2>1, OldAndWhole
  <2>3. Old(k) \in Nat /\ Whole(k) \in Nat \ {0} /\ Whole(j) \in Nat
    BY <1>1, <2>1, OldAndWhole
  <2> QED
    BY <2>1, <2>2, <2>3
<1>3. PICK ao \in Nat : ao = amount * o
  BY <1>2
<1>4. PICK q \in Nat : q = ao \div d /\ ao =< (q + 1) * d
  <2>1. ao \div d \in Nat /\ ao =< (ao \div d + 1) * d
    BY <1>2, <1>3
  <2> QED
    BY <2>1
<1>5. Retained(amount, k) = q /\ Scaled(amount, k, now) = ao * w
  BY <1>2, <1>3, <1>4 DEF Retained, Scaled, Old, Whole
<1>6. ao * w =< ((q + 1) * d) * w
  <2>1. PICK b \in Nat : b = (q + 1) * d
    BY <1>2, <1>4
  <2>2. PICK c \in Nat : b = ao + c
    <3>1. b - ao \in Nat
      BY <1>3, <1>4, <2>1
    <3> QED
      BY <1>3, <2>1, <3>1
  <2>3. b * w = ao * w + c * w /\ c * w >= 0 /\ ao * w \in Int
    BY <1>2, <1>3, <2>2
  <2> QED
    BY <2>1, <2>3
<1>7. ((q + 1) * d) * w = (q + 1) * (d * w)
  BY <1>2, <1>4
<1> QED
  BY <1>2, <1>4, <1>5, <1>6, <1>7

(* What admissions of a mask in a suit add to its evidence.                  *)
Got(admissions, m, s) ==
  [i \in 1..Len(admissions) |->
     IF admissions[i][1] = m /\ admissions[i][2] = s THEN admissions[i][3] ELSE 0]

LEMMA EnteredAdds ==
  ASSUME NEW evidence \in Books, NEW a \in Admissions, NEW m \in Masks, NEW s \in Suits
  PROVE  [evidence EXCEPT ![a[1]][a[2]] = @ + a[3]][m][s]
           = evidence[m][s] + (IF a[1] = m /\ a[2] = s THEN a[3] ELSE 0)
<1>1. a[1] \in Masks /\ a[2] \in Suits /\ a[3] \in Nat
  BY DEF Admissions
<1>2. evidence[m][s] \in Nat /\ evidence \in [Masks -> [Suits -> Nat]]
  BY DEF Books
<1>3. CASE a[1] = m /\ a[2] = s
  BY <1>1, <1>2, <1>3
<1>4. CASE ~(a[1] = m /\ a[2] = s)
  BY <1>1, <1>2, <1>4
<1> QED
  BY <1>3, <1>4

LEMMA CreditedSum ==
  ASSUME NEW evidence \in Books, NEW admissions \in Seq(Admissions), NEW m \in Masks, NEW s \in Suits
  PROVE  Credited(evidence, admissions)[m][s]
           = evidence[m][s] + Sum(Got(admissions, m, s), 1..Len(admissions))
<1> DEFINE T == admissions
           V == Books
           v == Got(admissions, m, s)
           Step(e, x) == [e EXCEPT ![x[1]][x[2]] = @ + x[3]]
           iter == CHOOSE g : g = [S \in SUBSET DOMAIN T |->
                     IF S = {} THEN evidence ELSE Step(g[S \ {Max(S)}], T[Max(S)])]
<1>1. PICK k \in Nat : DOMAIN T = 1..k /\ k = Len(admissions)
  OBVIOUS
<1>2. Credited(evidence, admissions) = iter[DOMAIN T]
  BY DEF Credited, FoldLeft, MapThenFoldSet
<1>t. \A i \in 1..k : T[i] \in Admissions
  BY <1>1
<1>v. \A i \in 1..k : v[i] = (IF T[i][1] = m /\ T[i][2] = s THEN T[i][3] ELSE 0) /\ v[i] \in Int
  BY <1>1, <1>t DEF Got, Admissions
<1> HIDE DEF T, v
<1>3. \A i \in 1..k, e \in V : Step(e, T[i]) \in V /\ Step(e, T[i])[m][s] = e[m][s] + v[i]
  <2>1. ASSUME NEW i \in 1..k, NEW e \in V
        PROVE  Step(e, T[i]) \in V /\ Step(e, T[i])[m][s] = e[m][s] + v[i]
    <3>1. PICK a \in Admissions : a = T[i] /\ v[i] = (IF a[1] = m /\ a[2] = s THEN a[3] ELSE 0)
      BY <1>t, <1>v
    <3>2. /\ Step(e, a) \in V
          /\ Step(e, a)[m][s] = e[m][s] + (IF a[1] = m /\ a[2] = s THEN a[3] ELSE 0)
      BY Entered, EnteredAdds
    <3> HIDE DEF Step
    <3> QED
      BY <3>1, <3>2
  <2> QED
    BY <2>1
<1>m. \A S \in SUBSET (1..k) : S # {} => Max(S) \in S /\ Max(S) \in 1..k
  BY LastIndex
<1>b. evidence \in V
  OBVIOUS
<1> HIDE DEF V, Step
<1> DEFINE step == [p \in (1..k) \X V |-> Step(p[2], T[p[1]])]
<1>4. step \in [(1..k) \X V -> V] /\ \A i \in 1..k, e \in V : step[<<i, e>>] = Step(e, T[i])
  BY <1>3
<1> HIDE DEF step
<1>5. PICK g : SequenceFoldsInto(g, step, evidence, k, V)
  BY <1>b, <1>4, SequenceFoldSolvable
<1>6. g = [S \in SUBSET (1..k) |-> IF S = {} THEN evidence ELSE Step(g[S \ {Max(S)}], T[Max(S)])]
  <2>1. \A S \in SUBSET (1..k) : S # {} =>
          step[<<Max(S), g[S \ {Max(S)}]>>] = Step(g[S \ {Max(S)}], T[Max(S)])
    BY <1>m, <1>4, <1>5 DEF SequenceFoldsInto
  <2> QED
    BY <1>5, <2>1 DEF SequenceFoldsInto
<1>7. iter = [S \in SUBSET (1..k) |-> IF S = {} THEN evidence ELSE Step(iter[S \ {Max(S)}], T[Max(S)])]
  BY <1>1, <1>6
<1> HIDE DEF iter
<1> DEFINE G == {S \in SUBSET (1..k) : iter[S] \in V /\ iter[S][m][s] = evidence[m][s] + Sum(v, S)}
<1>e. evidence[m][s] \in Nat
  BY DEF Books
<1>f. IsFiniteSet(1..k) /\ \A S \in SUBSET (1..k) : IsFiniteSet(S)
  <2>1. k \in Nat
    BY <1>1
  <2>2. IsFiniteSet(1..k)
    BY <2>1, FS_Interval
  <2> QED
    BY <2>2, FS_Subset
<1>8. ASSUME NEW S \in SUBSET (1..k), \A R \in SUBSET S : R # S => R \in G PROVE S \in G
  <2>1. CASE S = {}
    <3>1. iter[S] = evidence /\ Sum(v, S) = 0
      BY <1>7, <2>1, SumEmpty
    <3> QED
      BY <1>b, <1>e, <3>1
  <2>2. CASE S # {}
    <3>1. PICK x \in S : x = Max(S) /\ x \in 1..k
      BY <1>m, <2>2
    <3>2. S \ {x} \in G
      BY <1>8, <3>1
    <3>3. iter[S] = Step(iter[S \ {x}], T[x])
      BY <1>7, <2>2, <3>1
    <3>4. iter[S] \in V /\ iter[S][m][s] = iter[S \ {x}][m][s] + v[x]
      BY <1>3, <3>1, <3>2, <3>3
    <3>5. Sum(v, S) = v[x] + Sum(v, S \ {x})
      BY <1>f, <1>v, SumTakeOut
    <3>6. PICK a \in Int, b \in Int, e \in Nat :
            a = v[x] /\ b = Sum(v, S \ {x}) /\ e = evidence[m][s]
      BY <1>e, <1>f, <1>v, SumType
    <3>7. iter[S][m][s] = (e + b) + a
      BY <3>2, <3>4, <3>6
    <3>a. Sum(v, S) = a + b
      BY <3>5, <3>6
    <3>8. iter[S][m][s] = evidence[m][s] + Sum(v, S)
      BY <3>6, <3>7, <3>a
    <3> QED
      BY <3>4, <3>8
  <2> QED
    BY <2>1, <2>2
<1> HIDE DEF G
<1>9. \A S \in SUBSET (1..k) : S \in G
  BY <1>8, <1>f, SubsetInduction
<1>10. iter[1..k][m][s] = evidence[m][s] + Sum(v, 1..k)
  BY <1>9 DEF G
<1> QED
  BY <1>1, <1>2, <1>10 DEF v

(* A cascade raises nobody.                                                  *)
Lowered(ev) == {st \in CascadeStates : \A m \in Masks : st.ev[m] =< ev[m]}

LEMMA HitLowers ==
  ASSUME NEW suit, NEW isCulprit \in BOOLEAN, NEW last \in BOOLEAN, NEW ev \in [Masks -> Nat],
         NEW st \in Lowered(ev), NEW entry \in Liables
  PROVE  CascadeHit(suit, isCulprit, last, st, entry) \in Lowered(ev)
<1> DEFINE after == CascadeHit(suit, isCulprit, last, st, entry)
           who == entry[1]
           held == st.ev[who]
           hit == IF isCulprit THEN entry[2] ELSE Min({entry[2], held \div 2})
           left == Saturating(held, hit)
<1>1. st \in CascadeStates /\ \A m \in Masks : st.ev[m] =< ev[m]
  BY DEF Lowered
<1>2. who \in Masks /\ entry[2] \in Nat
  BY DEF Liables
<1>3. HitFrom(st, entry, after)
  BY <1>1, HitTyped
<1>4. Liable(st, entry) => after.ev = [st.ev EXCEPT ![who] = left]
  BY DEF CascadeHit
<1>5. held \in Nat /\ st.ev \in [Masks -> Nat]
  BY <1>1, <1>2 DEF CascadeStates
<1> HIDE DEF after, who, held
<1>6. hit \in Nat
  <2>1. PICK half \in Nat : half = held \div 2
    BY <1>5
  <2>2. Min({entry[2], half}) = IF entry[2] =< half THEN entry[2] ELSE half
    BY <1>2, <2>1, MinMaxOfTwo
  <2> QED
    BY <1>2, <2>1, <2>2
<1> HIDE DEF hit
<1>7. left =< held
  <2>1. left = IF held - hit =< 0 THEN 0 ELSE held - hit
    BY <1>5, <1>6, SaturatingIs
  <2> HIDE DEF left
  <2> QED
    BY <1>5, <1>6, <2>1
<1>8. CASE ~Liable(st, entry)
  BY <1>3, <1>8 DEF HitFrom, after
<1>9. CASE Liable(st, entry)
  <2>1. after \in CascadeStates
    BY <1>3 DEF HitFrom
  <2>2. ASSUME NEW m \in Masks PROVE after.ev[m] =< ev[m]
    <3>1. CASE m = who
      <4>1. after.ev[m] = left /\ after.ev[m] \in Nat
        BY <1>4, <1>5, <1>9, <2>1, <3>1 DEF CascadeStates
      <4>2. held =< ev[m] /\ ev[m] \in Nat
        BY <1>1, <3>1 DEF held
      <4> HIDE DEF left
      <4> QED
        BY <1>5, <1>7, <4>1, <4>2
    <3>2. CASE m # who
      BY <1>1, <1>4, <1>5, <1>9, <3>2
    <3> QED
      BY <3>1, <3>2
  <2> QED
    BY <2>1, <2>2 DEF Lowered, after
<1> QED
  BY <1>8, <1>9

LEMMA LevelLowers ==
  ASSUME NEW suit, NEW isCulprit \in BOOLEAN, NEW last \in BOOLEAN,
         NEW ev \in [Masks -> Nat], NEW st \in Lowered(ev)
  PROVE  CascadeLevel(suit, isCulprit, last, st) \in Lowered(ev)
<1>1. st \in CascadeStates
  BY DEF Lowered
<1>2. [ev |-> st.ev, visited |-> st.visited, next |-> <<>>] \in Lowered(ev)
  <2>1. <<>> \in Seq(Liables)
    OBVIOUS
  <2>2. PICK base : base = [ev |-> st.ev, visited |-> st.visited, next |-> <<>>]
    OBVIOUS
  <2>3. base \in CascadeStates /\ base.ev = st.ev
    BY <1>1, <2>1, <2>2 DEF CascadeStates
  <2> QED
    BY <2>2, <2>3 DEF Lowered
<1>3. \A i \in DOMAIN st.next : st.next[i] \in Liables
  BY <1>1 DEF CascadeStates
<1>4. \A s \in Lowered(ev), i \in DOMAIN st.next :
        CascadeHit(suit, isCulprit, last, s, st.next[i]) \in Lowered(ev)
  BY <1>3, HitLowers
<1> QED
  BY <1>1, <1>2, <1>4, LevelStays

LEMMA SlashLowers ==
  ASSUME Evidence \in Books, NEW c \in Masks, NEW suit \in Suits, NEW loss \in Nat, NEW depth \in Nat,
         Slash(c, suit, loss, depth)
  PROVE  \A m \in Masks, s \in Suits : Evidence'[m][s] =< Evidence[m][s]
<1> DEFINE ev == [k \in Masks |-> Evidence[k][suit]]
           V == Lowered(ev)
           end == CascadeFrom(ev, c, suit, loss, depth)
<1>1. ev \in [Masks -> Nat] /\ \A m \in Masks : ev[m] = Evidence[m][suit]
  BY DEF Books
<1>2. (CHOOSE g \in {ev} : g = g) = ev
  OBVIOUS
<1>3. Tabulated(LAMBDA k : Evidence[k][suit], Masks) = CHOOSE g \in {ev} : g = g
  BY DEF Tabulated
<1> HIDE DEF ev
<1>4. CascadeSlash(c, suit, loss, depth) = end.ev
  BY <1>2, <1>3 DEF CascadeSlash, CascadeFrom, Start
<1>5. Start(ev, c, loss) \in V
  <2>1. <<c, loss>> \in Liables
    BY DEF Liables
  <2>2. <<<<c, loss>>>> \in Seq(Liables) /\ {} \in SUBSET Masks
    BY <2>1
  <2>3. PICK start : start = Start(ev, c, loss)
    OBVIOUS
  <2>4. start \in CascadeStates /\ start.ev = ev
    BY <1>1, <2>2, <2>3 DEF Start, CascadeStates
  <2>5. \A m \in Masks : ev[m] =< ev[m]
    BY <1>1
  <2> QED
    BY <2>3, <2>4, <2>5 DEF Lowered
<1>6. \A first, last \in BOOLEAN, s \in V :
        (first => s = Start(ev, c, loss)) => CascadeLevel(suit, first, last, s) \in V
  BY <1>1, LevelLowers
<1>7. V \in SUBSET CascadeStates
  BY DEF Lowered
<1> HIDE DEF V, end
<1>8. CascadeFrom(ev, c, suit, loss, depth) \in V
  BY <1>1, <1>5, <1>6, <1>7, CascadeStays
<1>9. \A m \in Masks : end.ev[m] =< ev[m]
  BY <1>8 DEF V, Lowered, end
<1>10. PICK after : /\ after = CascadeSlash(c, suit, loss, depth)
                    /\ Evidence' = [m \in Masks |-> [Evidence[m] EXCEPT ![suit] = after[m]]]
  BY DEF Slash
<1>11. ASSUME NEW m \in Masks, NEW s \in Suits PROVE Evidence'[m][s] =< Evidence[m][s]
  <2>1. Evidence[m][s] \in Nat
    BY DEF Books
  <2>2. Evidence'[m][s] = IF s = suit THEN after[m] ELSE Evidence[m][s]
    BY <1>10 DEF Books
  <2> QED
    BY <1>1, <1>4, <1>9, <1>10, <2>1, <2>2
<1> QED
  BY <1>11

LEMMA SumOnes ==
  ASSUME NEW D, IsFiniteSet(D), NEW v, \A x \in D : v[x] = 1
  PROVE  Sum(v, D) = Cardinality(D)
<1> DEFINE G == {S \in SUBSET D : Sum(v, S) = Cardinality(S)}
<1>1. {} \in G
  BY SumEmpty, FS_EmptySet
<1>2. ASSUME NEW S \in SUBSET D, NEW x \in D, S \in G, x \notin S PROVE S \cup {x} \in G
  <2>1. IsFiniteSet(S) /\ Cardinality(S) \in Nat
    BY FS_Subset, FS_CardinalityType
  <2>2. Sum(v, S \cup {x}) = v[x] + Sum(v, S)
    <3>1. \A y \in S \cup {x} : v[y] \in Int
      OBVIOUS
    <3> QED
      BY <1>2, <2>1, <3>1, SumPutIn
  <2>3. Cardinality(S \cup {x}) = Cardinality(S) + 1
    BY <1>2, <2>1, FS_AddElement
  <2>4. Sum(v, S \cup {x}) = Cardinality(S \cup {x})
    BY <1>2, <2>1, <2>2, <2>3
  <2> QED
    BY <2>4
<1> HIDE DEF G
<1>3. D \in G
  BY <1>1, <1>2, ElementInduction
<1> QED
  BY <1>3 DEF G

LEMMA AgeFits ==
  ASSUME NEW now \in Nat, NEW epoch \in 0..now
  PROVE  Saturating(now - epoch, 1) \in 0..now
<1>1. Saturating(now - epoch, 1) = IF now - epoch - 1 =< 0 THEN 0 ELSE now - epoch - 1
  BY SaturatingIs
<1> QED
  BY <1>1

(* What an id of the journal stands for in the evidence of m in suit s: its  *)
(* record, or less than one unit of one that was swept.                      *)
RecordsTyped(records, now) ==
  \A id \in DOMAIN records : records[id].amount \in Nat /\ records[id].epoch \in 0..now
Term(records, now, m, s, id) ==
  IF id \notin DOMAIN records THEN Whole(now)
  ELSE IF records[id].who = m /\ records[id].suit = s
  THEN Scaled(records[id].amount, Saturating(now - records[id].epoch, 1), now) ELSE 0
Terms(records, next, now, m, s) == [id \in 0..(next - 1) |-> Term(records, now, m, s, id)]
Disputable ==
  \A m \in Masks, s \in Suits :
    Evidence[m][s] * Whole(Epoch)
      =< Sum(Terms(EvidenceRecords, NextEvidenceRecordId, Epoch, m, s), 0..(NextEvidenceRecordId - 1))

LEMMA TermTyped ==
  ASSUME NEW now \in Nat, NEW records, RecordsTyped(records, now), NEW m, NEW s, NEW id
  PROVE  Term(records, now, m, s, id) \in Nat
<1>1. Whole(now) \in Nat
  BY OldAndWhole
<1>2. ASSUME id \in DOMAIN records
      PROVE  Scaled(records[id].amount, Saturating(now - records[id].epoch, 1), now) \in Nat
  <2>1. records[id].amount \in Nat /\ records[id].epoch \in 0..now
    BY <1>2 DEF RecordsTyped
  <2>2. PICK a \in Nat, k \in 0..now :
          a = records[id].amount /\ k = Saturating(now - records[id].epoch, 1)
    BY <2>1, AgeFits
  <2> QED
    BY <2>2, ScaledTyped
<1> QED
  BY <1>1, <1>2 DEF Term

LEMMA LastWorthIs ==
  ASSUME JournalTyped, NEW id \in DOMAIN EvidenceRecords
  PROVE  LET r == EvidenceRecords[id]
         IN  /\ LastWorth(id) \in Nat
             /\ Scaled(r.amount, Saturating(Epoch - r.epoch, 1), Epoch) =< (LastWorth(id) + 1) * Whole(Epoch)
<1> DEFINE r == EvidenceRecords[id]
<1>1. r.amount \in Nat /\ r.epoch \in 0..Epoch /\ Epoch \in Nat
  BY DEF JournalTyped
<1>2. PICK a \in Nat, now \in Nat, k \in Nat :
        /\ a = r.amount /\ now = Epoch /\ k = Saturating(Epoch - r.epoch, 1)
        /\ k \in 0..now
  <2>1. Saturating(Epoch - r.epoch, 1) \in 0..Epoch
    BY <1>1, AgeFits
  <2> QED
    BY <1>1, <2>1
<1>3. LastWorth(id) = Retained(a, k)
  BY <1>2 DEF LastWorth
<1>4. Retained(a, k) \in Nat /\ Scaled(a, k, now) =< (Retained(a, k) + 1) * Whole(now)
  BY <1>2, ScaledWorth
<1> QED
  BY <1>2, <1>3, <1>4

LEMMA LastWorthSum ==
  ASSUME JournalTyped, NEW D \in SUBSET DOMAIN EvidenceRecords
  PROVE  MapThenSumSet(LastWorth, D) = Sum([id \in D |-> LastWorth(id)], D) /\ IsFiniteSet(D)
<1> DEFINE v == [e \in D |-> LastWorth(e)]
           c == [S \in SUBSET D |-> CHOOSE x \in S : TRUE]
           iter == CHOOSE g : g = [S \in SUBSET D |->
                     IF S = {} THEN 0
                     ELSE LastWorth(CHOOSE x \in S : TRUE) + g[S \ {CHOOSE x \in S : TRUE}]]
<1>f. IsFiniteSet(D)
  <2>1. D \subseteq 0..(NextEvidenceRecordId - 1) /\ NextEvidenceRecordId \in Nat
    BY DEF JournalTyped
  <2>2. PICK a \in Int, b \in Int : a = 0 /\ b = NextEvidenceRecordId - 1
    BY <2>1
  <2>3. IsFiniteSet(a..b)
    BY FS_Interval
  <2> QED
    BY <2>1, <2>2, <2>3, FS_Subset
<1>1. MapThenSumSet(LastWorth, D) = iter[D]
  BY DEF MapThenSumSet, MapThenFoldSet
<1>2. \A x \in D : v[x] \in Int /\ LastWorth(x) = v[x]
  BY LastWorthIs
<1> HIDE DEF v
<1>3. \A S \in SUBSET D : S # {} => c[S] \in S
  OBVIOUS
<1>i. \A x \in D : v[x] \in Int
  BY <1>2
<1>4. PICK g : Recursion(g, v, c, D)
  BY <1>f, <1>i, <1>3, RecursionSolvable
<1>5. \A S \in SUBSET D : S # {} =>
        /\ (CHOOSE x \in S : TRUE) = c[S]
        /\ LastWorth(CHOOSE x \in S : TRUE) = v[c[S]]
  BY <1>2, <1>3
<1> HIDE DEF c
<1>6. g = [S \in SUBSET D |->
             IF S = {} THEN 0
             ELSE LastWorth(CHOOSE x \in S : TRUE) + g[S \ {CHOOSE x \in S : TRUE}]]
  BY <1>4, <1>5 DEF Recursion
<1>7. iter = [S \in SUBSET D |->
             IF S = {} THEN 0
             ELSE LastWorth(CHOOSE x \in S : TRUE) + iter[S \ {CHOOSE x \in S : TRUE}]]
  BY <1>6
<1> HIDE DEF iter
<1>8. Recursion(iter, v, c, D)
  <2>1. \A S \in SUBSET D : S # {} =>
          LastWorth(CHOOSE x \in S : TRUE) + iter[S \ {CHOOSE x \in S : TRUE}]
            = v[c[S]] + iter[S \ {c[S]}]
    BY <1>5
  <2>2. iter = [S \in SUBSET D |-> IF S = {} THEN 0 ELSE v[c[S]] + iter[S \ {c[S]}]]
    BY <1>7, <2>1
  <2> QED
    BY <2>2 DEF Recursion
<1>9. iter[D] = Sum(v, D)
  BY <1>f, <1>i, <1>3, <1>8, RecursionIsSum, SumGiven
<1> QED
  BY <1>1, <1>9, <1>f DEF v

LEMMA DisputableShows == JournalTyped /\ Disputable => EvidenceIsDisputable
<1> SUFFICES ASSUME JournalTyped, Disputable, NEW m \in Masks, NEW s \in Suits
             PROVE  LET live == {id \in DOMAIN EvidenceRecords :
                                   EvidenceRecords[id].who = m /\ EvidenceRecords[id].suit = s}
                        gone == NextEvidenceRecordId - Cardinality(DOMAIN EvidenceRecords)
                    IN  Evidence[m][s] <= MapThenSumSet(LastWorth, live) + Cardinality(live) + gone
  BY DEF EvidenceIsDisputable
<1> DEFINE dom == DOMAIN EvidenceRecords
           live == {id \in dom : EvidenceRecords[id].who = m /\ EvidenceRecords[id].suit = s}
           gone == NextEvidenceRecordId - Cardinality(dom)
           ids == 0..(NextEvidenceRecordId - 1)
           term == Terms(EvidenceRecords, NextEvidenceRecordId, Epoch, m, s)
           cover == [id \in ids |-> IF id \notin dom THEN 1
                                    ELSE IF id \in live THEN LastWorth(id) + 1 ELSE 0]
           worth == [id \in ids |-> IF id \in live THEN LastWorth(id) ELSE 0]
           alive == [id \in ids |-> IF id \in live THEN 1 ELSE 0]
           dead == [id \in ids |-> IF id \in dom THEN 0 ELSE 1]
           both == [id \in ids |-> worth[id] + alive[id]]
           lw == [id \in live |-> LastWorth(id)]
<1>1. /\ Epoch \in Nat /\ NextEvidenceRecordId \in Nat /\ Evidence[m][s] \in Nat
      /\ dom \subseteq ids /\ RecordsTyped(EvidenceRecords, Epoch)
  BY DEF JournalTyped, Books, RecordsTyped
<1>2. IsFiniteSet(ids) /\ Cardinality(ids) = NextEvidenceRecordId
  <2>1. PICK a \in Int, b \in Int : a = 0 /\ b = NextEvidenceRecordId - 1
    BY <1>1
  <2>2. IsFiniteSet(a..b) /\ Cardinality(a..b) = IF a > b THEN 0 ELSE b - a + 1
    BY FS_Interval
  <2> QED
    BY <1>1, <2>1, <2>2
<1>3. PICK w \in Nat \ {0} : w = Whole(Epoch)
  BY <1>1, OldAndWhole
<1>4. \A id \in dom : LastWorth(id) \in Nat
  BY LastWorthIs
<1>5. ASSUME NEW id \in ids PROVE term[id] \in Int /\ w * cover[id] \in Int /\ term[id] =< w * cover[id]
  <2>0. term[id] = Term(EvidenceRecords, Epoch, m, s, id) /\ term[id] \in Nat
    BY <1>1, TermTyped DEF Terms
  <2>1. CASE id \notin dom
    <3>1. term[id] = w /\ cover[id] = 1
      BY <1>3, <2>0, <2>1 DEF Term
    <3> QED
      BY <1>3, <3>1
  <2>2. CASE id \in live
    <3>1. PICK x \in Nat : x = LastWorth(id)
      BY <1>4, <2>2
    <3>2. cover[id] = x + 1
      BY <2>2, <3>1
    <3>3. term[id] =< (x + 1) * w
      BY <1>3, <2>0, <2>2, <3>1, LastWorthIs DEF Term
    <3>4. (x + 1) * w = w * (x + 1) /\ w * (x + 1) \in Int
      BY <1>3, <3>1
    <3> HIDE DEF cover, term
    <3> QED
      BY <2>0, <3>2, <3>3, <3>4
  <2>3. CASE id \in dom /\ id \notin live
    <3>1. term[id] = 0 /\ cover[id] = 0
      BY <2>0, <2>3 DEF Term
    <3> QED
      BY <1>3, <3>1
  <2> QED
    BY <2>1, <2>2, <2>3
<1>6. ASSUME NEW id \in ids
      PROVE  /\ worth[id] \in Int /\ alive[id] \in Int /\ dead[id] \in Int /\ both[id] \in Int
             /\ both[id] = worth[id] + alive[id] /\ cover[id] \in Int /\ cover[id] = both[id] + dead[id]
  <2>1. id \in live => LastWorth(id) \in Nat
    BY <1>4
  <2>2. live \subseteq dom
    OBVIOUS
  <2>3. worth[id] \in Int /\ alive[id] \in Int /\ dead[id] \in Int
    BY <2>1
  <2>4. both[id] = worth[id] + alive[id] /\ both[id] \in Int
    BY <2>3
  <2>5. cover[id] = both[id] + dead[id]
    BY <2>1, <2>2
  <2> QED
    BY <2>3, <2>4, <2>5
<1>7. live \in SUBSET dom /\ live \in SUBSET ids /\ IsFiniteSet(live) /\ IsFiniteSet(dom)
  BY <1>1, <1>2, FS_Subset
<1>8. Sum(worth, ids) = MapThenSumSet(LastWorth, live)
  <2>1. MapThenSumSet(LastWorth, live) = Sum(lw, live)
    BY <1>7, LastWorthSum
  <2>2. \A id \in live : worth[id] \in Int /\ worth[id] = lw[id]
    BY <1>6, <1>7
  <2>3. \A id \in ids \ live : worth[id] = 0
    OBVIOUS
  <2> HIDE DEF worth, lw, live, ids
  <2>4. Sum(worth, live) = Sum(lw, live)
    BY <1>7, <2>2, SumSame
  <2>5. Sum(worth, ids) = Sum(worth, live)
    BY <1>2, <1>6, <1>7, <2>3, SumSupport
  <2> QED
    BY <2>1, <2>4, <2>5
<1>9. Sum(alive, ids) = Cardinality(live)
  <2>1. \A id \in live : alive[id] = 1
    BY <1>7
  <2>2. \A id \in ids \ live : alive[id] = 0
    OBVIOUS
  <2> HIDE DEF alive, live, ids
  <2>3. Sum(alive, live) = Cardinality(live)
    BY <1>7, <2>1, SumOnes
  <2>4. Sum(alive, ids) = Sum(alive, live)
    BY <1>2, <1>6, <1>7, <2>2, SumSupport
  <2> QED
    BY <2>3, <2>4
<1>10. Sum(dead, ids) = gone
  <2>1. \A id \in ids \ dom : dead[id] = 1
    OBVIOUS
  <2>2. \A id \in ids \ (ids \ dom) : dead[id] = 0
    OBVIOUS
  <2>3. IsFiniteSet(ids \ dom) /\ ids \ dom \in SUBSET ids /\ ids = dom \cup (ids \ dom)
        /\ dom \cap (ids \ dom) = {}
    BY <1>1, <1>2, FS_Subset
  <2> HIDE DEF dead, ids, dom
  <2>4. Sum(dead, ids \ dom) = Cardinality(ids \ dom)
    BY <2>1, <2>3, SumOnes
  <2>5. Sum(dead, ids) = Sum(dead, ids \ dom)
    BY <1>2, <1>6, <2>2, <2>3, SumSupport
  <2>6. Cardinality(ids) = Cardinality(dom) + Cardinality(ids \ dom)
    BY <1>7, <2>3, CountApart
  <2>7. Cardinality(dom) \in Nat /\ Cardinality(ids \ dom) \in Nat
    BY <1>7, <2>3, FS_CardinalityType
  <2> QED
    BY <1>2, <2>4, <2>5, <2>6, <2>7
<1>11. Evidence[m][s] * w =< Sum(term, ids)
  BY <1>3 DEF Disputable
<1> DEFINE scaled == [id \in ids |-> w * cover[id]]
<1>s. \A id \in ids : scaled[id] = w * cover[id]
  OBVIOUS
<1> HIDE DEF term, cover, worth, alive, dead, both, ids, scaled
<1>12. Sum(cover, ids) = Sum(both, ids) + Sum(dead, ids)
  BY <1>2, <1>6, SumPlus
<1>13. Sum(both, ids) = Sum(worth, ids) + Sum(alive, ids)
  BY <1>2, <1>6, SumPlus
<1>14. Sum(term, ids) =< Sum(scaled, ids)
  BY <1>2, <1>5, <1>s, SumAtMost
<1>15. Sum(scaled, ids) = w * Sum(cover, ids)
  BY <1>2, <1>3, <1>6, <1>s, SumScale
<1>16. PICK c \in Int : c = Sum(cover, ids)
  BY <1>2, <1>6, SumType
<1>17. PICK t \in Int : t = Sum(term, ids)
  BY <1>2, <1>5, SumType
<1>18. PICK e \in Nat : e = Evidence[m][s]
  BY <1>1
<1>19. e =< c
  <2>1. e * w =< w * c
    BY <1>3, <1>11, <1>14, <1>15, <1>16, <1>17, <1>18
  <2>2. ASSUME e > c PROVE FALSE
    <3>1. PICK d \in Nat \ {0} : e = c + d
      <4>1. e - c \in Nat \ {0} /\ e = c + (e - c)
        BY <1>16, <1>18, <2>2
      <4> QED
        BY <4>1
    <3>2. e * w = w * c + d * w /\ d * w >= 1 /\ w * c \in Int
      BY <1>3, <1>16, <3>1
    <3> QED
      BY <2>1, <3>2
  <2> QED
    BY <1>16, <1>18, <2>2
<1>20. PICK a \in Int, b \in Int : a = Sum(worth, ids) /\ b = Sum(alive, ids)
  BY <1>2, <1>6, SumType
<1>21. c = (a + b) + gone
  BY <1>10, <1>12, <1>13, <1>16, <1>20
<1> HIDE DEF live, gone, dom
<1>22. Evidence[m][s] <= MapThenSumSet(LastWorth, live) + Cardinality(live) + gone
  BY <1>8, <1>9, <1>18, <1>19, <1>20, <1>21
<1> QED
  BY <1>22 DEF live, gone, dom

LEMMA IdsFinite ==
  ASSUME NEW next \in Nat
  PROVE  IsFiniteSet(0..(next - 1))
<1>1. PICK a \in Int, b \in Int : a = 0 /\ b = next - 1
  OBVIOUS
<1>2. IsFiniteSet(a..b)
  BY FS_Interval
<1> QED
  BY <1>1, <1>2

LEMMA TermsTyped ==
  ASSUME JournalTyped, NEW m, NEW s
  PROVE  /\ RecordsTyped(EvidenceRecords, Epoch)
         /\ \A id \in 0..(NextEvidenceRecordId - 1) :
              /\ Terms(EvidenceRecords, NextEvidenceRecordId, Epoch, m, s)[id]
                   = Term(EvidenceRecords, Epoch, m, s, id)
              /\ Term(EvidenceRecords, Epoch, m, s, id) \in Nat
<1>1. RecordsTyped(EvidenceRecords, Epoch) /\ Epoch \in Nat
  BY DEF JournalTyped, RecordsTyped
<1>2. \A id : Term(EvidenceRecords, Epoch, m, s, id) \in Nat
  BY <1>1, TermTyped
<1> QED
  BY <1>1, <1>2 DEF Terms

LEMMA DisputableInit == InitEpochs => Disputable
<1> SUFFICES ASSUME InitEpochs, NEW m \in Masks, NEW s \in Suits
             PROVE  Evidence[m][s] * Whole(Epoch)
                      =< Sum(Terms(EvidenceRecords, NextEvidenceRecordId, Epoch, m, s),
                             0..(NextEvidenceRecordId - 1))
  BY DEF Disputable
<1> DEFINE ids == 0..(NextEvidenceRecordId - 1)
           term == Terms(EvidenceRecords, NextEvidenceRecordId, Epoch, m, s)
           given == {i \in DOMAIN Grants : Grants[i][1] = m /\ Grants[i][2] = s}
<1>1. JournalTyped
  BY EpochsInit DEF EpochsTyped
<1>2. /\ Epoch = 0 /\ NextEvidenceRecordId = Len(Grants) /\ Evidence = GenesisEvidence
      /\ EvidenceRecords = [id \in 0..(Len(Grants) - 1) |->
                              [who |-> Grants[id + 1][1], suit |-> Grants[id + 1][2],
                               amount |-> Grants[id + 1][3], epoch |-> 0]]
  BY DEF InitEpochs, InitReputation
<1>3. PICK n \in Nat : n = Len(Grants) /\ DOMAIN Grants = 1..n
  BY GrantsTyped
<1>4. Whole(Epoch) = 1
  BY <1>2, OldAndWhole
<1>5. IsFiniteSet(ids) /\ \A id \in ids : term[id] \in Nat
  <2>1. IsFiniteSet(ids)
    BY <1>2, <1>3, IdsFinite
  <2>2. \A id \in ids : term[id] = Term(EvidenceRecords, Epoch, m, s, id)
                        /\ Term(EvidenceRecords, Epoch, m, s, id) \in Nat
    BY <1>1, TermsTyped
  <2> QED
    BY <2>1, <2>2
<1>6. Sum(term, ids) \in Nat
  <2> HIDE DEF term, ids
  <2> QED
    BY <1>5, SumNat
<1>7. Evidence[m][s] = IF given = {} THEN 0 ELSE Grants[Max(given)][3]
  BY <1>2 DEF GenesisEvidence
<1>8. CASE given = {}
  BY <1>4, <1>6, <1>7, <1>8
<1>9. CASE given # {}
  <2>1. PICK g : g = Max(given)
    OBVIOUS
  <2>2. g \in given /\ g \in 1..n
    BY <1>3, <1>9, <2>1, LastIndex
  <2>3. PICK a \in Nat : a = Grants[g][3]
    BY <1>3, <2>2, GrantsTyped
  <2>4. PICK id \in ids : id + 1 = g
    <3>1. g - 1 \in ids /\ g - 1 + 1 = g
      BY <1>2, <1>3, <2>2
    <3> QED
      BY <3>1
  <2>5. /\ id \in DOMAIN EvidenceRecords /\ EvidenceRecords[id].who = m /\ EvidenceRecords[id].suit = s
        /\ EvidenceRecords[id].amount = a /\ EvidenceRecords[id].epoch = 0
    BY <1>2, <1>3, <2>2, <2>3, <2>4
  <2>6. Saturating(0 - 0, 1) = 0
    BY SaturatingIs
  <2>7. term[id] = a * Whole(0)
    <3>1. Term(EvidenceRecords, Epoch, m, s, id) = Scaled(a, 0, 0)
      BY <1>2, <2>5, <2>6 DEF Term
    <3> QED
      BY <2>3, <2>4, <3>1, ScaledNew DEF Terms
  <2>8. term[id] = a
    BY <1>2, <1>4, <2>3, <2>7
  <2> HIDE DEF term, ids, given
  <2>9. Sum(term, ids) = term[id] + Sum(term, ids \ {id})
    BY <1>5, SumTakeOut
  <2>10. Sum(term, ids \ {id}) \in Nat
    BY <1>5, SumNat, FS_Subset
  <2> QED
    BY <1>4, <1>7, <1>9, <2>1, <2>3, <2>8, <2>9, <2>10 DEF term, ids
<1> QED
  BY <1>8, <1>9

(* Where the journal and the epochs stay, less evidence is covered as well.  *)
LEMMA DisputableLess ==
  ASSUME JournalTyped, JournalTyped', Disputable,
         UNCHANGED <<Epoch, EvidenceRecords, NextEvidenceRecordId>>,
         \A m \in Masks, s \in Suits : Evidence'[m][s] =< Evidence[m][s]
  PROVE  Disputable'
<1> SUFFICES ASSUME NEW m \in Masks, NEW s \in Suits
             PROVE  Evidence'[m][s] * Whole(Epoch)
                      =< Sum(Terms(EvidenceRecords, NextEvidenceRecordId, Epoch, m, s),
                             0..(NextEvidenceRecordId - 1))
  BY DEF Disputable, Terms, Term, Scaled, Whole, Old
<1>1. PICK w \in Nat : w = Whole(Epoch)
  BY OldAndWhole DEF JournalTyped
<1>2. PICK e \in Nat, f \in Nat : e = Evidence[m][s] /\ f = Evidence'[m][s]
  BY DEF JournalTyped, Books
<1>3. PICK t \in Int : t = Sum(Terms(EvidenceRecords, NextEvidenceRecordId, Epoch, m, s),
                               0..(NextEvidenceRecordId - 1))
  <2>1. NextEvidenceRecordId \in Nat
    BY DEF JournalTyped
  <2>2. IsFiniteSet(0..(NextEvidenceRecordId - 1))
    BY <2>1, IdsFinite
  <2>3. \A id \in 0..(NextEvidenceRecordId - 1) :
          Terms(EvidenceRecords, NextEvidenceRecordId, Epoch, m, s)[id] \in Int
    BY TermsTyped
  <2> QED
    BY <2>2, <2>3, SumType
<1>4. e * w =< t /\ f =< e
  BY <1>1, <1>2, <1>3 DEF Disputable
<1>5. f * w =< e * w /\ f * w \in Int /\ e * w \in Int
  <2>1. PICK d \in Nat : e = f + d
    <3>1. e - f \in Nat /\ e = f + (e - f)
      BY <1>4
    <3> QED
      BY <3>1
  <2>2. e * w = f * w + d * w /\ d * w \in Nat /\ f * w \in Nat
    BY <2>1
  <2> QED
    BY <2>2
<1> QED
  BY <1>1, <1>2, <1>3, <1>4, <1>5

LEMMA DisputableAdmit ==
  ASSUME JournalTyped, Disputable, NEW who \in Masks, NEW suit \in Suits, NEW amount \in Nat,
         Admit(who, suit, amount), UNCHANGED <<Epoch, ServiceCreditCursor>>
  PROVE  Disputable'
<1> DEFINE a == <<who, suit, amount>>
           J == Journal(EvidenceRecords, NextEvidenceRecordId, <<a>>)
<1>1. /\ Evidence' = [Evidence EXCEPT ![who][suit] = @ + amount]
      /\ EvidenceRecords' = J /\ NextEvidenceRecordId' = NextEvidenceRecordId + 1
      /\ Epoch' = Epoch
  BY DEF Admit
<1>2. PICK next \in Nat, now \in Nat : next = NextEvidenceRecordId /\ now = Epoch
  BY DEF JournalTyped
<1>3. JournalTyped'
  BY AdmitTyped
<1>4. DOMAIN EvidenceRecords \subseteq 0..(next - 1) /\ Evidence \in Books
  BY <1>2 DEF JournalTyped
<1>5. DOMAIN J = DOMAIN EvidenceRecords \cup {next}
  <2>1. DOMAIN J = DOMAIN EvidenceRecords \cup (NextEvidenceRecordId..(NextEvidenceRecordId + Len(<<a>>) - 1))
    BY JournalDomain, Zenon
  <2>2. next..(next + Len(<<a>>) - 1) = {next}
    OBVIOUS
  <2> HIDE DEF J
  <2> QED
    BY <1>2, <2>1, <2>2
<1>6. J[next].who = who /\ J[next].suit = suit /\ J[next].amount = amount /\ J[next].epoch = now
  <2>1. <<a>>[next - next + 1] = a /\ ~(next < next)
    OBVIOUS
  <2>2. J[next] = Record(who, suit, amount)
    BY <1>2, <1>5, <2>1 DEF Journal
  <2> HIDE DEF J
  <2> QED
    BY <1>2, <2>2 DEF Record
<1>7. \A id \in DOMAIN EvidenceRecords : J[id] = EvidenceRecords[id]
  <2> TAKE id \in DOMAIN EvidenceRecords
  <2>1. id \in DOMAIN J /\ id < next
    BY <1>4, <1>5
  <2> QED
    BY <1>2, <2>1 DEF Journal
<1> HIDE DEF J, a
<1>8. ASSUME NEW m \in Masks, NEW s \in Suits
      PROVE  Evidence'[m][s] * Whole(now) =< Sum(Terms(J, next + 1, now, m, s), 0..next)
  <2> DEFINE old == Terms(EvidenceRecords, next, now, m, s)
             new == Terms(J, next + 1, now, m, s)
             more == IF who = m /\ suit = s THEN amount ELSE 0
  <2>1. PICK w \in Nat : w = Whole(now)
    BY <1>2, OldAndWhole
  <2>2. PICK e \in Nat : e = Evidence[m][s] /\ Evidence'[m][s] = e + more
    <3>1. PICK e \in Nat : e = Evidence[m][s]
      BY <1>4 DEF Books
    <3>2. Evidence'[m][s] = e + more
      BY <1>1, <1>4, <3>1 DEF Books
    <3> QED
      BY <3>1, <3>2
  <2>3. IsFiniteSet(0..(next - 1)) /\ 0..next = (0..(next - 1)) \cup {next} /\ next \notin 0..(next - 1)
    BY <1>2, IdsFinite
  <2>4. ASSUME NEW id \in 0..(next - 1) PROVE old[id] \in Int /\ new[id] = old[id]
    <3>1. old[id] = Term(EvidenceRecords, now, m, s, id) /\ old[id] \in Int
      BY <1>2, TermsTyped
    <3>2. new[id] = Term(J, now, m, s, id)
      BY <1>2 DEF Terms
    <3>3. id \in DOMAIN J <=> id \in DOMAIN EvidenceRecords
      BY <1>5, <1>2
    <3> HIDE DEF old, new
    <3>4. CASE id \in DOMAIN EvidenceRecords
      <4>1. J[id] = EvidenceRecords[id]
        BY <1>7, <3>4
      <4> QED
        BY <3>1, <3>2, <3>3, <4>1 DEF Term
    <3>5. CASE id \notin DOMAIN EvidenceRecords
      BY <3>1, <3>2, <3>3, <3>5 DEF Term
    <3> QED
      BY <3>4, <3>5
  <2>5. new[next] = more * w
    <3>1. new[next] = Term(J, now, m, s, next)
      BY <1>2 DEF Terms
    <3>2. Saturating(now - now, 1) = 0
      <4>1. now - now \in Int /\ now - now - 1 =< 0
        BY <1>2
      <4> QED
        BY <4>1, SaturatingIs
    <3>3. next \in DOMAIN J
      BY <1>5
    <3> HIDE DEF new
    <3>4. Term(J, now, m, s, next) = IF who = m /\ suit = s THEN Scaled(amount, 0, now) ELSE 0
      BY <1>6, <3>2, <3>3 DEF Term
    <3>5. Scaled(amount, 0, now) = amount * w
      BY <1>2, <2>1, ScaledNew
    <3> QED
      BY <2>1, <3>1, <3>4, <3>5
  <2>m. more \in Nat /\ more * w \in Nat
    BY <2>1
  <2>o. e * w =< Sum(old, 0..(next - 1))
    BY <1>2, <2>1, <2>2 DEF Disputable
  <2> HIDE DEF old, new, more
  <2>6. Sum(new, 0..next) = new[next] + Sum(new, 0..(next - 1))
    <3>1. \A x \in (0..(next - 1)) \cup {next} : new[x] \in Int
      BY <2>4, <2>5, <2>m
    <3> QED
      BY <2>3, <3>1, SumPutIn
  <2>7. Sum(new, 0..(next - 1)) = Sum(old, 0..(next - 1))
    BY <2>3, <2>4, SumSame
  <2>8. PICK t \in Int : t = Sum(old, 0..(next - 1))
    BY <2>3, <2>4, SumType
  <2>9. (e + more) * w = e * w + more * w /\ e * w \in Int
    BY <2>1, <2>2, <2>m
  <2> QED
    BY <2>1, <2>2, <2>5, <2>6, <2>7, <2>8, <2>9, <2>m, <2>o DEF new
<1>9. NextEvidenceRecordId' - 1 = next /\ NextEvidenceRecordId' = next + 1 /\ Epoch' = now
  BY <1>1, <1>2
<1> QED
  BY <1>1, <1>8, <1>9 DEF Disputable, Terms, Term, Scaled, Whole, Old

(* What one epoch does to the term of an id: it loses no more than retention *)
(* takes, whether the record stays, is swept as dust, or went long ago.      *)
LEMMA TermAges ==
  ASSUME NEW now \in Nat, NEW records, RecordsTyped(records, now), NEW after, NEW m, NEW s, NEW id,
         \/ id \in DOMAIN records /\ id \in DOMAIN after /\ after[id] = records[id]
         \/ id \notin DOMAIN records /\ id \notin DOMAIN after
         \/ /\ id \in DOMAIN records /\ id \notin DOMAIN after
            /\ Retained(records[id].amount, now - records[id].epoch) = 0
  PROVE  RetentionNum * Term(records, now, m, s, id) =< Term(after, now + 1, m, s, id)
<1>1. PICK w \in Nat, num \in Nat, den \in Nat : w = Whole(now) /\ num = RetentionNum /\ den = RetentionDen
  BY OldAndWhole
<1>2. Whole(now + 1) = w * den /\ num =< den /\ w * den \in Nat /\ num * w =< w * den /\ num * 0 = 0
  <2>1. Whole(now + 1) = w * den /\ num =< den
    BY <1>1, OldAndWhole
  <2>2. PICK d \in Nat : den = num + d
    <3>1. den - num \in Nat /\ den = num + (den - num)
      BY <1>1, <2>1
    <3> QED
      BY <3>1
  <2>3. w * den = num * w + w * d /\ w * d \in Nat /\ num * w \in Nat /\ w * den \in Nat
    BY <1>1, <2>2
  <2> QED
    BY <1>1, <2>1, <2>3
<1>3. CASE id \notin DOMAIN records /\ id \notin DOMAIN after
  BY <1>1, <1>2, <1>3 DEF Term
<1>4. ASSUME id \in DOMAIN records,
             \/ id \in DOMAIN after /\ after[id] = records[id]
             \/ id \notin DOMAIN after /\ Retained(records[id].amount, now - records[id].epoch) = 0
      PROVE  RetentionNum * Term(records, now, m, s, id) =< Term(after, now + 1, m, s, id)
  <2>1. PICK a \in Nat, ep \in 0..now : a = records[id].amount /\ ep = records[id].epoch
    BY <1>4 DEF RecordsTyped
  <2>2. Saturating(now + 1 - ep, 1) = now - ep /\ now - ep \in 0..(now + 1)
    <3>1. now + 1 - ep - 1 = now - ep /\ now - ep \in 0..(now + 1) /\ now + 1 - ep \in Int
      BY <2>1
    <3>2. Saturating(now + 1 - ep, 1) = IF now + 1 - ep - 1 =< 0 THEN 0 ELSE now + 1 - ep - 1
      BY <3>1, SaturatingIs
    <3> QED
      BY <3>1, <3>2
  <2>3. PICK young \in Int, old \in Int :
          /\ young = Scaled(a, Saturating(now - ep, 1), now)
          /\ old = Scaled(a, Saturating(now + 1 - ep, 1), now + 1)
    <3>1. Saturating(now - ep, 1) \in 0..now
      BY <2>1, AgeFits
    <3>2. Scaled(a, Saturating(now - ep, 1), now) \in Nat
      BY <2>1, <3>1, ScaledTyped
    <3>3. Scaled(a, now - ep, now + 1) \in Nat
      <4>1. PICK next \in Nat : next = now + 1
        OBVIOUS
      <4>2. PICK k \in 0..next : k = now - ep
        BY <2>2, <4>1
      <4> QED
        BY <2>1, <4>1, <4>2, ScaledTyped
    <3> QED
      BY <2>2, <3>2, <3>3
  <2>4. num * young =< old
    BY <1>1, <2>1, <2>3, ScaledAges
  <2>5. Term(records, now, m, s, id) = IF records[id].who = m /\ records[id].suit = s THEN young ELSE 0
    BY <1>4, <2>1, <2>3 DEF Term
  <2>6. CASE id \in DOMAIN after /\ after[id] = records[id]
    <3>1. Term(after, now + 1, m, s, id) = IF records[id].who = m /\ records[id].suit = s THEN old ELSE 0
      BY <2>1, <2>3, <2>6 DEF Term
    <3> QED
      BY <1>1, <1>2, <2>4, <2>5, <3>1
  <2>7. CASE id \notin DOMAIN after /\ Retained(records[id].amount, now - records[id].epoch) = 0
    <3>1. Term(after, now + 1, m, s, id) = w * den
      BY <1>2, <2>7 DEF Term
    <3>2. old =< w * den
      <4>1. PICK k \in 0..(now + 1) : k = now - ep
        BY <2>2
      <4>2. Retained(a, k) = 0 /\ old = Scaled(a, k, now + 1)
        BY <2>1, <2>2, <2>3, <2>7, <4>1
      <4>3. Scaled(a, k, now + 1) =< (Retained(a, k) + 1) * Whole(now + 1)
        <5>1. PICK next \in Nat : next = now + 1
          OBVIOUS
        <5>2. k \in 0..next
          BY <4>1, <5>1
        <5> QED
          BY <2>1, <5>1, <5>2, ScaledWorth
      <4>4. (0 + 1) * (w * den) = w * den
        BY <1>2
      <4> QED
        BY <1>2, <4>2, <4>3, <4>4
    <3> QED
      BY <1>1, <1>2, <2>3, <2>4, <2>5, <3>1, <3>2
  <2> QED
    BY <1>4, <2>6, <2>7
<1> QED
  BY <1>3, <1>4

LEMMA RetainedNow ==
  ASSUME NEW amount \in Nat
  PROVE  Retained(amount, 0) = amount
<1>1. Power(RetentionNum, 0) = 1 /\ Power(RetentionDen, 0) = 1
  BY OldAndWhole DEF Old, Whole
<1>2. (amount * 1) \div 1 = amount
  OBVIOUS
<1> QED
  BY <1>1, <1>2 DEF Retained

(* A record of the epoch that closes counts in full, or was of nothing.      *)
LEMMA TermEnters ==
  ASSUME NEW now \in Nat, NEW who, NEW suit, NEW amount \in Nat, NEW after, NEW m, NEW s, NEW id,
         \/ /\ id \in DOMAIN after
            /\ after[id] = [who |-> who, suit |-> suit, amount |-> amount, epoch |-> now]
         \/ id \notin DOMAIN after /\ Retained(amount, now - now) = 0
  PROVE  (IF who = m /\ suit = s THEN amount ELSE 0) * Whole(now + 1)
           =< Term(after, now + 1, m, s, id)
<1>1. PICK w \in Nat : w = Whole(now + 1)
  BY OldAndWhole
<1>2. now - now = 0 /\ now + 1 - now = 1
  OBVIOUS
<1>3. CASE id \notin DOMAIN after /\ Retained(amount, now - now) = 0
  <2>1. amount = 0
    BY <1>2, <1>3, RetainedNow
  <2>2. Term(after, now + 1, m, s, id) = w
    BY <1>1, <1>3 DEF Term
  <2>3. (IF who = m /\ suit = s THEN amount ELSE 0) = 0 /\ 0 * w = 0
    BY <1>1, <2>1
  <2> QED
    BY <1>1, <2>2, <2>3
<1>4. CASE /\ id \in DOMAIN after
           /\ after[id] = [who |-> who, suit |-> suit, amount |-> amount, epoch |-> now]
  <2>1. Saturating(now + 1 - now, 1) = 0
    <3>1. Saturating(1, 1) = 0
      BY SaturatingIs
    <3> QED
      BY <1>2, <3>1
  <2>2. /\ after[id].who = who /\ after[id].suit = suit
        /\ after[id].amount = amount /\ after[id].epoch = now
    BY <1>4
  <2>3. Term(after, now + 1, m, s, id) = IF who = m /\ suit = s THEN Scaled(amount, 0, now + 1) ELSE 0
    BY <1>4, <2>1, <2>2 DEF Term
  <2>4. Scaled(amount, 0, now + 1) = amount * w
    BY <1>1, ScaledNew
  <2>5. amount * w \in Nat /\ 0 * w = 0
    BY <1>1
  <2> QED
    BY <1>1, <2>3, <2>4, <2>5
<1> QED
  BY <1>3, <1>4

LEMMA DecayedIs ==
  ASSUME Evidence \in Books, NEW m \in Masks, NEW s \in Suits
  PROVE  Decayed[m][s] \in Nat /\ Decayed[m][s] * RetentionDen =< Evidence[m][s] * RetentionNum
<1>1. PICK num \in Nat, den \in Nat \ {0} : num = RetentionNum /\ den = RetentionDen
  BY ReputationAssumption DEF ReputationConfig
<1>2. PICK e \in Nat : e = Evidence[m][s]
  BY DEF Books
<1>3. Decayed[m][s] = (e * num) \div den
  <2> DEFINE aged(n) == [t \in Suits |-> (Evidence[n][t] * RetentionNum) \div RetentionDen]
             Same(f) == CHOOSE g \in {f} : g = g
  <2>1. Decayed = Same([n \in Masks |-> Same(aged(n))])
    BY DEF Decayed, Tabulated
  <2>2. aged(m)[s] = (e * num) \div den
    BY <1>1, <1>2
  <2> HIDE DEF aged
  <2>3. \A f : Same(f) = f
    OBVIOUS
  <2> HIDE DEF Same
  <2>4. Decayed = [n \in Masks |-> aged(n)]
    BY <2>1, <2>3
  <2> QED
    BY <2>2, <2>4
<1>4. PICK p \in Nat : p = e * num
  OBVIOUS
<1>5. p \div den \in Nat /\ (p \div den) * den =< p
  <2>1. PICK q \in Nat, r \in 0..(den - 1) : p \div den = q /\ p = den * q + r
    OBVIOUS
  <2>2. q * den = den * q /\ den * q \in Nat
    OBVIOUS
  <2> QED
    BY <2>1, <2>2
<1> QED
  BY <1>1, <1>2, <1>3, <1>4, <1>5

(* What an epoch does to the journal: the old records stay or go as dust,    *)
(* and each credit has an id of its own.                                     *)
LEMMA EpochJournal ==
  ASSUME JournalTyped, NEW n \in 0..MaxBlock, RunEpoch(n)
  PROVE  \E credits \in Seq(Admissions), first \in Nat, head \in Nat :
           /\ first = NextEvidenceRecordId /\ head = first + Len(credits)
           /\ NextEvidenceRecordId' = head /\ Epoch' = Epoch + 1
           /\ Evidence' = Credited(Decayed, credits)
           /\ \A id \in 0..(first - 1) :
                \/ /\ id \in DOMAIN EvidenceRecords /\ id \in DOMAIN EvidenceRecords'
                   /\ EvidenceRecords'[id] = EvidenceRecords[id]
                \/ id \notin DOMAIN EvidenceRecords /\ id \notin DOMAIN EvidenceRecords'
                \/ /\ id \in DOMAIN EvidenceRecords /\ id \notin DOMAIN EvidenceRecords'
                   /\ Retained(EvidenceRecords[id].amount, Epoch - EvidenceRecords[id].epoch) = 0
           /\ \A i \in 1..Len(credits) :
                LET id == first + i - 1
                IN  \/ /\ id \in DOMAIN EvidenceRecords'
                       /\ EvidenceRecords'[id] = Record(credits[i][1], credits[i][2], credits[i][3])
                    \/ id \notin DOMAIN EvidenceRecords' /\ Retained(credits[i][3], Epoch - Epoch) = 0
<1>1. PICK credits \in {ServiceCredits(n)} :
        LET head == NextEvidenceRecordId + Len(credits)
        IN  /\ Evidence' = Credited(Decayed, credits)
            /\ NextEvidenceRecordId' = head
            /\ EvidenceRecords' =
                 Swept(Journal(EvidenceRecords, NextEvidenceRecordId, credits), head)
            /\ Epoch' = Epoch + 1
  BY DEF RunEpoch
<1>2. credits \in Seq(Admissions)
  BY <1>1, ServiceCreditsTyped DEF JournalTyped
<1>3. Len(credits) \in Nat
  BY <1>2
<1>4. PICK first \in Nat : first = NextEvidenceRecordId
  BY DEF JournalTyped
<1>5. PICK head \in Nat : head = first + Len(credits)
  BY <1>3
<1>6. DOMAIN EvidenceRecords \subseteq 0..(first - 1)
  BY <1>4 DEF JournalTyped
<1> DEFINE J == Journal(EvidenceRecords, NextEvidenceRecordId, credits)
<1>7. DOMAIN J = DOMAIN EvidenceRecords \cup (first..(head - 1))
  <2>1. DOMAIN Journal(EvidenceRecords, NextEvidenceRecordId, credits)
          = DOMAIN EvidenceRecords
              \union (NextEvidenceRecordId..(NextEvidenceRecordId + Len(credits) - 1))
    BY JournalDomain, Zenon
  <2> QED
    BY <1>4, <1>5, <2>1
<1>8. \A id \in DOMAIN EvidenceRecords : J[id] = EvidenceRecords[id]
  <2> TAKE id \in DOMAIN EvidenceRecords
  <2>1. id \in DOMAIN J /\ id < first
    BY <1>6, <1>7
  <2> QED
    BY <1>4, <2>1 DEF Journal
<1>9. ASSUME NEW i \in 1..Len(credits)
      PROVE  /\ first + i - 1 \in DOMAIN J
             /\ J[first + i - 1] = Record(credits[i][1], credits[i][2], credits[i][3])
  <2>1. PICK id \in Int : id = first + i - 1
    BY <1>3
  <2>2. id \in first..(head - 1) /\ ~(id < first) /\ id - first + 1 = i
    BY <1>3, <1>5, <2>1
  <2>3. id \in DOMAIN J
    BY <1>7, <2>2
  <2>4. J[id] = Record(credits[i][1], credits[i][2], credits[i][3])
    BY <1>4, <2>2, <2>3 DEF Journal
  <2> QED
    BY <2>1, <2>3, <2>4
<1> HIDE DEF J
<1>10. PICK dust \in SUBSET DOMAIN J :
         /\ \A id \in dust : Worth(J[id]) = 0
         /\ EvidenceRecords' = [id \in DOMAIN J \ dust |-> J[id]]
  <2>1. EvidenceRecords' = Swept(J, NextEvidenceRecordId + Len(credits))
    BY <1>1 DEF J
  <2> DEFINE D == {id \in DOMAIN J \cap SweepIds(NextEvidenceRecordId + Len(credits)) : Worth(J[id]) = 0}
  <2>2. EvidenceRecords' = [id \in DOMAIN J \ D |-> J[id]]
    BY <2>1 DEF Swept
  <2>3. D \in SUBSET DOMAIN J /\ \A id \in D : Worth(J[id]) = 0
    OBVIOUS
  <2> HIDE DEF D
  <2> QED
    BY <2>2, <2>3
<1>11. DOMAIN EvidenceRecords' = DOMAIN J \ dust /\ \A id \in DOMAIN J \ dust : EvidenceRecords'[id] = J[id]
  BY <1>10
<1>12. ASSUME NEW id \in 0..(first - 1)
       PROVE  \/ /\ id \in DOMAIN EvidenceRecords /\ id \in DOMAIN EvidenceRecords'
                 /\ EvidenceRecords'[id] = EvidenceRecords[id]
              \/ id \notin DOMAIN EvidenceRecords /\ id \notin DOMAIN EvidenceRecords'
              \/ /\ id \in DOMAIN EvidenceRecords /\ id \notin DOMAIN EvidenceRecords'
                 /\ Retained(EvidenceRecords[id].amount, Epoch - EvidenceRecords[id].epoch) = 0
  <2>1. id \in DOMAIN J <=> id \in DOMAIN EvidenceRecords
    BY <1>7
  <2>2. CASE id \notin DOMAIN EvidenceRecords
    BY <1>11, <2>1, <2>2
  <2>3. CASE id \in DOMAIN EvidenceRecords /\ id \in dust
    BY <1>8, <1>10, <1>11, <2>1, <2>3 DEF Worth
  <2>4. CASE id \in DOMAIN EvidenceRecords /\ id \notin dust
    BY <1>8, <1>11, <2>1, <2>4
  <2> QED
    BY <2>2, <2>3, <2>4
<1>13. ASSUME NEW i \in 1..Len(credits)
       PROVE  LET id == first + i - 1
              IN  \/ /\ id \in DOMAIN EvidenceRecords'
                     /\ EvidenceRecords'[id] = Record(credits[i][1], credits[i][2], credits[i][3])
                  \/ id \notin DOMAIN EvidenceRecords' /\ Retained(credits[i][3], Epoch - Epoch) = 0
  <2>1. PICK id : id = first + i - 1
    OBVIOUS
  <2>2. id \in DOMAIN J /\ J[id] = Record(credits[i][1], credits[i][2], credits[i][3])
    BY <1>9, <2>1
  <2>3. CASE id \in dust
    <3>1. Worth(J[id]) = 0 /\ id \notin DOMAIN EvidenceRecords'
      BY <1>10, <1>11, <2>3
    <3>2. J[id].amount = credits[i][3] /\ J[id].epoch = Epoch
      BY <2>2 DEF Record
    <3> QED
      BY <2>1, <3>1, <3>2 DEF Worth
  <2>4. CASE id \notin dust
    BY <1>11, <2>1, <2>2, <2>4
  <2> QED
    BY <2>3, <2>4
<1>14. NextEvidenceRecordId' = head /\ Epoch' = Epoch + 1 /\ Evidence' = Credited(Decayed, credits)
  BY <1>1, <1>4, <1>5
<1> QED
  BY <1>2, <1>4, <1>5, <1>12, <1>13, <1>14

LEMMA EpochArithmetic ==
  ASSUME NEW e \in Nat, NEW dec \in Nat, NEW num \in Nat, NEW den \in Nat, NEW w \in Nat,
         NEW o \in Int, NEW g \in Int, dec * den =< e * num, e * w =< o
  PROVE  (dec + g) * (w * den) =< num * o + (w * den) * g
<1>1. PICK x \in Nat, y \in Nat : x = dec * den /\ y = e * num
  OBVIOUS
<1>2. PICK d \in Nat : y = x + d
  <2>1. y - x \in Nat /\ y = x + (y - x)
    BY <1>1
  <2> QED
    BY <2>1
<1>3. PICK z \in Nat : z = e * w
  OBVIOUS
<1>4. PICK f \in Nat : o = z + f
  <2>1. o - z \in Nat /\ o = z + (o - z)
    BY <1>3
  <2> QED
    BY <2>1
<1>5. PICK u \in Nat : u = w * den
  OBVIOUS
<1>6. (dec + g) * u = dec * u + u * g /\ u * g \in Int /\ dec * u \in Int
  BY <1>5
<1>7. dec * u = x * w
  BY <1>1, <1>5
<1>8. y * w = x * w + d * w /\ d * w \in Nat /\ x * w \in Nat
  BY <1>1, <1>2
<1>9. y * w = num * z
  <2>1. y * w = (e * num) * w /\ num * z = num * (e * w)
    BY <1>1, <1>3
  <2>2. (e * num) * w = num * (e * w)
    OBVIOUS
  <2> QED
    BY <2>1, <2>2
<1>10. num * o = num * z + num * f /\ num * z \in Nat /\ num * f \in Nat
  BY <1>3, <1>4
<1>11. dec * u =< num * o /\ num * o \in Int
  BY <1>7, <1>8, <1>9, <1>10
<1> QED
  BY <1>5, <1>6, <1>11

LEMMA DisputableEpoch ==
  ASSUME JournalTyped, Disputable, NEW n \in 0..MaxBlock, RunEpoch(n)
  PROVE  Disputable'
<1>1. PICK credits \in Seq(Admissions), first \in Nat, head \in Nat :
        /\ first = NextEvidenceRecordId /\ head = first + Len(credits)
        /\ NextEvidenceRecordId' = head /\ Epoch' = Epoch + 1
        /\ Evidence' = Credited(Decayed, credits)
        /\ \A id \in 0..(first - 1) :
             \/ /\ id \in DOMAIN EvidenceRecords /\ id \in DOMAIN EvidenceRecords'
                /\ EvidenceRecords'[id] = EvidenceRecords[id]
             \/ id \notin DOMAIN EvidenceRecords /\ id \notin DOMAIN EvidenceRecords'
             \/ /\ id \in DOMAIN EvidenceRecords /\ id \notin DOMAIN EvidenceRecords'
                /\ Retained(EvidenceRecords[id].amount, Epoch - EvidenceRecords[id].epoch) = 0
        /\ \A i \in 1..Len(credits) :
             LET id == first + i - 1
             IN  \/ /\ id \in DOMAIN EvidenceRecords'
                    /\ EvidenceRecords'[id] = Record(credits[i][1], credits[i][2], credits[i][3])
                 \/ id \notin DOMAIN EvidenceRecords' /\ Retained(credits[i][3], Epoch - Epoch) = 0
  BY EpochJournal
<1>2. PICK len \in Nat : len = Len(credits) /\ head = first + len
  <2>1. Len(credits) \in Nat
    BY <1>1
  <2> QED
    BY <1>1, <2>1
<1>3. PICK now \in Nat : now = Epoch
  BY DEF JournalTyped
<1>4. Evidence \in Books /\ RecordsTyped(EvidenceRecords, now)
  BY <1>3, TermsTyped DEF JournalTyped
<1>5. RecordsTyped(EvidenceRecords', now + 1) /\ now + 1 \in Nat
  <2>1. JournalTyped'
    BY EpochKeepsJournal
  <2> QED
    BY <1>1, <1>3, <2>1 DEF JournalTyped, RecordsTyped
<1>6. PICK num \in Nat, den \in Nat \ {0}, w \in Nat :
        num = RetentionNum /\ den = RetentionDen /\ w = Whole(now) /\ Whole(now + 1) = w * den
  <2>1. RetentionNum \in Nat /\ RetentionDen \in Nat \ {0}
    BY ReputationAssumption DEF ReputationConfig
  <2>2. Whole(now) \in Nat /\ Whole(now + 1) = Whole(now) * RetentionDen
    BY <1>3, OldAndWhole
  <2> QED
    BY <2>1, <2>2
<1> DEFINE after == EvidenceRecords'
<1>7. ASSUME NEW m \in Masks, NEW s \in Suits
      PROVE  Evidence'[m][s] * Whole(now + 1) =< Sum(Terms(after, head, now + 1, m, s), 0..(head - 1))
  <2> DEFINE old == Terms(EvidenceRecords, first, now, m, s)
             new == Terms(after, head, now + 1, m, s)
             got == Got(credits, m, s)
             aged == [id \in 0..(first - 1) |-> num * old[id]]
             full == [i \in 1..len |-> (w * den) * got[i]]
             place == [i \in 1..len |-> first + i - 1]
  <2>1. PICK e \in Nat, dec \in Nat : e = Evidence[m][s] /\ dec = Decayed[m][s] /\ dec * den =< e * num
    <3>1. PICK e \in Nat : e = Evidence[m][s]
      BY <1>4 DEF Books
    <3>2. Decayed[m][s] \in Nat /\ Decayed[m][s] * RetentionDen =< Evidence[m][s] * RetentionNum
      BY <1>4, DecayedIs
    <3> QED
      BY <1>6, <3>1, <3>2
  <2>2. IsFiniteSet(0..(first - 1)) /\ IsFiniteSet(0..(head - 1))
    BY <1>1, IdsFinite
  <2>3. IsFiniteSet(1..len)
    BY <1>2, FS_Interval
  <2>4. 0..(head - 1) = (0..(first - 1)) \cup (first..(head - 1))
        /\ (0..(first - 1)) \cap (first..(head - 1)) = {}
        /\ first..(head - 1) \in SUBSET (0..(head - 1))
    BY <1>2
  <2>5. IsFiniteSet(first..(head - 1))
    BY <2>2, <2>4, FS_Subset
  <2>6. ASSUME NEW id \in 0..(head - 1)
        PROVE  new[id] = Term(after, now + 1, m, s, id) /\ new[id] \in Nat
    BY <1>5, TermTyped DEF Terms
  <2>7. ASSUME NEW id \in 0..(first - 1)
        PROVE  /\ old[id] \in Int /\ aged[id] = num * old[id] /\ aged[id] \in Int
               /\ new[id] \in Int /\ aged[id] =< new[id]
    <3>1. old[id] = Term(EvidenceRecords, now, m, s, id) /\ old[id] \in Nat
      BY <1>3, <1>4, TermTyped DEF Terms
    <3>2. RetentionNum * Term(EvidenceRecords, now, m, s, id) =< Term(after, now + 1, m, s, id)
      <4>1. \/ id \in DOMAIN EvidenceRecords /\ id \in DOMAIN after /\ after[id] = EvidenceRecords[id]
            \/ id \notin DOMAIN EvidenceRecords /\ id \notin DOMAIN after
            \/ /\ id \in DOMAIN EvidenceRecords /\ id \notin DOMAIN after
               /\ Retained(EvidenceRecords[id].amount, now - EvidenceRecords[id].epoch) = 0
        BY <1>1, <1>3
      <4> HIDE DEF after
      <4> QED
        BY <1>4, <4>1, TermAges
    <3>3. new[id] = Term(after, now + 1, m, s, id) /\ new[id] \in Nat
      BY <2>4, <2>6
    <3>4. aged[id] = num * old[id]
      OBVIOUS
    <3> HIDE DEF old, new, aged
    <3>5. num * old[id] \in Int
      BY <3>1
    <3> QED
      BY <1>6, <3>1, <3>2, <3>3, <3>4, <3>5
  <2>8. ASSUME NEW i \in 1..len
        PROVE  /\ got[i] \in Nat /\ full[i] = (w * den) * got[i] /\ full[i] \in Nat
               /\ place[i] = first + i - 1 /\ place[i] \in first..(head - 1)
               /\ full[i] =< new[place[i]]
    <3>1. PICK a \in Admissions : a = credits[i]
      BY <1>1, <1>2
    <3>2. a[3] \in Nat
      BY <3>1 DEF Admissions
    <3>3. got[i] = (IF a[1] = m /\ a[2] = s THEN a[3] ELSE 0) /\ got[i] \in Nat
      BY <1>2, <3>1, <3>2 DEF Got
    <3>4. full[i] = (w * den) * got[i]
      OBVIOUS
    <3>5. PICK id \in first..(head - 1) : id = place[i] /\ id = first + i - 1
      <4>1. first + i - 1 \in first..(head - 1) /\ place[i] = first + i - 1
        BY <1>2
      <4> QED
        BY <4>1
    <3>6. \/ /\ id \in DOMAIN after
             /\ after[id] = [who |-> a[1], suit |-> a[2], amount |-> a[3], epoch |-> now]
          \/ id \notin DOMAIN after /\ Retained(a[3], now - now) = 0
      BY <1>1, <1>2, <1>3, <3>1, <3>5 DEF Record
    <3> HIDE DEF after
    <3>7. (IF a[1] = m /\ a[2] = s THEN a[3] ELSE 0) * Whole(now + 1) =< Term(after, now + 1, m, s, id)
      BY <3>2, <3>6, TermEnters
    <3>8. new[id] = Term(after, now + 1, m, s, id)
      BY <2>4, <2>6
    <3> HIDE DEF new, got, full, place
    <3>9. PICK g \in Nat, u \in Nat : g = got[i] /\ u = w * den /\ g * u = u * g /\ u * g \in Nat
      BY <1>6, <3>3
    <3>10. g * u =< new[id]
      BY <1>6, <3>3, <3>7, <3>8, <3>9
    <3> QED
      BY <3>3, <3>4, <3>5, <3>9, <3>10
  <2>9. Evidence'[m][s] = dec + Sum(got, 1..len)
    <3>1. Decayed \in Books
      BY <1>4, DecayedTyped
    <3>2. Credited(Decayed, credits)[m][s] = Decayed[m][s] + Sum(Got(credits, m, s), 1..Len(credits))
      BY <1>1, <3>1, CreditedSum
    <3> QED
      BY <1>1, <1>2, <2>1, <3>2
  <2>10. e * w =< Sum(old, 0..(first - 1))
    BY <1>1, <1>3, <1>6, <2>1 DEF Disputable
  <2>11. \A i, j \in 1..len : place[i] = place[j] => i = j
    BY <1>2, <2>8
  <2>12. place \in [1..len -> first..(head - 1)]
    BY <2>8
  <2> HIDE DEF old, new, got, aged, full, place, after
  <2>13. PICK o \in Int : o = Sum(old, 0..(first - 1))
    BY <2>2, <2>7, SumType
  <2>14. Sum(aged, 0..(first - 1)) = num * o
    <3>1. \A id \in 0..(first - 1) : old[id] \in Int /\ aged[id] = num * old[id]
      BY <2>7
    <3>2. num \in Int
      BY <1>6
    <3> QED
      BY <2>2, <2>13, <3>1, <3>2, SumScale
  <2>15. num * o =< Sum(new, 0..(first - 1))
    BY <2>2, <2>7, <2>14, SumAtMost
  <2>16. PICK g \in Int : g = Sum(got, 1..len)
    <3>1. \A i \in 1..len : got[i] \in Int
      BY <2>8
    <3> QED
      BY <2>3, <3>1, SumType
  <2>17. Sum(full, 1..len) = (w * den) * g
    <3>1. \A i \in 1..len : got[i] \in Int /\ full[i] = (w * den) * got[i]
      BY <2>8
    <3>2. w * den \in Int
      BY <1>6
    <3> QED
      BY <2>3, <2>16, <3>1, <3>2, SumScale
  <2>18. (w * den) * g =< Sum(new, first..(head - 1))
    <3>1. \A i \in 1..len : full[i] \in Nat /\ full[i] =< new[place[i]]
      BY <2>8
    <3>2. \A id \in first..(head - 1) : new[id] \in Nat
      BY <2>4, <2>6
    <3> QED
      BY <2>3, <2>5, <2>11, <2>12, <2>17, <3>1, <3>2, SumInjected
  <2>19. Sum(new, 0..(head - 1)) = Sum(new, 0..(first - 1)) + Sum(new, first..(head - 1))
    <3>1. \A x \in 0..(head - 1) : new[x] \in Int
      BY <2>6
    <3> QED
      BY <2>2, <2>4, <2>5, <3>1, SumSplit
  <2>20. PICK p \in Int, q \in Int : p = Sum(new, 0..(first - 1)) /\ q = Sum(new, first..(head - 1))
    <3>1. \A x \in 0..(first - 1) : new[x] \in Int
      BY <2>7
    <3>2. \A x \in first..(head - 1) : new[x] \in Int
      BY <2>4, <2>6
    <3>3. Sum(new, 0..(first - 1)) \in Int
      BY <2>2, <3>1, SumType
    <3>4. Sum(new, first..(head - 1)) \in Int
      BY <2>5, <3>2, SumType
    <3> QED
      BY <3>3, <3>4
  <2>21. (dec + g) * (w * den) =< num * o + (w * den) * g
    BY <1>6, <2>1, <2>10, <2>13, <2>16, EpochArithmetic
  <2>22. num * o \in Int /\ (w * den) * g \in Int /\ (dec + g) * (w * den) \in Int
    <3>1. w \in Nat /\ den \in Nat /\ num \in Nat
      BY <1>6
    <3>2. dec \in Nat
      BY <2>1
    <3>3. g \in Int /\ o \in Int
      BY <2>13, <2>16
    <3>4. PICK u \in Nat : u = w * den
      BY <3>1
    <3>5. PICK k \in Int : k = dec + g
      BY <3>2, <3>3
    <3>6. num * o \in Int
      BY <3>1, <3>3
    <3>7. u * g \in Int
      BY <3>3, <3>4
    <3>8. k * u \in Int
      BY <3>4, <3>5
    <3> QED
      BY <3>4, <3>5, <3>6, <3>7, <3>8
  <2>23. (dec + g) * (w * den) =< p + q
    BY <2>15, <2>18, <2>20, <2>21, <2>22
  <2> QED
    BY <1>6, <2>9, <2>16, <2>19, <2>20, <2>23 DEF new
<1> QED
  BY <1>1, <1>3, <1>7 DEF Disputable, Terms, Term, Scaled, Whole, Old

LEMMA DisputableStep ==
  EpochsTyped /\ Disputable /\ [NextEpochs]_varsEpochs => Disputable'
<1> SUFFICES ASSUME EpochsTyped, Disputable, [NextEpochs]_varsEpochs
             PROVE  Disputable'
  OBVIOUS
<1>t. JournalTyped /\ number \in 0..MaxBlock /\ Evidence \in Books /\ TestimonyTyped
  BY DEF EpochsTyped, JournalTyped
<1>n. JournalTyped'
  BY EpochsStep DEF EpochsTyped
<1>a. Attesters \subseteq Masks /\ Beneficiaries \subseteq Masks /\ Culprits \subseteq Masks
      /\ CallSuits \subseteq Suits /\ Amounts \subseteq Nat /\ FraudLosses \subseteq Nat
      /\ Depths \subseteq Nat
  BY CallsAssumption
<1>0. ASSUME UNCHANGED <<standing, journal>> PROVE Disputable'
  <2>1. UNCHANGED <<Epoch, Evidence, EvidenceRecords, NextEvidenceRecordId>>
    BY <1>0 DEF standing, journal
  <2>2. \A m \in Masks, s \in Suits : Evidence'[m][s] =< Evidence[m][s]
    <3> TAKE m \in Masks, s \in Suits
    <3>1. PICK e \in Nat : e = Evidence[m][s]
      BY <1>t DEF Books
    <3> QED
      BY <2>1, <3>1
  <2> QED
    BY <1>n, <1>t, <2>1, <2>2, DisputableLess
<1>1. CASE OpenEpochBlock
  <2>1. number + 1 \in 0..MaxBlock /\ OnInitialize(number + 1)
    <3>1. MaxBlock \in Nat
      BY ReputationAssumption
    <3> QED
      BY <1>1, <1>t, <3>1 DEF OpenEpochBlock
  <2>2. CASE RunEpoch(number + 1)
    BY <1>t, <2>1, <2>2, DisputableEpoch
  <2>3. CASE UNCHANGED reputation
    BY <1>0, <2>3 DEF reputation
  <2> QED
    BY <2>1, <2>2, <2>3 DEF OnInitialize
<1>2. ASSUME NEW suit \in CallSuits, NEW a \in Attesters, NEW b \in Beneficiaries, Attest(a, b, suit)
      PROVE  Disputable'
  <2>1. UNCHANGED <<standing, journal>>
    BY <1>2 DEF Attest, AttestEvidence
  <2> QED
    BY <1>0, <2>1
<1>3. ASSUME NEW suit \in CallSuits, NEW a \in Attesters, NEW b \in Beneficiaries, Claim(b, a, suit)
      PROVE  Disputable'
  <2> DEFINE pair == <<a, b, suit>>
  <2>1. /\ pair \in DOMAIN Attestations /\ Admit(b, suit, Attestations[pair])
        /\ UNCHANGED <<Epoch, ServiceCreditCursor>>
    BY <1>3 DEF Claim, ClaimAttestedEvidence
  <2>2. PICK amount \in Nat : amount = Attestations[pair]
    BY <1>t, <2>1 DEF TestimonyTyped
  <2> HIDE DEF pair
  <2>3. b \in Masks /\ suit \in Suits /\ Admit(b, suit, amount)
    BY <1>a, <2>1, <2>2
  <2> QED
    BY <1>t, <2>1, <2>3, DisputableAdmit
<1>4. ASSUME NEW suit \in CallSuits, NEW v, NEW m, PlaceVouch(v, m, suit) \/ TakeVouchBack(v, m, suit)
      PROVE  Disputable'
  <2>1. UNCHANGED <<standing, journal>>
    BY <1>4 DEF PlaceVouch, TakeVouchBack, Vouch, RevokeVouch
  <2> QED
    BY <1>0, <2>1
<1>5. ASSUME NEW suit \in CallSuits, NEW m \in Beneficiaries, Submit(m, suit)
      PROVE  Disputable'
  <2>1. PICK amount \in Amounts : SubmitEvidence(m, suit, amount)
    BY <1>5 DEF Submit
  <2>2. m \in Masks /\ suit \in Suits /\ amount \in Nat /\ Admit(m, suit, amount)
        /\ UNCHANGED <<Epoch, ServiceCreditCursor>>
    BY <1>a, <2>1 DEF SubmitEvidence
  <2> QED
    BY <1>t, <2>2, DisputableAdmit
<1>6. ASSUME NEW suit \in CallSuits, NEW m \in Culprits, Report(m, suit)
      PROVE  Disputable'
  <2>1. PICK loss \in FraudLosses : \E depth \in Depths : ReportFraud(m, suit, loss, depth)
    BY <1>6 DEF Report
  <2>2. PICK depth \in Depths : ReportFraud(m, suit, loss, depth)
    BY <2>1
  <2>3. m \in Masks /\ suit \in Suits /\ loss \in Nat /\ depth \in Nat /\ Slash(m, suit, loss, depth)
        /\ UNCHANGED <<Epoch, EvidenceRecords, NextEvidenceRecordId>>
    BY <1>a, <2>2 DEF ReportFraud, journal
  <2>4. \A x \in Masks, s \in Suits : Evidence'[x][s] =< Evidence[x][s]
    BY <1>t, <2>3, SlashLowers
  <2> QED
    BY <1>n, <1>t, <2>3, <2>4, DisputableLess
<1>7. CASE SetWindows
  <2>1. UNCHANGED <<standing, journal>>
    BY <1>7 DEF SetWindows, SetBootstrapWindow, SetProbationWindow
  <2> QED
    BY <1>0, <2>1
<1>8. CASE UNCHANGED varsEpochs
  <2>1. UNCHANGED <<standing, journal>>
    BY <1>8 DEF varsEpochs, reputation
  <2> QED
    BY <1>0, <2>1
<1> QED
  BY <1>1, <1>2, <1>3, <1>4, <1>5, <1>6, <1>7, <1>8 DEF NextEpochs

(* What a mask holds in a suit is never more than what its records were      *)
(* worth an epoch ago, but for less than one unit of each, whatever is       *)
(* granted, claimed, credited, slashed, aged and swept.                      *)
THEOREM EvidenceIsAlwaysDisputable == SpecEpochs => []EvidenceIsDisputable
<1>1. InitEpochs => EpochsTyped /\ Disputable
  BY EpochsInit, DisputableInit
<1>2. EpochsTyped /\ Disputable /\ [NextEpochs]_varsEpochs => (EpochsTyped /\ Disputable)'
  BY EpochsStep, DisputableStep
<1>3. EpochsTyped /\ Disputable => EvidenceIsDisputable
  BY DisputableShows DEF EpochsTyped
<1> QED
  BY <1>1, <1>2, <1>3, PTL DEF SpecEpochs

-----------------------------------------------------------------------------
(* The recount.  Trust is anchored in evidence: where a set of masks is      *)
(* closed under vouches and holds all evidence of the suit, no round gives   *)
(* anything to a mask outside of it.                                         *)
LEMMA TotalIsSum ==
  ASSUME NEW D, IsFiniteSet(D), NEW v, \A x \in D : v[x] \in Int
  PROVE  Total(v, D) = Sum(v, D) /\ Total(v, D) \in Int
<1>1. Total(v, D) = Sum(v, D)
  BY MapThenSumSetIsSum DEF Total
<1>2. Sum(v, D) \in Int
  BY SumType
<1> QED
  BY <1>1, <1>2

LEMMA TotalNat ==
  ASSUME NEW D, IsFiniteSet(D), NEW v, \A x \in D : v[x] \in Nat
  PROVE  Total(v, D) \in Nat
BY TotalIsSum, SumNat

LEMMA TotalZero ==
  ASSUME NEW D, IsFiniteSet(D), NEW v, \A x \in D : v[x] = 0
  PROVE  Total(v, D) = 0
<1>1. {} \in SUBSET D /\ \A x \in D : v[x] \in Int
  OBVIOUS
<1>2. Sum(v, D) = Sum(v, {})
  BY <1>1, SumSupport
<1> QED
  BY <1>1, <1>2, TotalIsSum, SumEmpty

LEMMA TotalAtLeast ==
  ASSUME NEW D, IsFiniteSet(D), NEW v, \A x \in D : v[x] \in Nat, NEW y \in D
  PROVE  Total(v, D) \in Nat /\ v[y] =< Total(v, D)
<1>1. Sum(v, D) = v[y] + Sum(v, D \ {y})
  BY SumTakeOut
<1>2. Sum(v, D \ {y}) \in Nat
  BY SumNat, FS_Subset
<1>3. Total(v, D) = Sum(v, D)
  BY TotalIsSum
<1> QED
  BY <1>1, <1>2, <1>3

\* Quotients by a positive number.
LEMMA Quotient ==
  ASSUME NEW d \in Nat \ {0}
  PROVE  /\ 0 \div d = 0
         /\ \A n \in Int : n \div d \in Int
         /\ \A n \in Nat : n \div d \in Nat
OBVIOUS

LEMMA FixedPoint ==
  /\ \A a, b \in Nat : FpMul(a, b) \in Nat
  /\ \A a \in Nat, b \in Nat \ {0} : FpDiv(a, b) \in Nat
<1>1. PICK scale \in Nat \ {0} : scale = Scale
  BY ScaleAssumption
<1>2. ASSUME NEW a \in Nat, NEW b \in Nat PROVE FpMul(a, b) \in Nat
  <2>1. PICK p \in Nat : p = a * b
    OBVIOUS
  <2> QED
    BY <1>1, <2>1, Quotient DEF FpMul
<1>3. ASSUME NEW a \in Nat, NEW b \in Nat \ {0} PROVE FpDiv(a, b) \in Nat
  <2>1. PICK p \in Nat : p = a * scale
    <3>1. a * scale \in Nat
      BY <1>1
    <3> QED
      BY <3>1
  <2> QED
    BY <1>1, <2>1, Quotient DEF FpDiv
<1> QED
  BY <1>2, <1>3

LEMMA ParamsTyped ==
  /\ Scale \in Nat \ {0} /\ Alpha \in Nat /\ Beta \in Nat /\ Gamma \in Nat /\ Kappa \in Nat
  /\ Mu \in Nat /\ K0 \in Nat /\ Rho \in Nat
<1>1. PICK scale \in Nat \ {0} : scale = Scale
  BY ScaleAssumption
<1>2. (3 * scale) \div 10 \in Nat /\ scale \div 2 \in Nat
      /\ 4 * scale \in Nat /\ 8 * scale \in Nat /\ 26 * scale \in Nat /\ 2 * scale \in Nat
  BY <1>1
<1> QED
  BY <1>1, <1>2 DEF Alpha, Beta, Gamma, Kappa, Mu, K0, Rho

\* Trust of the masks, none to those outside.
Trusts(nodes, cold) == {t \in [nodes -> Int] : \A k \in cold : t[k] = 0}

LEMMA NextTrustKeeps ==
  ASSUME NEW nodes, IsFiniteSet(nodes), NEW cold \in SUBSET nodes,
         NEW c \in [nodes -> [nodes -> Int]], \A i \in nodes \ cold, k \in cold : c[i][k] = 0,
         NEW pre \in Trusts(nodes, cold), NEW t \in Trusts(nodes, cold)
  PROVE  NextTrust(c, pre, nodes, t) \in Trusts(nodes, cold)
<1> DEFINE emitted(i) == ((Scale - Alpha) * t[i]) \div Scale
           row(i) == Total(c[i], nodes)
           lost == [i \in nodes |-> (emitted(i) * (Scale - row(i))) \div Scale]
           leak == Total(lost, nodes)
           got(k) == [i \in nodes |-> (emitted(i) * c[i][k]) \div Scale]
           new == [k \in nodes |-> (Alpha * pre[k]) \div Scale + Total(got(k), nodes)
                                     + (leak * pre[k]) \div Scale]
           Same(f) == CHOOSE g \in {f} : g = g
<1>1. NextTrust(c, pre, nodes, t) = Same(new)
  BY DEF NextTrust, Tabulated
<1>2. PICK scale \in Nat \ {0}, alpha \in Int, rest \in Int :
        scale = Scale /\ alpha = Alpha /\ rest = Scale - Alpha
  <2>1. Scale \in Nat \ {0} /\ Alpha \in Int
    BY ParamsTyped
  <2>2. Scale - Alpha \in Int
    BY <2>1
  <2> QED
    BY <2>1, <2>2
<1>3. ASSUME NEW i \in nodes PROVE emitted(i) \in Int /\ (t[i] = 0 => emitted(i) = 0)
  <2>1. PICK x \in Int : x = t[i]
    BY DEF Trusts
  <2>2. rest * x \in Int /\ rest * 0 = 0
    OBVIOUS
  <2> QED
    BY <1>2, <2>1, <2>2, Quotient
<1> HIDE DEF emitted
<1>4. ASSUME NEW i \in nodes PROVE lost[i] \in Int
  <2>1. row(i) \in Int
    BY TotalIsSum
  <2> HIDE DEF row
  <2>2. PICK e \in Int, r \in Int : e = emitted(i) /\ r = row(i)
    BY <1>3, <2>1
  <2>3. e * (scale - r) \in Int
    BY <1>2
  <2> QED
    BY <1>2, <2>2, <2>3, Quotient
<1>5. leak \in Int
  <2> HIDE DEF lost
  <2> QED
    BY <1>4, TotalIsSum
<1> HIDE DEF leak, row
<1>6. ASSUME NEW k \in nodes, NEW i \in nodes
      PROVE  got(k)[i] \in Int /\ (k \in cold => got(k)[i] = 0)
  <2>1. PICK e \in Int, x \in Int : e = emitted(i) /\ x = c[i][k]
    BY <1>3
  <2>2. e * x \in Int /\ 0 * x = 0 /\ e * 0 = 0
    OBVIOUS
  <2>3. k \in cold => e = 0 \/ x = 0
    BY <1>3, <2>1 DEF Trusts
  <2>4. got(k)[i] = (e * x) \div scale
    BY <1>2, <2>1
  <2> HIDE DEF got
  <2> QED
    BY <1>2, <2>2, <2>3, <2>4, Quotient
<1>7. ASSUME NEW k \in nodes PROVE Total(got(k), nodes) \in Int /\ (k \in cold => Total(got(k), nodes) = 0)
  <2> HIDE DEF got
  <2> QED
    BY <1>6, TotalIsSum, TotalZero
<1> HIDE DEF got
<1>8. ASSUME NEW k \in nodes PROVE new[k] \in Int /\ (k \in cold => new[k] = 0)
  <2>1. PICK p \in Int, g \in Int, l \in Int : p = pre[k] /\ g = Total(got(k), nodes) /\ l = leak
    BY <1>5, <1>7 DEF Trusts
  <2>2. alpha * p \in Int /\ l * p \in Int /\ alpha * 0 = 0 /\ l * 0 = 0
    BY <1>2
  <2>3. (alpha * p) \div scale \in Int /\ (l * p) \div scale \in Int /\ 0 \div scale = 0
    BY <1>2, <2>2, Quotient
  <2>4. new[k] = (alpha * p) \div scale + g + (l * p) \div scale
    BY <1>2, <2>1
  <2>5. k \in cold => p = 0 /\ g = 0
    BY <1>7, <2>1 DEF Trusts
  <2> HIDE DEF new
  <2> QED
    BY <2>1, <2>2, <2>3, <2>4, <2>5
<1>9. new \in Trusts(nodes, cold)
  BY <1>8 DEF Trusts
<1> HIDE DEF new
<1>10. \A f : Same(f) = f
  OBVIOUS
<1> QED
  BY <1>1, <1>9, <1>10

LEMMA PretrustTyped ==
  ASSUME NEW nodes, IsFiniteSet(nodes), NEW ev \in [nodes -> Nat],
         NEW cold \in SUBSET nodes, \A k \in cold : ev[k] = 0
  PROVE  /\ Pretrust(ev, nodes) \in Trusts(nodes, cold)
         /\ Total(ev, nodes) = 0 => \A k \in nodes : Pretrust(ev, nodes)[k] = 0
<1> DEFINE total == Total(ev, nodes)
           pre == [n \in nodes |-> IF total = 0 THEN 0 ELSE (ev[n] * Scale + total \div 2) \div total]
           Same(f) == CHOOSE g \in {f} : g = g
<1>1. Pretrust(ev, nodes) = Same(pre)
  BY DEF Pretrust, Tabulated
<1>2. PICK scale \in Nat, sum \in Nat : scale = Scale /\ sum = total
  BY ParamsTyped, TotalNat
<1>3. ASSUME NEW k \in nodes
      PROVE  /\ pre[k] \in Int /\ (sum = 0 => pre[k] = 0) /\ (ev[k] = 0 => pre[k] = 0)
  <2>1. PICK e \in Nat : e = ev[k]
    OBVIOUS
  <2>2. pre[k] = IF sum = 0 THEN 0 ELSE (e * scale + sum \div 2) \div sum
    BY <1>2, <2>1
  <2>3. CASE sum # 0
    <3>1. PICK h \in Nat : h = sum \div 2 /\ h < sum
      BY <2>3
    <3>2. e * scale \in Nat /\ 0 * scale = 0
      OBVIOUS
    <3>3. h \div sum = 0
      <4>1. sum \in Nat \ {0} /\ 0 \in Nat /\ h \in 0..(sum - 1) /\ h = sum * 0 + h
        BY <2>3, <3>1
      <4> QED
        BY <4>1, Divided
    <3>4. PICK u \in Nat : u = e * scale + h
      BY <3>1, <3>2
    <3>5. u \div sum \in Int
      BY <2>3, <3>4
    <3>6. e = 0 => u = h
      BY <3>1, <3>2, <3>4
    <3> HIDE DEF pre
    <3> QED
      BY <2>1, <2>2, <2>3, <3>1, <3>3, <3>4, <3>5, <3>6
  <2>4. CASE sum = 0
    BY <2>2, <2>4
  <2> QED
    BY <2>3, <2>4
<1>4. pre \in Trusts(nodes, cold) /\ (total = 0 => \A k \in nodes : pre[k] = 0)
  <2> HIDE DEF total
  <2> QED
    BY <1>2, <1>3 DEF Trusts
<1> HIDE DEF pre
<1>5. \A f : Same(f) = f
  OBVIOUS
<1> QED
  BY <1>1, <1>4, <1>5

LEMMA FixpointStays ==
  ASSUME NEW c, NEW pre, NEW nodes, NEW V, pre \in V, \A t \in V : NextTrust(c, pre, nodes, t) \in V
  PROVE  Fixpoint(c, pre, nodes) \in V
<1> DEFINE T == [round \in 1..Iterations |-> round]
           Base == pre
           Step(s, x) == With(s, LAMBDA t : NextTrust(c, pre, nodes, t))
           iter == CHOOSE g : g = [S \in SUBSET DOMAIN T |->
                     IF S = {} THEN Base ELSE Step(g[S \ {Max(S)}], T[Max(S)])]
<1>1. PICK k \in Nat : DOMAIN T = 1..k
  BY ScaleAssumption
<1>2. Fixpoint(c, pre, nodes) = iter[DOMAIN T]
  BY DEF Fixpoint, FoldLeft, MapThenFoldSet
<1>3. \A i \in 1..k, s \in V : Step(s, T[i]) \in V
  <2> DEFINE F(t) == NextTrust(c, pre, nodes, t)
  <2>1. \A s, x : Step(s, x) = CHOOSE y \in {F(t) : t \in {s}} : TRUE
    BY DEF With
  <2> HIDE DEF F, Step
  <2>2. \A s : {F(t) : t \in {s}} = {F(s)} /\ (CHOOSE y \in {F(s)} : TRUE) = F(s)
    OBVIOUS
  <2>3. \A s, x : Step(s, x) = F(s)
    BY <2>1, <2>2
  <2> QED
    BY <2>3 DEF F
<1>m. \A S \in SUBSET (1..k) : S # {} => Max(S) \in 1..k
  BY LastIndex
<1>b. Base \in V
  OBVIOUS
<1> HIDE DEF T, Base, Step
<1> DEFINE step == [p \in (1..k) \X V |-> Step(p[2], T[p[1]])]
<1>4. step \in [(1..k) \X V -> V] /\ \A i \in 1..k, s \in V : step[<<i, s>>] = Step(s, T[i])
  BY <1>3
<1> HIDE DEF step
<1>5. PICK g : SequenceFoldsInto(g, step, Base, k, V)
  BY <1>b, <1>4, SequenceFoldSolvable
<1>6. g = [S \in SUBSET (1..k) |-> IF S = {} THEN Base ELSE Step(g[S \ {Max(S)}], T[Max(S)])]
  <2>1. \A S \in SUBSET (1..k) : S # {} =>
          step[<<Max(S), g[S \ {Max(S)}]>>] = Step(g[S \ {Max(S)}], T[Max(S)])
    BY <1>m, <1>4, <1>5 DEF SequenceFoldsInto
  <2> QED
    BY <1>5, <2>1 DEF SequenceFoldsInto
<1>7. iter = [S \in SUBSET (1..k) |-> IF S = {} THEN Base ELSE Step(iter[S \ {Max(S)}], T[Max(S)])]
  BY <1>1, <1>6
<1> HIDE DEF iter
<1>8. \A S \in SUBSET (1..k) : S # {} /\ iter[S \ {Max(S)}] \in V => iter[S] \in V
  BY <1>m, <1>3, <1>7
<1>9. iter[{}] \in V
  BY <1>b, <1>7
<1>10. iter[1..k] \in V
  BY <1>8, <1>9, SequenceFoldStays
<1> QED
  BY <1>1, <1>2, <1>10

LEMMA RelabelAllStays ==
  ASSUME NEW w, NEW nodes, IsFiniteSet(nodes), NEW label, NEW V, label \in V,
         \A l \in V, n \in nodes : Relabel(w, nodes, l, n) \in V,
         \A n : n \notin nodes => \A l \in V : Relabel(w, nodes, l, n) = l
  PROVE  RelabelAll(w, nodes, label) \in V
<1> DEFINE T == Ascending(nodes)
           Base == label
           Step(s, x) == With(s, LAMBDA l : Relabel(w, nodes, l, x))
           iter == CHOOSE g : g = [S \in SUBSET DOMAIN T |->
                     IF S = {} THEN Base ELSE Step(g[S \ {Max(S)}], T[Max(S)])]
<1>1. PICK k \in Nat : DOMAIN T = 1..k
  BY FS_CardinalityType DEF Ascending
<1>2. RelabelAll(w, nodes, label) = iter[DOMAIN T]
  BY DEF RelabelAll, FoldLeft, MapThenFoldSet
<1>3. \A i \in 1..k, s \in V : Step(s, T[i]) \in V
  <2> DEFINE F(l, x) == Relabel(w, nodes, l, x)
  <2>1. \A s, x : Step(s, x) = CHOOSE y \in {F(l, x) : l \in {s}} : TRUE
    BY DEF With
  <2>a. \A l \in V : \A x : F(l, x) \in V
    OBVIOUS
  <2> HIDE DEF F, Step
  <2>2. \A s, x : {F(l, x) : l \in {s}} = {F(s, x)} /\ (CHOOSE y \in {F(s, x)} : TRUE) = F(s, x)
    OBVIOUS
  <2>3. \A s, x : Step(s, x) = F(s, x)
    BY <2>1, <2>2
  <2> QED
    BY <2>a, <2>3
<1>m. \A S \in SUBSET (1..k) : S # {} => Max(S) \in 1..k
  BY LastIndex
<1>b. Base \in V
  OBVIOUS
<1> HIDE DEF T, Base, Step
<1> DEFINE step == [p \in (1..k) \X V |-> Step(p[2], T[p[1]])]
<1>4. step \in [(1..k) \X V -> V] /\ \A i \in 1..k, s \in V : step[<<i, s>>] = Step(s, T[i])
  BY <1>3
<1> HIDE DEF step
<1>5. PICK g : SequenceFoldsInto(g, step, Base, k, V)
  BY <1>b, <1>4, SequenceFoldSolvable
<1>6. g = [S \in SUBSET (1..k) |-> IF S = {} THEN Base ELSE Step(g[S \ {Max(S)}], T[Max(S)])]
  <2>1. \A S \in SUBSET (1..k) : S # {} =>
          step[<<Max(S), g[S \ {Max(S)}]>>] = Step(g[S \ {Max(S)}], T[Max(S)])
    BY <1>m, <1>4, <1>5 DEF SequenceFoldsInto
  <2> QED
    BY <1>5, <2>1 DEF SequenceFoldsInto
<1>7. iter = [S \in SUBSET (1..k) |-> IF S = {} THEN Base ELSE Step(iter[S \ {Max(S)}], T[Max(S)])]
  BY <1>1, <1>6
<1> HIDE DEF iter
<1>8. \A S \in SUBSET (1..k) : S # {} /\ iter[S \ {Max(S)}] \in V => iter[S] \in V
  BY <1>m, <1>3, <1>7
<1>9. iter[{}] \in V
  BY <1>b, <1>7
<1>10. iter[1..k] \in V
  BY <1>8, <1>9, SequenceFoldStays
<1> QED
  BY <1>1, <1>2, <1>10

LEMMA CommunitiesStay ==
  ASSUME NEW w, NEW nodes, NEW V, [n \in nodes |-> n] \in V,
         \A l \in V : RelabelAll(w, nodes, l) \in V
  PROVE  Communities(w, nodes) \in V
<1> DEFINE T == [round \in 1..15 |-> round]
           Base == Tabulated(LAMBDA n : n, nodes)
           Step(s, x) == With(s, LAMBDA l : RelabelAll(w, nodes, l))
           iter == CHOOSE g : g = [S \in SUBSET DOMAIN T |->
                     IF S = {} THEN Base ELSE Step(g[S \ {Max(S)}], T[Max(S)])]
<1>1. PICK k \in Nat : DOMAIN T = 1..k
  OBVIOUS
<1>2. Communities(w, nodes) = iter[DOMAIN T]
  BY DEF Communities, FoldLeft, MapThenFoldSet
<1>3. \A i \in 1..k, s \in V : Step(s, T[i]) \in V
  <2> DEFINE F(l) == RelabelAll(w, nodes, l)
  <2>1. \A s, x : Step(s, x) = CHOOSE y \in {F(l) : l \in {s}} : TRUE
    BY DEF With
  <2> HIDE DEF F, Step
  <2>2. \A s : {F(l) : l \in {s}} = {F(s)} /\ (CHOOSE y \in {F(s)} : TRUE) = F(s)
    OBVIOUS
  <2>3. \A s, x : Step(s, x) = F(s)
    BY <2>1, <2>2
  <2> QED
    BY <2>3 DEF F
<1>m. \A S \in SUBSET (1..k) : S # {} => Max(S) \in 1..k
  BY LastIndex
<1>b. Base \in V
  <2> DEFINE own == [n \in nodes |-> n]
  <2>1. Base = CHOOSE f \in {own} : f = f
    BY DEF Tabulated
  <2>2. own \in V
    OBVIOUS
  <2> HIDE DEF own
  <2> QED
    BY <2>1, <2>2
<1> HIDE DEF T, Base, Step
<1> DEFINE step == [p \in (1..k) \X V |-> Step(p[2], T[p[1]])]
<1>4. step \in [(1..k) \X V -> V] /\ \A i \in 1..k, s \in V : step[<<i, s>>] = Step(s, T[i])
  BY <1>3
<1> HIDE DEF step
<1>5. PICK g : SequenceFoldsInto(g, step, Base, k, V)
  BY <1>b, <1>4, SequenceFoldSolvable
<1>6. g = [S \in SUBSET (1..k) |-> IF S = {} THEN Base ELSE Step(g[S \ {Max(S)}], T[Max(S)])]
  <2>1. \A S \in SUBSET (1..k) : S # {} =>
          step[<<Max(S), g[S \ {Max(S)}]>>] = Step(g[S \ {Max(S)}], T[Max(S)])
    BY <1>m, <1>4, <1>5 DEF SequenceFoldsInto
  <2> QED
    BY <1>5, <2>1 DEF SequenceFoldsInto
<1>7. iter = [S \in SUBSET (1..k) |-> IF S = {} THEN Base ELSE Step(iter[S \ {Max(S)}], T[Max(S)])]
  BY <1>1, <1>6
<1> HIDE DEF iter
<1>8. \A S \in SUBSET (1..k) : S # {} /\ iter[S \ {Max(S)}] \in V => iter[S] \in V
  BY <1>m, <1>3, <1>7
<1>9. iter[{}] \in V
  BY <1>b, <1>7
<1>10. iter[1..k] \in V
  BY <1>8, <1>9, SequenceFoldStays
<1> QED
  BY <1>1, <1>2, <1>10

LEMMA RelabelTyped ==
  ASSUME NEW w, NEW nodes \in SUBSET Nat, IsFiniteSet(nodes)
  PROVE  /\ \A l \in [nodes -> nodes], n \in nodes : Relabel(w, nodes, l, n) \in [nodes -> nodes]
         /\ \A n : n \notin nodes => \A l \in [nodes -> nodes] : Relabel(w, nodes, l, n) = l
<1>1. ASSUME NEW label \in [nodes -> nodes], NEW n \in nodes, Adjacent(w, nodes, n) # {}
      PROVE  BestLabel(w, nodes, label, n) \in nodes
  <2> DEFINE adj == Adjacent(w, nodes, n)
             voters(l) == {m \in adj : label[m] = l}
             votes(l) == Cardinality(voters(l))
             labels == {label[m] : m \in adj}
             best == {l \in labels : \A k \in labels : votes(k) <= votes(l)}
  <2>1. adj \in SUBSET nodes
    BY DEF Adjacent
  <2>2. IsFiniteSet(adj) /\ Cardinality(adj) \in Nat
    BY <2>1, FS_Subset, FS_CardinalityType
  <2>3. PICK most \in Nat : most = Cardinality(adj)
    BY <2>2
  <2>4. \A l : votes(l) \in 0..most
    <3> TAKE l
    <3>1. voters(l) \in SUBSET adj
      OBVIOUS
    <3> HIDE DEF voters
    <3> QED
      BY <2>2, <2>3, <3>1, FS_Subset, FS_CardinalityType
  <2>5. labels \in SUBSET nodes /\ labels # {}
    BY <1>1, <2>1
  <2> HIDE DEF votes, voters
  <2> DEFINE counts == {votes(l) : l \in labels}
  <2>6. counts \in SUBSET (0..most) /\ counts # {}
    BY <2>4, <2>5
  <2>7. Max(counts) \in counts /\ \A x \in counts : x =< Max(counts)
    <3> HIDE DEF counts
    <3> QED
      BY <2>6, GreatestBelongs
  <2>8. PICK l \in labels : votes(l) = Max(counts)
    BY <2>7
  <2>9. l \in best
    BY <2>7, <2>8
  <2>10. best \in SUBSET Nat /\ best \in SUBSET nodes
    BY <2>5
  <2>11. BestLabel(w, nodes, label, n) = Min(best)
    BY DEF BestLabel, votes, voters
  <2> HIDE DEF best, labels, adj
  <2> QED
    BY <2>9, <2>10, <2>11, LeastBelongs
<1>2. \A l \in [nodes -> nodes], n \in nodes : Relabel(w, nodes, l, n) \in [nodes -> nodes]
  BY <1>1 DEF Relabel
<1>3. \A n : n \notin nodes => \A l \in [nodes -> nodes] : Relabel(w, nodes, l, n) = l
  <2> TAKE n
  <2> HAVE n \notin nodes
  <2> TAKE l \in [nodes -> nodes]
  <2>1. [l EXCEPT ![n] = BestLabel(w, nodes, l, n)] = l
    OBVIOUS
  <2> QED
    BY <2>1 DEF Relabel
<1> QED
  BY <1>2, <1>3

LEMMA CommunitiesTyped ==
  ASSUME NEW w, NEW nodes \in SUBSET Nat, IsFiniteSet(nodes)
  PROVE  Communities(w, nodes) \in [nodes -> nodes]
<1>1. PICK V : V = [nodes -> nodes]
  OBVIOUS
<1>2. [n \in nodes |-> n] \in V
  BY <1>1
<1>3. (\A l \in V, n \in nodes : Relabel(w, nodes, l, n) \in V)
      /\ (\A n : n \notin nodes => \A l \in V : Relabel(w, nodes, l, n) = l)
  BY <1>1, RelabelTyped
<1>4. \A l \in V : RelabelAll(w, nodes, l) \in V
  BY <1>3, RelabelAllStays
<1> QED
  BY <1>1, <1>2, <1>4, CommunitiesStay

LEMMA PositiveQuotient ==
  ASSUME NEW a \in Nat, NEW b \in Nat
  PROVE  FpDiv(a, Scale + b) \in Nat
<1>1. PICK c \in Nat \ {0} : c = Scale + b
  <2>1. PICK scale \in Nat \ {0} : scale = Scale
    BY ParamsTyped
  <2>2. scale + b \in Nat \ {0}
    OBVIOUS
  <2> QED
    BY <2>1, <2>2
<1> QED
  BY <1>1, FixedPoint

LEMMA IndependenceTyped ==
  ASSUME NEW nodes, IsFiniteSet(nodes), NEW w, NEW i, NEW j
  PROVE  Independence(w, i, j, nodes) \in Nat
<1> DEFINE ni == OutNeighbours(w, i, nodes) \ {j}
           nj == OutNeighbours(w, j, nodes) \ {i}
           reciprocal == IF w[<<j, i>>] > 0 THEN Scale ELSE 0
           overlap == IF ni \union nj = {} THEN 0
                      ELSE (Cardinality(ni \intersect nj) * Scale) \div Cardinality(ni \union nj)
<1>1. PICK scale \in Nat : scale = Scale
  BY ParamsTyped
<1>2. reciprocal \in Nat
  BY <1>1
<1>3. overlap \in Nat
  <2>1. ni \in SUBSET nodes /\ nj \in SUBSET nodes
    BY DEF OutNeighbours
  <2> HIDE DEF ni, nj
  <2>2. ni \union nj \in SUBSET nodes /\ ni \intersect nj \in SUBSET nodes
    BY <2>1
  <2>3. IsFiniteSet(ni \union nj) /\ IsFiniteSet(ni \intersect nj)
    BY <2>2, FS_Subset
  <2>4. PICK both \in Nat, either \in Nat :
          both = Cardinality(ni \intersect nj) /\ either = Cardinality(ni \union nj)
    BY <2>3, FS_CardinalityType
  <2>5. ni \union nj # {} => either \in Nat \ {0}
    BY <2>3, <2>4, FS_EmptySet
  <2>6. both * scale \in Nat
    OBVIOUS
  <2> QED
    BY <1>1, <2>4, <2>5, <2>6, Quotient
<1> HIDE DEF reciprocal, overlap
<1>4. PICK a \in Nat, b \in Nat : a = FpMul(Beta, reciprocal) /\ b = FpMul(Gamma, overlap)
  BY <1>2, <1>3, ParamsTyped, FixedPoint
<1>5. PICK c \in Nat : c = a + b /\ Scale + a + b = Scale + c
  <2>1. a + b \in Nat /\ scale + a + b = scale + (a + b)
    OBVIOUS
  <2> QED
    BY <1>1, <2>1
<1>6. Independence(w, i, j, nodes) = FpDiv(Scale, Scale + FpMul(Beta, reciprocal) + FpMul(Gamma, overlap))
  BY DEF Independence, reciprocal, overlap
<1>7. Independence(w, i, j, nodes) = FpDiv(scale, Scale + c)
  BY <1>1, <1>4, <1>5, <1>6
<1> QED
  BY <1>1, <1>5, <1>7, PositiveQuotient

\* The graph of vouches of one suit: the sums of the weights.
Vouched(nodes) == [nodes \X nodes -> Nat]

LEMMA SuspicionTyped ==
  ASSUME NEW nodes, IsFiniteSet(nodes), NEW w \in Vouched(nodes), NEW label \in [nodes -> nodes],
         NEW allEv \in [nodes -> Nat], NEW i \in nodes
  PROVE  Suspicion(w, nodes, label, allEv)[label[i]] \in Nat
<1> DEFINE members(c) == {n \in nodes : label[n] = c}
           internal(c) == Cardinality({e \in members(c) \X members(c) : w[e] > 0})
           susp == [c \in Range(label) |->
                      FpDiv(internal(c) * Scale, Scale + Total(allEv, members(c)) * Scale)]
           Same(f) == CHOOSE g \in {f} : g = g
<1>1. Suspicion(w, nodes, label, allEv) = Same(susp)
  BY DEF Suspicion, Tabulated
<1>2. label[i] \in Range(label)
  BY DEF Range
<1>3. PICK scale \in Nat : scale = Scale
  BY ParamsTyped
<1>4. PICK c : c = label[i]
  OBVIOUS
<1>5. PICK within \in Nat : within = internal(c)
  <2> DEFINE inside == {e \in members(c) \X members(c) : w[e] > 0}
  <2>1. inside \in SUBSET (nodes \X nodes)
    OBVIOUS
  <2>2. IsFiniteSet(nodes \X nodes)
    BY FS_Product
  <2> HIDE DEF inside
  <2>3. Cardinality(inside) \in Nat
    BY <2>1, <2>2, FS_Subset, FS_CardinalityType
  <2> QED
    BY <2>3 DEF inside
<1>6. PICK held \in Nat : held = Total(allEv, members(c))
  <2>1. members(c) \in SUBSET nodes
    OBVIOUS
  <2> HIDE DEF members
  <2>2. IsFiniteSet(members(c)) /\ \A x \in members(c) : allEv[x] \in Nat
    BY <2>1, FS_Subset
  <2> QED
    BY <2>2, TotalNat
<1>7. susp[c] = FpDiv(internal(c) * Scale, Scale + Total(allEv, members(c)) * Scale)
  BY <1>2, <1>4
<1> HIDE DEF internal, members, susp
<1>8. PICK a \in Nat, b \in Nat : a = within * scale /\ b = held * scale
  <2>1. within * scale \in Nat /\ held * scale \in Nat
    OBVIOUS
  <2> QED
    BY <2>1
<1>9. susp[c] = FpDiv(a, Scale + b)
  BY <1>3, <1>5, <1>6, <1>7, <1>8
<1>10. susp[c] \in Nat
  BY <1>9, PositiveQuotient
<1>11. Same(susp) = susp
  OBVIOUS
<1> HIDE DEF Same
<1> QED
  BY <1>1, <1>4, <1>10, <1>11

LEMMA InConcentrationTyped ==
  ASSUME NEW nodes, IsFiniteSet(nodes), NEW w \in Vouched(nodes), NEW label \in [nodes -> nodes],
         NEW i \in nodes, NEW j \in nodes, w[<<i, j>>] > 0
  PROVE  LET inc == InConcentration(w, nodes, label, j)
         IN  inc.conc \in Nat /\ inc.gate \in Nat /\ inc.shares[label[i]] \in Nat
<1> DEFINE sources == {s \in nodes : w[<<s, j>>] > 0}
           come == [s \in nodes |-> w[<<s, j>>] * Scale]
           weight(S) == Total([s \in S |-> w[<<s, j>>] * Scale], S)
           from(c) == {s \in sources : label[s] = c}
           groups == {label[s] : s \in sources}
           shares == [c \in groups |-> FpDiv(weight(from(c)), weight(sources))]
           squares == [c \in DOMAIN shares |-> FpMul(shares[c], shares[c])]
           n == Cardinality(sources) * Scale
           Same(f) == CHOOSE g \in {f} : g = g
<1>1. InConcentration(w, nodes, label, j) =
        [conc   |-> Total([c \in DOMAIN Same(shares) |-> FpMul(Same(shares)[c], Same(shares)[c])],
                          DOMAIN Same(shares)),
         gate   |-> FpDiv(n, n + K0),
         shares |-> Same(shares)]
  BY DEF InConcentration, Tabulated
<1>2. Same(shares) = shares
  OBVIOUS
<1> HIDE DEF Same
<1>3. InConcentration(w, nodes, label, j) =
        [conc |-> Total(squares, DOMAIN shares), gate |-> FpDiv(n, n + K0), shares |-> shares]
  BY <1>1, <1>2
<1>4. PICK scale \in Nat \ {0} : scale = Scale
  BY ParamsTyped
<1>5. sources \in SUBSET nodes /\ i \in sources /\ IsFiniteSet(sources)
  <2>1. sources \in SUBSET nodes /\ i \in sources
    OBVIOUS
  <2> HIDE DEF sources
  <2> QED
    BY <2>1, FS_Subset
<1>6. ASSUME NEW S \in SUBSET sources
      PROVE  IsFiniteSet(S) /\ weight(S) \in Nat /\ (i \in S => weight(S) # 0)
  <2> DEFINE v == [s \in S |-> w[<<s, j>>] * Scale]
  <2>1. IsFiniteSet(S) /\ S \in SUBSET nodes
    BY <1>5, FS_Subset
  <2>2. \A s \in S : v[s] \in Nat
    <3> TAKE s \in S
    <3>1. <<s, j>> \in nodes \X nodes
      BY <2>1
    <3>2. PICK x \in Nat : x = w[<<s, j>>]
      BY <3>1 DEF Vouched
    <3>3. x * scale \in Nat
      OBVIOUS
    <3> QED
      BY <1>4, <3>2, <3>3
  <2>3. i \in S => v[i] > 0
    <3>1. PICK x \in Nat : x = w[<<i, j>>]
      BY DEF Vouched
    <3>2. x * scale > 0
      BY <1>4, <3>1
    <3> QED
      BY <1>4, <3>1, <3>2
  <2> HIDE DEF v
  <2>4. Total(v, S) \in Nat
    BY <2>1, <2>2, TotalNat
  <2>5. i \in S => v[i] =< Total(v, S)
    BY <2>1, <2>2, TotalAtLeast
  <2>6. i \in S => Total(v, S) # 0
    BY <2>2, <2>3, <2>4, <2>5
  <2> QED
    BY <2>1, <2>4, <2>6 DEF v
<1>7. PICK all \in Nat \ {0} : all = weight(sources)
  BY <1>5, <1>6
<1> HIDE DEF weight
<1>8. \A c \in groups : shares[c] \in Nat
  <2> TAKE c \in groups
  <2>1. from(c) \in SUBSET sources
    OBVIOUS
  <2>2. shares[c] = FpDiv(weight(from(c)), weight(sources))
    OBVIOUS
  <2> HIDE DEF from, shares, sources
  <2>3. weight(from(c)) \in Nat
    BY <1>6, <2>1
  <2> QED
    BY <1>7, <2>2, <2>3, FixedPoint
<1>9. DOMAIN shares = groups /\ label[i] \in groups
  BY <1>5
<1>10. IsFiniteSet(groups)
  <2>1. groups \in SUBSET nodes
    BY <1>5
  <2> HIDE DEF groups
  <2> QED
    BY <2>1, FS_Subset
<1> HIDE DEF shares, groups
<1>11. \A c \in groups : squares[c] \in Nat
  BY <1>8, <1>9, FixedPoint
<1> HIDE DEF squares
<1>12. Total(squares, groups) \in Nat
  BY <1>10, <1>11, TotalNat
<1>13. FpDiv(n, n + K0) \in Nat
  <2> HIDE DEF sources
  <2>1. PICK k \in Nat \ {0} : k = Cardinality(sources)
    <3>1. Cardinality(sources) \in Nat /\ Cardinality(sources) # 0
      BY <1>5, FS_CardinalityType, FS_EmptySet
    <3> QED
      BY <3>1
  <2>2. PICK m \in Nat \ {0} : m = k * scale
    <3>1. k * scale \in Nat \ {0}
      OBVIOUS
    <3> QED
      BY <3>1
  <2>3. PICK k0 \in Nat : k0 = K0
    BY ParamsTyped
  <2>4. m + k0 \in Nat \ {0}
    OBVIOUS
  <2>5. n = m
    BY <1>4, <2>1, <2>2
  <2> HIDE DEF n
  <2> QED
    BY <2>3, <2>4, <2>5, FixedPoint
<1> HIDE DEF n
<1> QED
  BY <1>3, <1>8, <1>9, <1>12, <1>13

LEMMA DampedTyped ==
  ASSUME NEW nodes, IsFiniteSet(nodes), NEW w \in Vouched(nodes), NEW label \in [nodes -> nodes],
         NEW susp, NEW ev \in [nodes -> Nat], NEW i \in nodes, NEW j \in nodes,
         susp[label[i]] \in Nat, w[<<i, j>>] > 0
  PROVE  Damped(w, nodes, label, susp, ev, i, j) \in Nat
<1> DEFINE brake == IF label[i] = label[j]
                    THEN FpDiv(Scale, Scale + FpMul(Kappa, susp[label[i]]))
                    ELSE Scale
           inc == InConcentration(w, nodes, label, j)
           deficit == FpDiv(Scale, Scale + FpMul(Rho, ev[j] * Scale))
           inner == FpMul(FpMul(FpMul(FpMul(inc.conc, inc.conc),
                                      inc.shares[label[i]]), inc.gate), deficit)
           funnel == FpDiv(Scale, Scale + FpMul(Mu, inner))
           free == Independence(w, i, j, nodes)
<1>1. PICK scale \in Nat : scale = Scale
  BY ParamsTyped
<1>2. Kappa \in Nat /\ Rho \in Nat /\ Mu \in Nat
  BY ParamsTyped
<1>3. brake \in Nat
  <2>1. PICK x \in Nat : x = FpMul(Kappa, susp[label[i]])
    BY <1>2, FixedPoint
  <2>2. FpDiv(scale, Scale + x) \in Nat
    BY <2>1, PositiveQuotient
  <2> QED
    BY <1>1, <2>1, <2>2
<1>4. deficit \in Nat
  <2>1. PICK e \in Nat : e = ev[j]
    OBVIOUS
  <2>2. PICK s \in Nat : s = e * scale
    <3>1. e * scale \in Nat
      OBVIOUS
    <3> QED
      BY <3>1
  <2>3. PICK x \in Nat : x = FpMul(Rho, s)
    BY <1>2, FixedPoint
  <2>4. FpDiv(scale, Scale + x) \in Nat
    BY <2>3, PositiveQuotient
  <2> QED
    BY <1>1, <2>1, <2>2, <2>3, <2>4
<1>5. inc.conc \in Nat /\ inc.gate \in Nat /\ inc.shares[label[i]] \in Nat
  BY InConcentrationTyped
<1>6. free \in Nat
  BY IndependenceTyped
<1> HIDE DEF brake, inc, deficit, free
<1>7. inner \in Nat
  <2>1. PICK a \in Nat : a = FpMul(inc.conc, inc.conc)
    BY <1>5, FixedPoint
  <2>2. PICK b \in Nat : b = FpMul(a, inc.shares[label[i]])
    BY <1>5, FixedPoint
  <2>3. PICK c \in Nat : c = FpMul(b, inc.gate)
    BY <1>5, FixedPoint
  <2>4. FpMul(c, deficit) \in Nat
    BY <1>4, FixedPoint
  <2> QED
    BY <2>1, <2>2, <2>3, <2>4
<1> HIDE DEF inner
<1>8. funnel \in Nat
  <2>1. PICK x \in Nat : x = FpMul(Mu, inner)
    BY <1>2, <1>7, FixedPoint
  <2>2. FpDiv(scale, Scale + x) \in Nat
    BY <2>1, PositiveQuotient
  <2> QED
    BY <1>1, <2>1, <2>2
<1> HIDE DEF funnel
<1>9. FpMul(FpMul(free, brake), funnel) \in Nat
  <2>1. PICK x \in Nat : x = FpMul(free, brake)
    BY <1>3, <1>6, FixedPoint
  <2>2. FpMul(x, funnel) \in Nat
    BY <1>8, FixedPoint
  <2> QED
    BY <2>1, <2>2
<1> QED
  BY <1>9 DEF Damped, brake, inc, deficit, inner, funnel, free

LEMMA MatrixFollowsVouches ==
  ASSUME NEW nodes \in SUBSET Nat, IsFiniteSet(nodes), NEW w \in Vouched(nodes),
         NEW ev \in [nodes -> Nat], NEW allEv \in [nodes -> Nat]
  PROVE  LET c == DampedLocalMatrix(w, nodes, ev, allEv)
         IN  /\ c \in [nodes -> [nodes -> Int]]
             /\ \A i, j \in nodes : w[<<i, j>>] = 0 => c[i][j] = 0
<1> DEFINE out(i) == Total([j \in nodes |-> w[<<i, j>>]], nodes)
           entry(label, susp, i, j) ==
             IF w[<<i, j>>] = 0 THEN 0
             ELSE FpMul(FpDiv(w[<<i, j>>] * Scale, out(i) * Scale),
                        Damped(w, nodes, label, susp, ev, i, j))
           Same(f) == CHOOSE g \in {f} : g = g
           Matrix(label, susp) == Same([i \in nodes |-> Same([j \in nodes |-> entry(label, susp, i, j)])])
           Judged(label) == CHOOSE y \in {Matrix(label, s) : s \in {Suspicion(w, nodes, label, allEv)}} : TRUE
           label == Communities(w, nodes)
           susp == Suspicion(w, nodes, label, allEv)
<1>1. DampedLocalMatrix(w, nodes, ev, allEv) = CHOOSE y \in {Judged(l) : l \in {label}} : TRUE
  BY DEF DampedLocalMatrix, With, Tabulated
<1>2. \A f : Same(f) = f
  OBVIOUS
<1>3. label \in [nodes -> nodes]
  BY CommunitiesTyped
<1> HIDE DEF Same, label
<1>4. \A i \in nodes : susp[label[i]] \in Nat
  BY <1>3, SuspicionTyped
<1>5. PICK scale \in Nat \ {0} : scale = Scale
  BY ParamsTyped
<1>6. ASSUME NEW i \in nodes, NEW j \in nodes PROVE entry(label, susp, i, j) \in Nat
  <2> HIDE DEF susp
  <2>1. PICK x \in Nat : x = w[<<i, j>>]
    BY DEF Vouched
  <2>2. CASE x = 0
    BY <2>1, <2>2
  <2>3. CASE x # 0
    <3> DEFINE v == [k \in nodes |-> w[<<i, k>>]]
    <3>1. \A k \in nodes : v[k] \in Nat
      BY DEF Vouched
    <3>2. v[j] = x
      BY <2>1
    <3> HIDE DEF v
    <3>3. PICK all \in Nat \ {0} : all = Total(v, nodes)
      <4>1. Total(v, nodes) \in Nat /\ x =< Total(v, nodes)
        BY <3>1, <3>2, TotalAtLeast
      <4> QED
        BY <2>3, <4>1
    <3>4. PICK a \in Nat, b \in Nat \ {0} : a = x * scale /\ b = all * scale
      <4>1. x * scale \in Nat /\ all * scale \in Nat \ {0}
        OBVIOUS
      <4> QED
        BY <4>1
    <3>5. PICK q \in Nat : q = FpDiv(a, b)
      BY FixedPoint
    <3>6. Damped(w, nodes, label, susp, ev, i, j) \in Nat
      <4>1. w[<<i, j>>] > 0
        BY <2>1, <2>3
      <4>2. susp[label[i]] \in Nat
        BY <1>4
      <4>3. label \in [nodes -> nodes]
        BY <1>3
      <4> QED
        BY <4>1, <4>2, <4>3, DampedTyped
    <3>7. FpMul(q, Damped(w, nodes, label, susp, ev, i, j)) \in Nat
      BY <3>6, FixedPoint
    <3>8. entry(label, susp, i, j) = FpMul(q, Damped(w, nodes, label, susp, ev, i, j))
      BY <1>5, <2>1, <2>3, <3>3, <3>4, <3>5 DEF v
    <3> HIDE DEF entry
    <3> QED
      BY <3>7, <3>8
  <2> QED
    BY <2>2, <2>3
<1>7. \A i, j \in nodes : w[<<i, j>>] = 0 => entry(label, susp, i, j) = 0
  OBVIOUS
<1> HIDE DEF entry
<1>8. Matrix(label, susp) = [i \in nodes |-> [j \in nodes |-> entry(label, susp, i, j)]]
  BY <1>2
<1> HIDE DEF Matrix
<1>9. \A l : Judged(l) = Matrix(l, Suspicion(w, nodes, l, allEv))
  OBVIOUS
<1> HIDE DEF Judged
<1>10. DampedLocalMatrix(w, nodes, ev, allEv) = Judged(label)
  BY <1>1
<1>11. DampedLocalMatrix(w, nodes, ev, allEv) = [i \in nodes |-> [j \in nodes |-> entry(label, susp, i, j)]]
  BY <1>8, <1>9, <1>10
<1> HIDE DEF susp
<1> QED
  BY <1>6, <1>7, <1>11

\* Where the evidence and the vouches of all others stay among them, the cold
\* have no standing.
LEMMA ColdHaveNoStanding ==
  ASSUME NEW nodes \in SUBSET Nat, IsFiniteSet(nodes), NEW w \in Vouched(nodes),
         NEW ev \in [nodes -> Nat], NEW allEv \in [nodes -> Nat], NEW cold \in SUBSET nodes,
         \A k \in cold : ev[k] = 0, \A i \in nodes \ cold, k \in cold : w[<<i, k>>] = 0
  PROVE  \A k \in cold : ReputationDimension(w, nodes, ev, allEv)[k] = 0
<1> DEFINE pre == Pretrust(ev, nodes)
           c == DampedLocalMatrix(w, nodes, ev, allEv)
           Ends(p) == CHOOSE y \in {Fixpoint(d, p, nodes) : d \in {c}} : TRUE
           Starts(p) == IF Total(ev, nodes) = 0 THEN p ELSE Ends(p)
<1>1. ReputationDimension(w, nodes, ev, allEv) = CHOOSE y \in {Starts(p) : p \in {pre}} : TRUE
  BY DEF ReputationDimension, With
<1>2. \A p : Ends(p) = Fixpoint(c, p, nodes)
  OBVIOUS
<1> HIDE DEF Ends
<1>3. {Starts(p) : p \in {pre}} = {Starts(pre)} /\ (CHOOSE y \in {Starts(pre)} : TRUE) = Starts(pre)
  OBVIOUS
<1> HIDE DEF Starts
<1>4. ReputationDimension(w, nodes, ev, allEv) = IF Total(ev, nodes) = 0 THEN pre ELSE Fixpoint(c, pre, nodes)
  BY <1>1, <1>2, <1>3 DEF Starts
<1>5. PICK V : V = Trusts(nodes, cold)
  OBVIOUS
<1>6. pre \in Trusts(nodes, cold)
  BY PretrustTyped
<1>7. c \in [nodes -> [nodes -> Int]] /\ \A i \in nodes \ cold, k \in cold : c[i][k] = 0
  <2>1. /\ c \in [nodes -> [nodes -> Int]]
        /\ \A i, j \in nodes : w[<<i, j>>] = 0 => c[i][j] = 0
    BY MatrixFollowsVouches
  <2> HIDE DEF c
  <2> QED
    BY <2>1
<1> HIDE DEF pre, c
<1>8. \A t \in V : NextTrust(c, pre, nodes, t) \in V
  BY <1>5, <1>6, <1>7, NextTrustKeeps
<1>9. Fixpoint(c, pre, nodes) \in V
  BY <1>5, <1>6, <1>8, FixpointStays
<1> QED
  BY <1>4, <1>5, <1>6, <1>9 DEF Trusts

Vouching == [target : Masks, suit : Suits, weight : Nat]

LEMMA WeightStays ==
  ASSUME NEW edges, NEW target, NEW suit, NEW k \in Nat, DOMAIN edges = 1..k, NEW V, 0 \in V,
         \A i \in 1..k, w \in V :
           (IF edges[i].target = target /\ edges[i].suit = suit THEN w + edges[i].weight ELSE w) \in V
  PROVE  Weight(edges, target, suit) \in V
<1> DEFINE T == edges
           Base == 0
           Step(s, x) == IF x.target = target /\ x.suit = suit THEN s + x.weight ELSE s
           iter == CHOOSE g : g = [S \in SUBSET DOMAIN T |->
                     IF S = {} THEN Base ELSE Step(g[S \ {Max(S)}], T[Max(S)])]
<1>1. DOMAIN T = 1..k
  OBVIOUS
<1>2. Weight(edges, target, suit) = iter[DOMAIN T]
  BY DEF Weight, FoldLeft, MapThenFoldSet
<1>3. \A i \in 1..k, s \in V : Step(s, T[i]) \in V
  OBVIOUS
<1>m. \A S \in SUBSET (1..k) : S # {} => Max(S) \in 1..k
  BY LastIndex
<1>b. Base \in V
  OBVIOUS
<1> HIDE DEF T, Base, Step
<1> DEFINE step == [p \in (1..k) \X V |-> Step(p[2], T[p[1]])]
<1>4. step \in [(1..k) \X V -> V] /\ \A i \in 1..k, s \in V : step[<<i, s>>] = Step(s, T[i])
  BY <1>3
<1> HIDE DEF step
<1>5. PICK g : SequenceFoldsInto(g, step, Base, k, V)
  BY <1>b, <1>4, SequenceFoldSolvable
<1>6. g = [S \in SUBSET (1..k) |-> IF S = {} THEN Base ELSE Step(g[S \ {Max(S)}], T[Max(S)])]
  <2>1. \A S \in SUBSET (1..k) : S # {} =>
          step[<<Max(S), g[S \ {Max(S)}]>>] = Step(g[S \ {Max(S)}], T[Max(S)])
    BY <1>m, <1>4, <1>5 DEF SequenceFoldsInto
  <2> QED
    BY <1>5, <2>1 DEF SequenceFoldsInto
<1>7. iter = [S \in SUBSET (1..k) |-> IF S = {} THEN Base ELSE Step(iter[S \ {Max(S)}], T[Max(S)])]
  BY <1>1, <1>6
<1> HIDE DEF iter
<1>8. \A S \in SUBSET (1..k) : S # {} /\ iter[S \ {Max(S)}] \in V => iter[S] \in V
  BY <1>m, <1>3, <1>7
<1>9. iter[{}] \in V
  BY <1>b, <1>7
<1>10. iter[1..k] \in V
  BY <1>8, <1>9, SequenceFoldStays
<1> QED
  BY <1>1, <1>2, <1>10

LEMMA WithoutTyped ==
  ASSUME NEW E, NEW edges \in Seq(E), NEW target, NEW suit
  PROVE  Without(edges, target, suit) \in Seq(E)
<1> DEFINE T == edges
           Base == <<>>
           Step(s, x) == IF x.target = target /\ x.suit = suit THEN s ELSE Append(s, x)
           iter == CHOOSE g : g = [S \in SUBSET DOMAIN T |->
                     IF S = {} THEN Base ELSE Step(g[S \ {Max(S)}], T[Max(S)])]
<1>1. PICK k \in Nat : DOMAIN T = 1..k
  OBVIOUS
<1>2. Without(edges, target, suit) = iter[DOMAIN T]
  BY DEF Without, FoldLeft, MapThenFoldSet
<1>3. \A i \in 1..k, s \in Seq(E) : Step(s, T[i]) \in Seq(E)
  BY <1>1
<1>m. \A S \in SUBSET (1..k) : S # {} => Max(S) \in 1..k
  BY LastIndex
<1>b. Base \in Seq(E)
  OBVIOUS
<1> HIDE DEF T, Base, Step
<1> DEFINE step == [p \in (1..k) \X Seq(E) |-> Step(p[2], T[p[1]])]
<1>4. step \in [(1..k) \X Seq(E) -> Seq(E)] /\ \A i \in 1..k, s \in Seq(E) : step[<<i, s>>] = Step(s, T[i])
  BY <1>3
<1> HIDE DEF step
<1>5. PICK g : SequenceFoldsInto(g, step, Base, k, Seq(E))
  BY <1>b, <1>4, SequenceFoldSolvable
<1>6. g = [S \in SUBSET (1..k) |-> IF S = {} THEN Base ELSE Step(g[S \ {Max(S)}], T[Max(S)])]
  <2>1. \A S \in SUBSET (1..k) : S # {} =>
          step[<<Max(S), g[S \ {Max(S)}]>>] = Step(g[S \ {Max(S)}], T[Max(S)])
    BY <1>m, <1>4, <1>5 DEF SequenceFoldsInto
  <2> QED
    BY <1>5, <2>1 DEF SequenceFoldsInto
<1>7. iter = [S \in SUBSET (1..k) |-> IF S = {} THEN Base ELSE Step(iter[S \ {Max(S)}], T[Max(S)])]
  BY <1>1, <1>6
<1> HIDE DEF iter
<1>8. \A S \in SUBSET (1..k) : S # {} /\ iter[S \ {Max(S)}] \in Seq(E) => iter[S] \in Seq(E)
  BY <1>m, <1>3, <1>7
<1>9. iter[{}] \in Seq(E)
  BY <1>b, <1>7
<1>10. iter[1..k] \in Seq(E)
  BY <1>8, <1>9, SequenceFoldStays
<1> QED
  BY <1>1, <1>2, <1>10

LEMMA WeightsVouched ==
  ASSUME Vouches \in [Masks -> Seq(Vouching)], NEW suit, NEW nodes \in SUBSET Masks
  PROVE  /\ Weights(suit, nodes) \in Vouched(nodes)
         /\ \A i, j \in nodes : ~VouchesIn(i, j, suit) => Weights(suit, nodes)[<<i, j>>] = 0
<1> DEFINE all == [e \in nodes \X nodes |-> Weight(Vouches[e[1]], e[2], suit)]
<1>1. Weights(suit, nodes) = all
  <2>1. Weights(suit, nodes) = CHOOSE f \in {all} : f = f
    BY DEF Weights, Tabulated
  <2> HIDE DEF all
  <2> QED
    BY <2>1
<1>2. ASSUME NEW i \in nodes, NEW j \in nodes
      PROVE  /\ Weight(Vouches[i], j, suit) \in Nat
             /\ ~VouchesIn(i, j, suit) => Weight(Vouches[i], j, suit) = 0
  <2>1. PICK edges \in Seq(Vouching) : edges = Vouches[i]
    OBVIOUS
  <2>2. PICK k \in Nat : k = Len(edges)
    BY <2>1
  <2>3. DOMAIN edges = 1..k /\ \A n \in 1..k : edges[n] \in Vouching
    BY <2>1, <2>2
  <2>4. Weight(edges, j, suit) \in Nat
    <3>1. \A n \in 1..k, w \in Nat :
            (IF edges[n].target = j /\ edges[n].suit = suit THEN w + edges[n].weight ELSE w) \in Nat
      <4>1. \A n \in 1..k : edges[n].weight \in Nat
        BY <2>3 DEF Vouching
      <4> QED
        BY <4>1
    <3> QED
      BY <2>2, <2>3, <3>1, WeightStays
  <2>5. ASSUME ~VouchesIn(i, j, suit) PROVE Weight(edges, j, suit) = 0
    <3>1. \A n \in 1..k : ~(edges[n].target = j /\ edges[n].suit = suit)
      BY <2>1, <2>3, <2>5 DEF VouchesIn, Edges, Range
    <3>2. PICK V : V = {0}
      OBVIOUS
    <3>3. \A n \in 1..k, w \in V :
            (IF edges[n].target = j /\ edges[n].suit = suit THEN w + edges[n].weight ELSE w) \in V
      BY <3>1
    <3>4. 0 \in V
      BY <3>2
    <3>5. Weight(edges, j, suit) \in V
      BY <2>2, <2>3, <3>3, <3>4, WeightStays
    <3> QED
      BY <3>2, <3>5
  <2> QED
    BY <2>1, <2>4, <2>5
<1>3. all \in Vouched(nodes)
  BY <1>2 DEF Vouched
<1>4. \A i, j \in nodes : ~VouchesIn(i, j, suit) => all[<<i, j>>] = 0
  BY <1>2
<1> HIDE DEF all
<1> QED
  BY <1>1, <1>3, <1>4

\* The snapshot of a recount: the participants' standing in each suit, the others none.
LEMMA RecountIs ==
  ASSUME NEW evidence, Participants(evidence) # {}, NEW m \in Masks, NEW s \in Suits
  PROVE  Recomputed(evidence)[m][s] =
           IF m \in Participants(evidence)
           THEN ReputationDimension(Weights(s, Participants(evidence)), Participants(evidence),
                  [a \in Participants(evidence) |-> evidence[a][s]],
                  [a \in Participants(evidence) |-> Total(evidence[a], Suits)])[m]
           ELSE 0
<1> DEFINE nodes == Participants(evidence)
           all == [a \in nodes |-> Total(evidence[a], Suits)]
           own(u) == [a \in nodes |-> evidence[a][u]]
           Same(f) == CHOOSE g \in {f} : g = g
           Dim(u, w, e) == ReputationDimension(w, nodes, Same(own(u)), e)
           Inner(u, w) == CHOOSE y \in {Dim(u, w, e) : e \in {Same(all)}} : TRUE
           InSuit(u) == CHOOSE y \in {Inner(u, w) : w \in {Weights(u, nodes)}} : TRUE
           Out(r) == Same([a \in Masks |-> Same([u \in Suits |-> IF a \in nodes THEN r[u][a] ELSE 0])])
<1>1. Recomputed(evidence) = CHOOSE y \in {Out(r) : r \in {Same([u \in Suits |-> InSuit(u)])}} : TRUE
  BY DEF Recomputed, With, Tabulated
<1>2. \A f : Same(f) = f
  OBVIOUS
<1> HIDE DEF Same, nodes
<1>3. \A u, w : Inner(u, w) = Dim(u, w, all)
  BY <1>2
<1> HIDE DEF Inner
<1>4. \A u : InSuit(u) = Dim(u, Weights(u, nodes), all)
  BY <1>3
<1> HIDE DEF InSuit
<1>5. Recomputed(evidence) = Out([u \in Suits |-> InSuit(u)])
  <2>1. PICK f : f = [u \in Suits |-> InSuit(u)]
    OBVIOUS
  <2>2. Recomputed(evidence) = CHOOSE y \in {Out(r) : r \in {f}} : TRUE
    BY <1>1, <1>2, <2>1
  <2> HIDE DEF Out
  <2>3. {Out(r) : r \in {f}} = {Out(f)} /\ (CHOOSE y \in {Out(f)} : TRUE) = Out(f)
    OBVIOUS
  <2> QED
    BY <2>1, <2>2, <2>3
<1>6. Recomputed(evidence)[m][s] = IF m \in nodes THEN InSuit(s)[m] ELSE 0
  <2>1. PICK r : r = [u \in Suits |-> InSuit(u)]
    OBVIOUS
  <2>2. Out(r) = [a \in Masks |-> [u \in Suits |-> IF a \in nodes THEN r[u][a] ELSE 0]]
    BY <1>2
  <2> HIDE DEF Out
  <2>3. r[s] = InSuit(s)
    BY <2>1
  <2>4. Out(r)[m][s] = IF m \in nodes THEN r[s][m] ELSE 0
    BY <2>2
  <2> QED
    BY <1>5, <2>1, <2>3, <2>4
<1>7. InSuit(s) = ReputationDimension(Weights(s, nodes), nodes, own(s), all)
  BY <1>2, <1>4
<1> QED
  BY <1>6, <1>7 DEF nodes

\* Who is outside a set that holds the evidence and keeps its vouches among
\* themselves has no standing after a recount.
LEMMA RecountLeavesOut ==
  ASSUME Vouches \in [Masks -> Seq(Vouching)], NEW evidence \in Books, Participants(evidence) # {},
         NEW s \in Suits, NEW trusted, NEW m \in Masks, m \notin trusted,
         \A v \in Masks : evidence[v][s] > 0 => v \in trusted,
         \A v \in trusted, t \in Masks : VouchesIn(v, t, s) => t \in trusted
  PROVE  Recomputed(evidence)[m][s] = 0
<1>1. PICK nodes : nodes = Participants(evidence)
  OBVIOUS
<1>2. nodes \in SUBSET Masks
  BY <1>1 DEF Participants
<1>3. IsFiniteSet(nodes) /\ nodes \in SUBSET Nat
  BY <1>2, ReputationAssumption, FS_Subset
<1>4. PICK w : w = Weights(s, nodes)
  OBVIOUS
<1>5. w \in Vouched(nodes)
  BY <1>2, <1>4, WeightsVouched
<1>6. \A i, j \in nodes : ~VouchesIn(i, j, s) => w[<<i, j>>] = 0
  BY <1>2, <1>4, WeightsVouched
<1>7. PICK ev \in [nodes -> Nat] : ev = [a \in nodes |-> evidence[a][s]]
  <2>1. [a \in nodes |-> evidence[a][s]] \in [nodes -> Nat]
    BY <1>2 DEF Books
  <2> QED
    BY <2>1
<1>8. PICK all \in [nodes -> Nat] : all = [a \in nodes |-> Total(evidence[a], Suits)]
  <2>1. ASSUME NEW a \in nodes PROVE Total(evidence[a], Suits) \in Nat
    <3>1. IsFiniteSet(Suits)
      <4>1. IsFiniteSet({"commerce"}) /\ IsFiniteSet({"technical"}) /\ IsFiniteSet({"judicial"})
            /\ IsFiniteSet({"governance"})
        BY FS_Singleton
      <4>2. IsFiniteSet({"commerce"} \union {"technical"})
        BY <4>1, FS_Union
      <4>3. IsFiniteSet(({"commerce"} \union {"technical"}) \union {"judicial"})
        BY <4>1, <4>2, FS_Union
      <4>4. IsFiniteSet((({"commerce"} \union {"technical"}) \union {"judicial"}) \union {"governance"})
        BY <4>1, <4>3, FS_Union
      <4>5. Suits = (({"commerce"} \union {"technical"}) \union {"judicial"}) \union {"governance"}
        BY DEF Suits
      <4> QED
        BY <4>4, <4>5
    <3>2. \A u \in Suits : evidence[a][u] \in Nat
      BY <1>2 DEF Books
    <3> QED
      BY <3>1, <3>2, TotalNat
  <2> QED
    BY <2>1
<1>9. PICK cold \in SUBSET nodes : cold = nodes \ trusted
  OBVIOUS
<1>10. \A k \in cold : ev[k] = 0
  BY <1>2, <1>7, <1>9 DEF Books
<1>11. \A i \in nodes \ cold, k \in cold : w[<<i, k>>] = 0
  BY <1>2, <1>6, <1>9
<1>12. \A k \in cold : ReputationDimension(w, nodes, ev, all)[k] = 0
  BY <1>3, <1>5, <1>10, <1>11, ColdHaveNoStanding
<1>13. Recomputed(evidence)[m][s] = IF m \in nodes THEN ReputationDimension(w, nodes, ev, all)[m] ELSE 0
  BY <1>1, <1>4, <1>7, <1>8, RecountIs
<1> QED
  BY <1>9, <1>12, <1>13

VouchesTyped == Vouches \in [Masks -> Seq(Vouching)]

LEMMA VouchesInit == InitEpochs => VouchesTyped
<1> SUFFICES ASSUME InitEpochs PROVE VouchesTyped
  OBVIOUS
<1>1. Vouches = Settled
  BY DEF InitEpochs, InitReputation
<1> QED
  BY <1>1, ReputationAssumption DEF VouchesTyped, Vouching

LEMMA VouchesStep == VouchesTyped /\ [NextEpochs]_varsEpochs => VouchesTyped'
<1> SUFFICES ASSUME VouchesTyped, [NextEpochs]_varsEpochs PROVE VouchesTyped'
  OBVIOUS
<1>a. CallSuits \subseteq Suits
  BY CallsAssumption
<1>0. ASSUME UNCHANGED Vouches PROVE VouchesTyped'
  BY <1>0 DEF VouchesTyped
<1>1. CASE OpenEpochBlock
  <2>1. RunEpoch(number + 1) \/ UNCHANGED reputation
    BY <1>1 DEF OpenEpochBlock, OnInitialize
  <2>2. UNCHANGED Vouches
    BY <2>1 DEF RunEpoch, reputation, graph
  <2> QED
    BY <1>0, <2>2
<1>2. ASSUME NEW suit \in CallSuits, NEW a, NEW b, Attest(a, b, suit) \/ Claim(b, a, suit)
      PROVE  VouchesTyped'
  <2>1. UNCHANGED Vouches
    BY <1>2 DEF Attest, Claim, AttestEvidence, ClaimAttestedEvidence, graph
  <2> QED
    BY <1>0, <2>1
<1>3. ASSUME NEW suit \in CallSuits, NEW v, NEW m \in Masks, PlaceVouch(v, m, suit)
      PROVE  VouchesTyped'
  <2>1. PICK edge : edge = [target |-> m, suit |-> suit, weight |-> 1]
    OBVIOUS
  <2>2. edge \in Vouching
    BY <1>a, <2>1 DEF Vouching
  <2>3. Vouches' = [Vouches EXCEPT ![v] = Append(Vouches[v], edge)]
    BY <1>3, <2>1 DEF PlaceVouch, Vouch
  <2>4. ASSUME v \in Masks PROVE Append(Vouches[v], edge) \in Seq(Vouching)
    BY <2>2, <2>4 DEF VouchesTyped
  <2> QED
    BY <2>3, <2>4 DEF VouchesTyped
<1>4. ASSUME NEW suit \in CallSuits, NEW v, NEW m, TakeVouchBack(v, m, suit)
      PROVE  VouchesTyped'
  <2>1. Vouches' = [Vouches EXCEPT ![v] = Without(Vouches[v], m, suit)]
    BY <1>4 DEF TakeVouchBack, RevokeVouch
  <2>2. ASSUME v \in Masks PROVE Without(Vouches[v], m, suit) \in Seq(Vouching)
    <3>1. Vouches[v] \in Seq(Vouching)
      BY <2>2 DEF VouchesTyped
    <3> QED
      BY <3>1, WithoutTyped
  <2> QED
    BY <2>1, <2>2 DEF VouchesTyped
<1>5. ASSUME NEW suit \in CallSuits, NEW m, Submit(m, suit) \/ Report(m, suit)
      PROVE  VouchesTyped'
  <2>1. UNCHANGED Vouches
    BY <1>5 DEF Submit, Report, SubmitEvidence, ReportFraud, graph
  <2> QED
    BY <1>0, <2>1
<1>6. CASE SetWindows
  <2>1. UNCHANGED Vouches
    BY <1>6 DEF SetWindows, SetBootstrapWindow, SetProbationWindow, graph
  <2> QED
    BY <1>0, <2>1
<1>7. CASE UNCHANGED varsEpochs
  <2>1. UNCHANGED Vouches
    BY <1>7 DEF varsEpochs, reputation, graph
  <2> QED
    BY <1>0, <2>1
<1> QED
  BY <1>1, <1>2, <1>3, <1>4, <1>5, <1>6, <1>7 DEF NextEpochs

\* Only the epoch counts again, and it does so after it aged and credited.
LEMMA OnlyTheEpochRecounts ==
  ASSUME EpochsTyped, [NextEpochs]_varsEpochs, Epoch' # Epoch
  PROVE  ReputationSnapshot' = Recomputed(Evidence') /\ Vouches' = Vouches
<1>1. CASE OpenEpochBlock
  <2>1. RunEpoch(number + 1) \/ UNCHANGED reputation
    BY <1>1 DEF OpenEpochBlock, OnInitialize
  <2>2. RunEpoch(number + 1)
    BY <2>1 DEF reputation, standing
  <2> QED
    BY <2>2 DEF RunEpoch, graph
<1>2. ASSUME NEW suit \in CallSuits, NEW a, NEW b, Attest(a, b, suit) \/ Claim(b, a, suit)
      PROVE  FALSE
  BY <1>2 DEF Attest, Claim, AttestEvidence, ClaimAttestedEvidence, standing
<1>3. ASSUME NEW suit \in CallSuits, NEW v, NEW m, PlaceVouch(v, m, suit) \/ TakeVouchBack(v, m, suit)
      PROVE  FALSE
  BY <1>3 DEF PlaceVouch, TakeVouchBack, Vouch, RevokeVouch, standing
<1>4. ASSUME NEW suit \in CallSuits, NEW m, Submit(m, suit) \/ Report(m, suit)
      PROVE  FALSE
  BY <1>4 DEF Submit, Report, SubmitEvidence, ReportFraud
<1>5. CASE SetWindows
  BY <1>5 DEF SetWindows, SetBootstrapWindow, SetProbationWindow, standing
<1>6. CASE UNCHANGED varsEpochs
  BY <1>6 DEF varsEpochs, reputation, standing
<1> QED
  BY <1>1, <1>2, <1>3, <1>4, <1>5, <1>6 DEF NextEpochs

(* Whatever the graph of vouches and the evidence, a recount gives standing  *)
(* in a suit only to masks that trust reaches from evidence.                 *)
THEOREM StandingIsAlwaysEarned == SpecEpochs => StandingIsEarned
<1> DEFINE Grant == \A m \in Masks, s \in Suits : ReputationSnapshot'[m][s] > 0 => Earned(m, s)'
<1>1. EpochsTyped /\ VouchesTyped /\ [NextEpochs]_varsEpochs
        => (Epoch' # Epoch /\ Participants(Evidence') # {} => Grant)
  <2> SUFFICES ASSUME EpochsTyped, VouchesTyped, [NextEpochs]_varsEpochs, Epoch' # Epoch,
                      Participants(Evidence') # {}, NEW m \in Masks, NEW s \in Suits,
                      ReputationSnapshot'[m][s] > 0, NEW trusted \in SUBSET Masks,
                      {v \in Masks : Evidence'[v][s] > 0} \subseteq trusted,
                      \A v \in trusted, t \in Masks : VouchesIn(v, t, s)' => t \in trusted
               PROVE  m \in trusted
    BY DEF Earned
  <2>1. ReputationSnapshot' = Recomputed(Evidence') /\ Vouches' = Vouches
    BY OnlyTheEpochRecounts
  <2>2. EpochsTyped'
    BY EpochsStep
  <2>3. PICK evidence \in Books : evidence = Evidence'
    BY <2>2 DEF EpochsTyped, JournalTyped
  <2>4. \A v \in trusted, t \in Masks : VouchesIn(v, t, s) => t \in trusted
    BY <2>1 DEF VouchesIn, Edges
  <2>5. Vouches \in [Masks -> Seq(Vouching)]
    BY DEF VouchesTyped
  <2>6. \A v \in Masks : evidence[v][s] > 0 => v \in trusted
    BY <2>3
  <2>7. Participants(evidence) # {}
    BY <2>3
  <2>8. m \notin trusted => Recomputed(evidence)[m][s] = 0
    BY <2>4, <2>5, <2>6, <2>7, RecountLeavesOut
  <2> QED
    BY <2>1, <2>3, <2>8
<1>2. EpochsTyped /\ VouchesTyped /\ [NextEpochs]_varsEpochs => EpochsTyped' /\ VouchesTyped'
  BY EpochsStep, VouchesStep
<1>3. InitEpochs => EpochsTyped /\ VouchesTyped
  BY EpochsInit, VouchesInit
<1> QED
  BY <1>1, <1>2, <1>3, PTL DEF SpecEpochs, StandingIsEarned
=============================================================================
