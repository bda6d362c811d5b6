-------------------------- MODULE TickClock_proofs --------------------------
(* What the clock of a follower keeps, for every window, slew, step and set *)
(* of masters.                                                              *)
EXTENDS TickClock, WellFoundedInduction, TLAPS

-----------------------------------------------------------------------------
(* A set of naturals that is not empty has a smallest member.              *)
LEMMA SmallestOf ==
  ASSUME NEW S \in SUBSET Nat, S # {}
  PROVE  \E x \in S : \A y \in S : x <= y
<1>1. \E x \in S : \A y \in S : ~ (<<y, x>> \in OpToRel(<, Nat))
  BY WFMin, NatLessThanWellFounded
<1>2. PICK x \in S : \A y \in S : ~ (<<y, x>> \in OpToRel(<, Nat))
  BY <1>1
<1>3. \A y \in S : ~ (y < x)
  BY <1>2 DEF OpToRel
<1> QED
  BY <1>3

(* The best sample of a window is one of them.                             *)
LEMMA BestIsSample ==
  ASSUME NEW ss \in Seq(Sample), ss # <<>>
  PROVE  \E i \in DOMAIN ss : Best(ss) = ss[i]
<1> DEFINE Trips == {ss[i].trip : i \in DOMAIN ss}
<1>1. DOMAIN ss = 1 .. Len(ss) /\ 1 \in DOMAIN ss
  OBVIOUS
<1>2. \A i \in DOMAIN ss : ss[i].trip \in Nat
  <2>1. \A i \in DOMAIN ss : ss[i] \in Sample
    OBVIOUS
  <2> QED
    BY <2>1 DEF Sample
<1>3. PICK m \in Trips : \A y \in Trips : m <= y
  <2>1. Trips \in SUBSET Nat /\ Trips # {}
    BY <1>1, <1>2
  <2> QED
    BY <2>1, SmallestOf
<1> DEFINE Firsts == {i \in DOMAIN ss : ss[i].trip = m}
<1>4. PICK f \in Firsts : \A g \in Firsts : f <= g
  <2>1. Firsts \in SUBSET Nat /\ Firsts # {}
    BY <1>1, <1>3
  <2> HIDE DEF Firsts
  <2> QED
    BY <2>1, SmallestOf
<1>5. f \in DOMAIN ss /\ \A j \in DOMAIN ss : ss[f].trip <= ss[j].trip
  BY <1>3, <1>4
<1>6. ASSUME NEW j \in 1 .. (f - 1)
      PROVE  ss[f].trip < ss[j].trip
  <2>1. j \in DOMAIN ss /\ ~ (f <= j)
    BY <1>1, <1>5
  <2>2. ss[j].trip # m
    BY <2>1, <1>4
  <2> QED
    BY <2>1, <2>2, <1>2, <1>4, <1>5
<1>7. \E i \in DOMAIN ss :
         /\ \A j \in DOMAIN ss : ss[i].trip <= ss[j].trip
         /\ \A j \in 1 .. (i - 1) : ss[i].trip < ss[j].trip
  BY <1>5, <1>6
<1> QED
  BY <1>7 DEF Best

(* What the window holds after a sample: that sample, and old ones.        *)
LEMMA StoredSamples ==
  ASSUME TypeOK, NEW s \in Sample
  PROVE  /\ Stored(s) \in Seq(Sample)
         /\ Stored(s) # <<>>
         /\ Len(Stored(s)) <= MaxSamples
         /\ \A i \in DOMAIN Stored(s) :
              Stored(s)[i] = s \/ \E j \in DOMAIN samples : Stored(s)[i] = samples[j]
<1>1. /\ samples \in Seq(Sample) /\ Len(samples) <= MaxSamples
      /\ next \in 1 .. MaxSamples /\ MaxSamples \in Nat /\ MaxSamples >= 1
  BY ClockAssumption DEF TypeOK
<1>2. CASE Len(samples) < MaxSamples
  <2>1. Stored(s) = Append(samples, s)
    BY <1>2 DEF Stored
  <2> QED
    BY <2>1, <1>1, <1>2
<1>3. CASE ~ (Len(samples) < MaxSamples)
  <2>1. Stored(s) = [samples EXCEPT ![next] = s] /\ Len(samples) = MaxSamples
    BY <1>1, <1>3 DEF Stored
  <2>2. next \in DOMAIN samples
    BY <1>1, <2>1
  <2> QED
    BY <2>1, <2>2, <1>1
<1> QED
  BY <1>2, <1>3

-----------------------------------------------------------------------------
(* The offset that is applied moves from where it starts toward the        *)
(* estimate: at most as far as the slew allows, never past it.             *)
LEMMA SlewOfTime ==
  ASSUME NEW a \in Nat, NEW b \in Nat, a <= b
  PROVE  /\ (a * SlewPerMille) \div 1000 \in Nat
         /\ (b * SlewPerMille) \div 1000 - (a * SlewPerMille) \div 1000
              \in 0 .. (b - a)
         /\ 1000 * ((b * SlewPerMille) \div 1000 - (a * SlewPerMille) \div 1000)
              <= SlewPerMille * (b - a) + 999
<1>1. SlewPerMille \in Nat /\ SlewPerMille <= 1000
  BY ClockAssumption
<1> DEFINE x == a * SlewPerMille
           y == b * SlewPerMille
           d == SlewPerMille * (b - a)
<1>2. x \in Nat /\ y \in Nat /\ d \in Nat /\ y = x + d
  BY <1>1
<1>3. d <= 1000 * (b - a)
  BY <1>1
<1> HIDE DEF x, y, d
<1>4. /\ x \div 1000 \in Nat
      /\ y \div 1000 - x \div 1000 \in 0 .. (b - a)
      /\ 1000 * (y \div 1000 - x \div 1000) <= d + 999
  BY <1>2, <1>3
<1> QED
  BY <1>4 DEF x, y, d

LEMMA OffsetBetween ==
  ASSUME TypeOK, NEW t \in Nat
  PROVE  /\ OffsetAt(t) \in Int
         /\ Distance(OffsetAt(t), estimate.offset)
              <= Distance(slew.from, estimate.offset)
<1>1. slew.from \in Int /\ slew.since \in Nat /\ estimate.offset \in Int
  BY DEF TypeOK, Sample
<1>2. CASE t <= slew.since
  BY <1>1, <1>2 DEF OffsetAt, Distance
<1>3. CASE ~ (t <= slew.since)
  <2> DEFINE moved == ((t - slew.since) * SlewPerMille) \div 1000
  <2>1. moved \in Nat
    <3> DEFINE past == t - slew.since
    <3>1. past \in Nat /\ past <= past
      BY <1>1, <1>3
    <3> HIDE DEF past
    <3>2. (past * SlewPerMille) \div 1000 \in Nat
      BY <3>1, SlewOfTime
    <3> QED
      BY <3>2 DEF past
  <2> HIDE DEF moved
  <2>2. OffsetAt(t) = IF estimate.offset > slew.from
                      THEN slew.from + Smaller(moved, Distance(estimate.offset, slew.from))
                      ELSE slew.from - Smaller(moved, Distance(estimate.offset, slew.from))
    BY <1>3 DEF OffsetAt, moved
  <2> QED
    BY <2>1, <2>2, <1>1 DEF Smaller, Distance
<1> QED
  BY <1>2, <1>3

LEMMA OffsetMoves ==
  ASSUME TypeOK, NEW t \in Nat, NEW u \in Nat, t <= u
  PROVE  /\ Distance(OffsetAt(u), OffsetAt(t)) <= u - t
         /\ 1000 * Distance(OffsetAt(u), OffsetAt(t))
              <= SlewPerMille * (u - t) + 999
<1>1. slew.from \in Int /\ slew.since \in Nat /\ estimate.offset \in Int
  BY DEF TypeOK, Sample
<1> DEFINE Since(v) == IF v <= slew.since THEN 0 ELSE v - slew.since
           moved(v) == (Since(v) * SlewPerMille) \div 1000
           far == Distance(estimate.offset, slew.from)
<1>2. Since(t) \in Nat /\ Since(u) \in Nat /\ Since(t) <= Since(u)
      /\ Since(u) - Since(t) <= u - t
  BY <1>1
<1>3. /\ moved(t) \in Nat /\ moved(u) \in Nat
      /\ moved(u) - moved(t) \in 0 .. (Since(u) - Since(t))
      /\ 1000 * (moved(u) - moved(t))
           <= SlewPerMille * (Since(u) - Since(t)) + 999
  <2> HIDE DEF Since
  <2> QED
    BY <1>2, SlewOfTime
<1>4. SlewPerMille * (Since(u) - Since(t)) <= SlewPerMille * (u - t)
  <2>1. SlewPerMille \in Nat
    BY ClockAssumption
  <2> HIDE DEF Since
  <2> QED
    BY <1>2, <2>1
<1>5. ASSUME NEW v \in Nat
      PROVE  OffsetAt(v) = IF estimate.offset > slew.from
                           THEN slew.from + Smaller(moved(v), far)
                           ELSE slew.from - Smaller(moved(v), far)
  <2>1. CASE v <= slew.since
    <3>1. Since(v) = 0 /\ SlewPerMille \in Nat
      BY <2>1, ClockAssumption
    <3>2. moved(v) = 0
      BY <3>1
    <3>3. far \in Nat
      BY <1>1 DEF Distance
    <3> QED
      BY <2>1, <3>2, <3>3, <1>1 DEF OffsetAt, Smaller
  <2>2. CASE ~ (v <= slew.since)
    BY <2>2 DEF OffsetAt
  <2> QED
    BY <2>1, <2>2
<1>6. far \in Nat /\ SlewPerMille * (u - t) \in Int
  BY <1>1, ClockAssumption DEF Distance
<1>7. Distance(OffsetAt(u), OffsetAt(t)) <= moved(u) - moved(t)
  <2>1. moved(t) \in Nat /\ moved(u) \in Nat /\ moved(t) <= moved(u)
    <3> HIDE DEF moved
    <3> QED
      BY <1>3, <1>2
  <2> HIDE DEF moved, far
  <2> QED
    BY <2>1, <1>1, <1>5, <1>6 DEF Smaller, Distance
<1>8. Distance(OffsetAt(u), OffsetAt(t)) \in Nat
  BY OffsetBetween DEF Distance
<1> HIDE DEF moved, far, Since
<1> QED
  BY <1>2, <1>3, <1>4, <1>6, <1>7, <1>8, ClockAssumption

-----------------------------------------------------------------------------
(* The inductive invariant: every sample in the window is of the master    *)
(* that is followed, within half of its round trip; the estimate is one of *)
(* them; and the applied offset starts within a step of it.                *)
Close(s) == 2 * Distance(s.offset, true.offset) <= s.trip + 1

WindowClose == \A i \in DOMAIN samples : Close(samples[i])

EstimateSampled ==
  samples # <<>> => \E i \in DOMAIN samples : estimate = samples[i]

SlewNear ==
  /\ slew.since <= now
  /\ Synchronized /\ ~ held.holds =>
       Distance(slew.from, estimate.offset) <= StepUsec

IInv == TypeOK /\ WindowClose /\ EstimateSampled /\ SlewNear

LEMMA InitInvariant == Init => IInv
<1> SUFFICES ASSUME Init PROVE IInv
  OBVIOUS
<1>1. TypeOK
  BY ClockAssumption DEF Init, TypeOK, Sample, NoEstimate, NotHeld
<1>2. samples = <<>> /\ DOMAIN samples = {}
  <2> DEFINE none == <<>>
  <2>1. samples = none
    BY DEF Init
  <2>2. none \in Seq(Sample) /\ Len(none) = 0 /\ DOMAIN none = 1 .. Len(none)
    OBVIOUS
  <2> QED
    BY <2>1, <2>2
<1>3. WindowClose /\ EstimateSampled
  BY <1>2 DEF WindowClose, EstimateSampled
<1>4. SlewNear
  BY ClockAssumption DEF Init, SlewNear, Synchronized, NotHeld
<1> QED
  BY <1>1, <1>3, <1>4 DEF IInv

(* What a round trip that just ended says of the master.                   *)
LEMMA SampleIsClose ==
  ASSUME TypeOK, NEW sent \in 0 .. now, NEW delay \in Nat, sent + delay <= now
  PROVE  LET s == SampleOf(sent, sent + delay + true.offset)
         IN  s \in Sample /\ Close(s)
<1> DEFINE trip == now - sent
<1>1. now \in Nat /\ true.offset \in Int
  BY ClockAssumption DEF TypeOK
<1>2. trip \in Nat /\ delay <= trip
  BY <1>1
<1>3. SampleOf(sent, sent + delay + true.offset) =
        [trip |-> trip, offset |-> (sent + delay + true.offset) - (sent + trip \div 2)]
  BY DEF SampleOf
<1> HIDE DEF trip
<1> QED
  BY <1>1, <1>2, <1>3 DEF Sample, Close, Distance

(* What a pong does, with s the sample it gives.                           *)
Sampled(s) ==
  /\ samples' = Stored(s)
  /\ next' = (next % MaxSamples) + 1
  /\ estimate' = Best(Stored(s))
  /\ \/ /\ held.holds
        /\ Len(samples') < MinSamples
        /\ UNCHANGED <<slew, epoch, held>>
     \/ /\ held.holds => Len(samples') >= MinSamples
        /\ held' = NotHeld
        /\ epoch' = true.epoch
        /\ slew' = [since |-> now,
                    from |-> IF held.holds THEN StartAt(Continued, estimate'.offset)
                             ELSE IF ~ Synchronized THEN estimate'.offset
                             ELSE StartAt(OffsetAt(now), estimate'.offset)]
  /\ UNCHANGED <<now, true>>

LEMMA PongSamples ==
  ASSUME TypeOK, Pong
  PROVE  \E s \in Sample : Close(s) /\ Sampled(s)
<1>1. PICK sent \in 0 .. now, delay \in 0 .. MaxTrip :
        LET ss == Stored(SampleOf(sent, sent + delay + true.offset))
            e == Best(ss)
            resumes == held.holds /\ Len(ss) >= MinSamples
        IN
        /\ now - sent <= MaxTrip
        /\ sent + delay <= now
        /\ samples' = ss
        /\ next' = (next % MaxSamples) + 1
        /\ estimate' = e
        /\ IF held.holds /\ ~ resumes
           THEN UNCHANGED <<slew, epoch, held>>
           ELSE /\ held' = NotHeld
                /\ epoch' = true.epoch
                /\ slew' = [since |-> now,
                            from |-> IF held.holds THEN StartAt(Continued, e.offset)
                                     ELSE IF ~ Synchronized THEN e.offset
                                     ELSE StartAt(OffsetAt(now), e.offset)]
        /\ UNCHANGED <<now, true>>
  BY DEF Pong
<1> DEFINE s == SampleOf(sent, sent + delay + true.offset)
<1>2. s \in Sample /\ Close(s)
  BY <1>1, SampleIsClose, ClockAssumption
<1>3. Len(Stored(s)) \in Nat /\ MinSamples \in Nat
  BY <1>2, StoredSamples, ClockAssumption
<1> HIDE DEF s
<1>4. Sampled(s)
  BY <1>1, <1>3 DEF Sampled, s
<1> QED
  BY <1>2, <1>4

LEMMA PongKeepsTypes ==
  ASSUME TypeOK, NEW s \in Sample, Sampled(s)
  PROVE  TypeOK' /\ (\E i \in DOMAIN samples' : estimate' = samples'[i])
<1>1. /\ samples' \in Seq(Sample) /\ samples' # <<>>
      /\ Len(samples') <= MaxSamples
  BY StoredSamples DEF Sampled
<1>2. PICK i \in DOMAIN samples' : estimate' = samples'[i]
  BY <1>1, BestIsSample DEF Sampled
<1>3. estimate' \in Sample
  BY <1>1, <1>2
<1>4. next' \in 1 .. MaxSamples
  BY ClockAssumption DEF Sampled, TypeOK
<1>5. now' \in 0 .. MaxTime /\ true' \in Masters
  BY DEF Sampled, TypeOK
<1>6. /\ slew' \in [from : Int, since : Nat]
      /\ epoch' \in Int
      /\ held' \in [holds : BOOLEAN, offset : Int, epoch : Int]
  <2>1. CASE UNCHANGED <<slew, epoch, held>>
    BY <2>1 DEF TypeOK
  <2>2. CASE ~ UNCHANGED <<slew, epoch, held>>
    <3>1. true.epoch \in Int /\ estimate'.offset \in Int
      BY <1>3, ClockAssumption DEF TypeOK, Sample
    <3>2. Continued \in Int
      BY <3>1 DEF Continued, TypeOK
    <3>3. OffsetAt(now) \in Int /\ now \in Nat
      BY OffsetBetween, ClockAssumption DEF TypeOK
    <3>4. /\ held' = NotHeld /\ epoch' = true.epoch
          /\ slew' = [since |-> now,
                      from |-> IF held.holds THEN StartAt(Continued, estimate'.offset)
                               ELSE IF ~ Synchronized THEN estimate'.offset
                               ELSE StartAt(OffsetAt(now), estimate'.offset)]
      BY <2>2 DEF Sampled
    <3>5. \A was \in Int : StartAt(was, estimate'.offset) \in Int
      BY <3>1 DEF StartAt
    <3> DEFINE from == IF held.holds THEN StartAt(Continued, estimate'.offset)
                       ELSE IF ~ Synchronized THEN estimate'.offset
                       ELSE StartAt(OffsetAt(now), estimate'.offset)
    <3>6. from \in Int
      BY <3>1, <3>2, <3>3, <3>5
    <3>7. slew' = [since |-> now, from |-> from]
      BY <3>4
    <3> HIDE DEF from
    <3>8. slew' \in [from : Int, since : Nat]
      BY <3>3, <3>6, <3>7
    <3> QED
      BY <3>1, <3>4, <3>8 DEF NotHeld
  <2> QED
    BY <2>1, <2>2
<1> QED
  BY <1>1, <1>2, <1>3, <1>4, <1>5, <1>6 DEF TypeOK

LEMMA PongKeeps ==
  ASSUME IInv, NEW s \in Sample, Close(s), Sampled(s)
  PROVE  IInv'
<1>1. TypeOK' /\ (\E i \in DOMAIN samples' : estimate' = samples'[i])
  BY PongKeepsTypes DEF IInv
<1>2. EstimateSampled'
  BY <1>1 DEF EstimateSampled
<1>3. WindowClose'
  <2>1. ASSUME NEW i \in DOMAIN samples'
        PROVE  Close(samples'[i])
    <3>1. samples'[i] = s \/ \E j \in DOMAIN samples : samples'[i] = samples[j]
      BY StoredSamples DEF Sampled, IInv
    <3> QED
      BY <3>1 DEF IInv, WindowClose
  <2>2. true' = true
    BY DEF Sampled
  <2> QED
    BY <2>1, <2>2 DEF WindowClose, Close
<1>4. SlewNear'
  <2>1. now' = now /\ now \in Nat /\ StepUsec \in Nat
    BY ClockAssumption DEF Sampled, IInv, TypeOK
  <2>2. CASE held.holds /\ UNCHANGED <<slew, epoch, held>>
    BY <2>1, <2>2 DEF IInv, SlewNear
  <2>3. CASE /\ held' = NotHeld
             /\ slew' = [since |-> now,
                         from |-> IF held.holds THEN StartAt(Continued, estimate'.offset)
                                  ELSE IF ~ Synchronized THEN estimate'.offset
                                  ELSE StartAt(OffsetAt(now), estimate'.offset)]
    <3>1. estimate'.offset \in Int
      BY <1>1 DEF TypeOK, Sample
    <3>2. Continued \in Int /\ OffsetAt(now) \in Int
      BY <2>1, OffsetBetween, ClockAssumption DEF IInv, TypeOK, Continued
    <3>3. \A was \in Int :
            Distance(StartAt(was, estimate'.offset), estimate'.offset) <= StepUsec
      BY <3>1, <2>1 DEF StartAt, Distance
    <3>4. Distance(estimate'.offset, estimate'.offset) <= StepUsec
      BY <3>1, <2>1 DEF Distance
    <3>5. Distance(slew'.from, estimate'.offset) <= StepUsec
      BY <2>3, <3>2, <3>3, <3>4
    <3>6. slew'.since <= now'
      BY <2>1, <2>3
    <3> QED
      BY <3>5, <3>6 DEF SlewNear
  <2> QED
    BY <2>2, <2>3 DEF Sampled
<1> QED
  BY <1>1, <1>2, <1>3, <1>4 DEF IInv

(* The steps that forget the window, and those that leave it.              *)
LEMMA ClearedKeeps ==
  ASSUME IInv, Cleared, now' = now, true' \in Masters, epoch' \in Int,
         held' \in [holds : BOOLEAN, offset : Int, epoch : Int]
  PROVE  IInv'
<1>1. samples' = <<>> /\ DOMAIN samples' = {} /\ Len(samples') = 0
  <2>1. samples' = <<>> /\ samples' \in Seq(Sample)
    BY DEF Cleared
  <2>2. Len(samples') = 0 /\ DOMAIN samples' = 1 .. Len(samples')
    BY <2>1
  <2> QED
    BY <2>1, <2>2
<1>2. TypeOK'
  BY <1>1, ClockAssumption DEF IInv, TypeOK, Cleared, Sample, NoEstimate
<1>3. WindowClose' /\ EstimateSampled'
  BY <1>1 DEF WindowClose, EstimateSampled
<1>4. SlewNear'
  <2>1. now' \in Nat
    BY ClockAssumption DEF IInv, TypeOK
  <2>2. ~ (Len(samples') >= MinSamples)
    BY <1>1, ClockAssumption
  <2> QED
    BY <2>1, <2>2 DEF SlewNear, Synchronized, Cleared
<1> QED
  BY <1>2, <1>3, <1>4 DEF IInv

LEMMA NextKeeps ==
  ASSUME IInv, [Next]_vars
  PROVE  IInv'
<1>1. CASE Pong
  <2>1. PICK s \in Sample : Close(s) /\ Sampled(s)
    BY <1>1, PongSamples DEF IInv
  <2> QED
    BY <2>1, PongKeeps
<1>2. CASE MasterMoves
  <2>1. OffsetAt(now) \in Int
    BY OffsetBetween, ClockAssumption DEF IInv, TypeOK
  <2>2. held' \in [holds : BOOLEAN, offset : Int, epoch : Int]
    <3> DEFINE o == IF held.holds THEN held.offset ELSE OffsetAt(now)
               e == IF held.holds THEN held.epoch ELSE epoch
    <3>1. o \in Int /\ e \in Int
      BY <2>1 DEF IInv, TypeOK
    <3>2. held' = [holds |-> TRUE, offset |-> o, epoch |-> e] \/ held' = NotHeld
      BY <1>2 DEF MasterMoves
    <3> HIDE DEF o, e
    <3>3. NotHeld \in [holds : BOOLEAN, offset : Int, epoch : Int]
      BY DEF NotHeld
    <3>4. [holds |-> TRUE, offset |-> o, epoch |-> e]
            \in [holds : BOOLEAN, offset : Int, epoch : Int]
      BY <3>1
    <3> QED
      BY <3>2, <3>3, <3>4
  <2> QED
    BY <1>2, <2>2, ClearedKeeps DEF MasterMoves, IInv, TypeOK
<1>3. CASE MasterForgotten
  <2>1. held' \in [holds : BOOLEAN, offset : Int, epoch : Int]
    BY <1>3 DEF MasterForgotten, NotHeld
  <2> QED
    BY <1>3, <2>1, ClearedKeeps DEF MasterForgotten, IInv, TypeOK
<1>4. CASE EpochMoves
  <2>1. TypeOK'
    BY <1>4 DEF EpochMoves, IInv, TypeOK
  <2>2. WindowClose'
    BY <1>4 DEF EpochMoves, IInv, WindowClose, Close
  <2>3. EstimateSampled' /\ SlewNear'
    BY <1>4 DEF EpochMoves, IInv, EstimateSampled, SlewNear, Synchronized
  <2> QED
    BY <2>1, <2>2, <2>3 DEF IInv
<1>5. CASE TimePasses
  <2>1. now' > now /\ now' \in 0 .. MaxTime
    BY <1>5, ClockAssumption DEF TimePasses, IInv, TypeOK
  <2>2. TypeOK'
    BY <1>5, <2>1 DEF TimePasses, IInv, TypeOK
  <2>3. WindowClose' /\ EstimateSampled'
    BY <1>5 DEF TimePasses, IInv, WindowClose, Close, EstimateSampled
  <2>4. slew'.since <= now'
    BY <1>5, <2>1, ClockAssumption DEF TimePasses, IInv, SlewNear, TypeOK
  <2>5. SlewNear'
    BY <1>5, <2>4 DEF TimePasses, IInv, SlewNear, Synchronized
  <2> QED
    BY <2>2, <2>3, <2>5 DEF IInv
<1>6. CASE UNCHANGED vars
  BY <1>6 DEF vars, IInv, TypeOK, WindowClose, Close, EstimateSampled,
              SlewNear, Synchronized
<1> QED
  BY <1>1, <1>2, <1>3, <1>4, <1>5, <1>6 DEF Next

LEMMA Invariant == Spec => []IInv
<1> QED
  BY InitInvariant, NextKeeps, PTL DEF Spec

-----------------------------------------------------------------------------
(* Every value has its type, whatever the round trips and the masters      *)
(* (TickClock).                                                            *)
THEOREM ClockTypes == Spec => []TypeOK
<1>1. IInv => TypeOK
  BY DEF IInv
<1> QED
  BY <1>1, Invariant, PTL

(* The estimate is within half a round trip of the clock of the master     *)
(* that is followed, and the applied offset within a step of the estimate  *)
(* (add_sample, update_estimate, clear_samples).                           *)
THEOREM EstimateAccurate == Spec => []Accurate
<1>1. ASSUME IInv
      PROVE  Accurate
  <2>1. ASSUME samples # <<>>
        PROVE  2 * Distance(estimate.offset, true.offset) <= estimate.trip + 1
    BY <1>1, <2>1 DEF IInv, EstimateSampled, WindowClose, Close
  <2>2. ASSUME Synchronized /\ ~ held.holds
        PROVE  Distance(OffsetAt(now), estimate.offset) <= StepUsec
    <3>1. now \in Nat /\ slew.from \in Int /\ estimate.offset \in Int
      BY <1>1, ClockAssumption DEF IInv, TypeOK, Sample
    <3>2. Distance(OffsetAt(now), estimate.offset)
            <= Distance(slew.from, estimate.offset)
      BY <1>1, <3>1, OffsetBetween DEF IInv
    <3>3. Distance(slew.from, estimate.offset) <= StepUsec
      BY <1>1, <2>2 DEF IInv, SlewNear
    <3>4. OffsetAt(now) \in Int
      BY <1>1, <3>1, OffsetBetween DEF IInv
    <3> QED
      BY <3>1, <3>2, <3>3, <3>4, ClockAssumption DEF Distance
  <2> QED
    BY <2>1, <2>2 DEF Accurate
<1> QED
  BY <1>1, Invariant, PTL

(* OffsetAt with all it depends on as parameters.                          *)
Applied(from, best, t) ==
  LET moved == ((t - from.since) * SlewPerMille) \div 1000
      remaining == Distance(best.offset, from.from)
  IN  IF t <= from.since THEN from.from
      ELSE IF best.offset > from.from
      THEN from.from + Smaller(moved, remaining)
      ELSE from.from - Smaller(moved, remaining)

LEMMA TimeStep ==
  ASSUME IInv, TimePasses
  PROVE  /\ Timeline(now)' - Timeline(now) >= 0
         /\ 1000 * Distance(Timeline(now)' - Timeline(now), now' - now)
              <= SlewPerMille * (now' - now) + 999
<1>1. /\ now \in Nat /\ epoch \in Int
      /\ held.offset \in Int /\ held.epoch \in Int
  BY ClockAssumption DEF IInv, TypeOK
<1>2. PICK later \in (now + 1) .. MaxTime : now' = later
  BY DEF TimePasses
<1>3. later \in Nat /\ now <= later
  BY <1>1, <1>2, ClockAssumption
<1>4. PICK passed \in Nat : passed = later - now
  BY <1>1, <1>3
<1>5. OffsetAt(now)' = OffsetAt(later)
  <2>1. slew' = slew /\ estimate' = estimate
    BY DEF TimePasses
  <2>2. OffsetAt(now)' = Applied(slew', estimate', now')
    BY DEF OffsetAt, Applied
  <2>3. OffsetAt(later) = Applied(slew, estimate, later)
    BY DEF OffsetAt, Applied
  <2> QED
    BY <1>2, <2>1, <2>2, <2>3
<1>6. Timeline(now)' = IF held.holds THEN later + held.offset - held.epoch
                       ELSE later + OffsetAt(later) - epoch
  BY <1>2, <1>5 DEF TimePasses, Timeline
<1>7. /\ OffsetAt(now) \in Int /\ OffsetAt(later) \in Int
      /\ Distance(OffsetAt(later), OffsetAt(now)) <= passed
      /\ 1000 * Distance(OffsetAt(later), OffsetAt(now))
           <= SlewPerMille * passed + 999
  BY <1>1, <1>3, <1>4, OffsetMoves, OffsetBetween DEF IInv
<1>8. PICK moved \in Int :
        /\ Timeline(now)' - Timeline(now) = moved
        /\ moved = IF held.holds THEN passed
                   ELSE passed + (OffsetAt(later) - OffsetAt(now))
  BY <1>1, <1>3, <1>4, <1>6, <1>7 DEF Timeline
<1>9. moved >= 0 /\ 1000 * Distance(moved, passed) <= SlewPerMille * passed + 999
  <2>1. CASE held.holds
    <3>1. SlewPerMille * passed \in Nat
      BY ClockAssumption
    <3> QED
      BY <1>8, <2>1, <3>1 DEF Distance
  <2>2. CASE ~ held.holds
    <3>1. moved >= 0
      BY <1>7, <1>8, <2>2 DEF Distance
    <3>2. Distance(moved, passed) = Distance(OffsetAt(later), OffsetAt(now))
      BY <1>7, <1>8, <2>2 DEF Distance
    <3> QED
      BY <1>7, <3>1, <3>2
  <2> QED
    BY <2>1, <2>2
<1> QED
  BY <1>2, <1>4, <1>8, <1>9

(* A step of time moves the timeline forward, at the speed of the slew     *)
(* (offset_at).                                                            *)
THEOREM TimelineNeverBack == Spec => NeverBack
<1>1. ASSUME IInv
      PROVE  [TimePasses /\ Synchronized =>
                LET moved == Timeline(now)' - Timeline(now) IN
                /\ moved >= 0
                /\ 1000 * Distance(moved, now' - now)
                     <= SlewPerMille * (now' - now) + 999]_vars
  BY <1>1, TimeStep
<1> QED
  BY <1>1, Invariant, PTL DEF NeverBack

(* Just after a pong moved the slew, the offset applied is where it starts.*)
LEMMA OffsetRestarts ==
  ASSUME NEW x \in Int, now \in Nat, now' = now,
         slew' = [since |-> now, from |-> x], held' = NotHeld
  PROVE  Timeline(now)' = now + x - epoch'
<1>1. OffsetAt(now)' = Applied(slew', estimate', now')
  BY DEF OffsetAt, Applied
<1>2. slew'.since = now /\ slew'.from = x
  OBVIOUS
<1>3. Applied(slew', estimate', now) = x
  BY <1>2 DEF Applied
<1>4. OffsetAt(now)' = x
  BY <1>1, <1>3
<1>5. ~ held'.holds
  BY DEF NotHeld
<1> QED
  BY <1>4, <1>5 DEF Timeline

Unjumped(was) ==
  \/ Timeline(now)' = was
  \/ /\ Timeline(now)' = now + estimate'.offset - epoch'
     /\ Distance(Timeline(now)', was) > StepUsec

(* The timeline after a pong from which the slew starts again, with "was"  *)
(* where the timeline was on the master's epoch.                           *)
LEMMA RestartStays ==
  ASSUME NEW o \in Int, NEW e \in Int, NEW best \in Sample, estimate' = best,
         now \in Nat, now' = now, held' = NotHeld, epoch' = e,
         slew' = [since |-> now, from |-> StartAt(o, best.offset)]
  PROVE  Unjumped(now + o - e)
<1>1. best.offset \in Int /\ StepUsec \in Nat
  BY ClockAssumption DEF Sample
<1>2. PICK x \in Int :
        /\ x = StartAt(o, best.offset)
        /\ x = o \/ (x = best.offset /\ Distance(best.offset, o) > StepUsec)
  BY <1>1 DEF StartAt
<1>3. Timeline(now)' = now + x - epoch'
  BY <1>2, OffsetRestarts
<1>4. CASE x = o
  BY <1>3, <1>4 DEF Unjumped
<1>5. CASE x = best.offset /\ Distance(best.offset, o) > StepUsec
  <2>1. Distance(now + x - e, now + o - e) = Distance(best.offset, o)
    BY <1>1, <1>5 DEF Distance
  <2> QED
    BY <1>3, <1>5, <2>1 DEF Unjumped
<1> QED
  BY <1>2, <1>4, <1>5

LEMMA PongStays ==
  ASSUME IInv, NEW s \in Sample, Sampled(s), Synchronized
  PROVE  Unjumped(IF held.holds THEN Timeline(now)
                  ELSE now + OffsetAt(now) - epoch')
<1>1. TypeOK'
  BY PongKeepsTypes DEF IInv
<1>2. PICK best \in Sample : estimate' = best
  BY <1>1 DEF TypeOK
<1>3. /\ now \in Nat /\ now' = now /\ OffsetAt(now) \in Int
      /\ true.epoch \in Int /\ held.offset \in Int /\ held.epoch \in Int
  <2>1. TypeOK /\ now \in Nat
    BY DEF IInv, TypeOK
  <2>2. OffsetAt(now) \in Int
    BY <2>1, OffsetBetween
  <2> QED
    BY <2>1, <2>2, ClockAssumption DEF TypeOK, Sampled
<1>4. CASE held.holds /\ UNCHANGED <<slew, epoch, held>>
  <2>1. Timeline(now)' = Timeline(now)
    BY <1>3, <1>4 DEF Timeline
  <2> QED
    BY <1>4, <2>1 DEF Unjumped
<1>5. CASE /\ held.holds /\ held' = NotHeld /\ epoch' = true.epoch
           /\ slew' = [since |-> now, from |-> StartAt(Continued, best.offset)]
  <2>1. PICK o \in Int : o = Continued
    BY <1>3 DEF Continued
  <2>2. Unjumped(now + o - true.epoch)
    BY <1>2, <1>3, <1>5, <2>1, RestartStays
  <2>3. now + o - true.epoch = Timeline(now)
    BY <1>3, <1>5, <2>1 DEF Continued, Timeline
  <2> QED
    BY <1>5, <2>2, <2>3
<1>6. CASE /\ ~ held.holds /\ held' = NotHeld /\ epoch' = true.epoch
           /\ slew' = [since |-> now,
                       from |-> StartAt(OffsetAt(now), best.offset)]
  <2>1. PICK o \in Int : o = OffsetAt(now)
    BY <1>3
  <2>2. Unjumped(now + o - true.epoch)
    BY <1>2, <1>3, <1>6, <2>1, RestartStays
  <2> QED
    BY <1>6, <2>1, <2>2
<1>7. \/ held.holds /\ UNCHANGED <<slew, epoch, held>>
      \/ /\ held' = NotHeld /\ epoch' = true.epoch
         /\ slew' = [since |-> now,
                     from |-> IF held.holds THEN StartAt(Continued, best.offset)
                              ELSE StartAt(OffsetAt(now), best.offset)]
  BY <1>2 DEF Sampled
<1> QED
  BY <1>4, <1>5, <1>6, <1>7

LEMMA MasterStays ==
  ASSUME IInv, MasterMoves, Synchronized
  PROVE  Timeline(now)' = Timeline(now)
<1>1. now' = now
  BY DEF MasterMoves
<1>2. /\ held'.holds
      /\ held'.offset = IF held.holds THEN held.offset ELSE OffsetAt(now)
      /\ held'.epoch = IF held.holds THEN held.epoch ELSE epoch
  BY DEF MasterMoves
<1> QED
  BY <1>1, <1>2 DEF Timeline

(* A pong, and a change of the master, leave the timeline of a node that   *)
(* is synchronized where it was, on the epoch of the master, unless it is  *)
(* further off than the step (add_sample, hold).                           *)
THEOREM TimelineNoJump == Spec => NoJump
<1>1. ASSUME IInv
      PROVE  [/\ Pong /\ Synchronized =>
                   LET was == IF held.holds THEN Timeline(now)
                              ELSE now + OffsetAt(now) - epoch'
                       is == Timeline(now)'
                   IN  \/ is = was
                       \/ /\ is = now + estimate'.offset - epoch'
                          /\ Distance(is, was) > StepUsec
              /\ MasterMoves /\ Synchronized => Timeline(now)' = Timeline(now)
             ]_vars
  <2>1. ASSUME Pong, Synchronized
        PROVE  Unjumped(IF held.holds THEN Timeline(now)
                        ELSE now + OffsetAt(now) - epoch')
    <3>1. PICK s \in Sample : Close(s) /\ Sampled(s)
      BY <1>1, <2>1, PongSamples DEF IInv
    <3> QED
      BY <1>1, <2>1, <3>1, PongStays
  <2>2. ASSUME MasterMoves, Synchronized
        PROVE  Timeline(now)' = Timeline(now)
    BY <1>1, <2>2, MasterStays
  <2> QED
    BY <2>1, <2>2 DEF Unjumped
<1> QED
  BY <1>1, Invariant, PTL DEF NoJump
=============================================================================
