----------------------------- MODULE TickClock -----------------------------
(***************************************************************************)
(* The clock of a node that follows the clock master                       *)
(* (src/source/tick/tick_clock.cpp): it estimates how far the master's     *)
(* clock is from its own from ping round trips, moves the offset it        *)
(* applies slowly toward the estimate, and holds the timeline it followed  *)
(* while another node becomes the master, as handle_pong and adopt_roles   *)
(* (src/source/sync/tick_mesh_core.cpp) drive it.                          *)
(*                                                                         *)
(* Times are in microseconds and are far below the width of the counters   *)
(* (is_plausible_time), so they are integers here.                         *)
(***************************************************************************)
EXTENDS Integers, Sequences

CONSTANTS
  MaxSamples,    \* the window of samples (set_sample_window)
  MinSamples,    \* how many synchronize the clock
  SlewPerMille,  \* SLEW_PER_MILLE
  StepUsec,      \* STEP_USEC
  Masters,       \* the masters: how far their clocks are, and their epochs
  MaxTrip,       \* bound: the longest round trip
  MaxTime        \* bound: the local time the run ends at

ASSUME ClockAssumption ==
  /\ MaxSamples \in Nat /\ MinSamples \in 1 .. MaxSamples
  /\ SlewPerMille \in 0 .. 1000
  /\ StepUsec \in Nat
  /\ Masters \subseteq [offset : Int, epoch : Int]
  /\ MaxTrip \in Nat /\ MaxTime \in Nat

VARIABLES
  now,       \* the local time
  true,      \* the master that is followed, in fact
  samples,   \* the round trips: how long, and the offset each one gives
  next,      \* the slot of the next sample
  estimate,  \* the sample with the shortest round trip
  slew,      \* the applied offset: from where, and since when
  epoch,     \* the master time of frame 0
  held       \* the timeline of the previous master, while it is held

vars == <<now, true, samples, next, estimate, slew, epoch, held>>

Sample == [trip : Nat, offset : Int]
NoEstimate == [trip |-> 0, offset |-> 0]
NotHeld == [holds |-> FALSE, offset |-> 0, epoch |-> 0]

-----------------------------------------------------------------------------
Distance(a, b) == IF a > b THEN a - b ELSE b - a
Smaller(a, b) == IF a < b THEN a ELSE b

Synchronized == held.holds \/ Len(samples) >= MinSamples

MutantOffsetAt(t) == IF t <= slew.since THEN slew.from ELSE estimate.offset

(* The offset applied at local time t, on the way from slew to estimate.   *)
OffsetAt(t) ==
  LET moved == ((t - slew.since) * SlewPerMille) \div 1000
      remaining == Distance(estimate.offset, slew.from)
  IN  IF t <= slew.since THEN slew.from
      ELSE IF estimate.offset > slew.from
      THEN slew.from + Smaller(moved, remaining)
      ELSE slew.from - Smaller(moved, remaining)

(* Microseconds of the master's clock since frame 0.                       *)
Timeline(t) ==
  IF held.holds THEN t + held.offset - held.epoch ELSE t + OffsetAt(t) - epoch

(* A round trip from local time "sent" to now, with the master's time.     *)
MutantSampleOf(sent, stamp) == [trip |-> now - sent, offset |-> stamp - sent]

SampleOf(sent, stamp) ==
  LET trip == now - sent IN
  [trip |-> trip, offset |-> stamp - (sent + trip \div 2)]

MutantStored(s) ==
  IF Len(samples) <= MaxSamples THEN Append(samples, s)
  ELSE [samples EXCEPT ![next] = s]

Stored(s) ==
  IF Len(samples) < MaxSamples THEN Append(samples, s)
  ELSE [samples EXCEPT ![next] = s]

(* The first of the shortest round trips.                                  *)
Best(ss) ==
  LET i == CHOOSE i \in DOMAIN ss :
             /\ \A j \in DOMAIN ss : ss[i].trip <= ss[j].trip
             /\ \A j \in 1 .. (i - 1) : ss[i].trip < ss[j].trip
  IN  ss[i]

(* The offset to the new master with which the held timeline goes on.      *)
MutantContinued == held.offset
Continued == held.offset - held.epoch + true.epoch

(* Where the applied offset starts from: where it was, or the estimate if  *)
(* that is too far.                                                        *)
StartAt(was, new) == IF Distance(new, was) > StepUsec THEN new ELSE was

-----------------------------------------------------------------------------
Init ==
  /\ now = 0
  /\ true \in Masters
  /\ samples = <<>> /\ next = 1
  /\ estimate = NoEstimate
  /\ slew = [from |-> 0, since |-> 0]
  /\ epoch = 0
  /\ held = NotHeld

(* A pong of the master: its epoch, which applies once no timeline is      *)
(* held, then the sample.                                                  *)
Pong ==
  \E sent \in 0 .. now, delay \in 0 .. MaxTrip :
    LET ss == Stored(SampleOf(sent, sent + delay + true.offset))
        e == Best(ss)
        resumes == held.holds /\ Len(ss) >= MinSamples
    IN
    /\ now - sent <= MaxTrip
    /\ sent + delay <= now
    /\ samples' = ss
    /\ next' = (next % MaxSamples) + 1
    /\ estimate' = e
    /\ IF held.holds /\ ~ resumes
       THEN UNCHANGED <<slew, epoch, held>>
       ELSE /\ held' = NotHeld
            /\ epoch' = true.epoch
            /\ slew' = [since |-> now,
                        from |-> IF held.holds THEN StartAt(Continued, e.offset)
                                 ELSE IF ~ Synchronized THEN e.offset
                                 ELSE StartAt(OffsetAt(now), e.offset)]
    /\ UNCHANGED <<now, true>>

(* Another node is the master: a node with a timeline holds it.            *)
Cleared ==
  /\ samples' = <<>> /\ next' = 1
  /\ estimate' = NoEstimate
  /\ slew' = [from |-> 0, since |-> 0]

MasterMoves ==
  /\ true' \in Masters \ {true}
  /\ Cleared
  /\ held' = IF Synchronized
             THEN [holds |-> TRUE,
                   offset |-> IF held.holds THEN held.offset ELSE OffsetAt(now),
                   epoch |-> IF held.holds THEN held.epoch ELSE epoch]
             ELSE NotHeld
  /\ UNCHANGED <<now, epoch>>

(* The process that had the clock was not the mesh's: the samples are      *)
(* dropped (learn_role_boots).                                             *)
MasterForgotten ==
  /\ true' \in Masters
  /\ Cleared
  /\ held' = NotHeld
  /\ UNCHANGED <<now, epoch>>

(* The master's epoch moves: it dropped ticks (compute_epoch).             *)
EpochMoves ==
  /\ true' \in {m \in Masters : m.offset = true.offset}
  /\ UNCHANGED <<now, samples, next, estimate, slew, epoch, held>>

TimePasses ==
  /\ now' \in (now + 1) .. MaxTime
  /\ UNCHANGED <<true, samples, next, estimate, slew, epoch, held>>

Next == Pong \/ MasterMoves \/ MasterForgotten \/ EpochMoves \/ TimePasses
Spec == Init /\ [][Next]_vars

-----------------------------------------------------------------------------
TypeOK ==
  /\ now \in 0 .. MaxTime
  /\ true \in Masters
  /\ samples \in Seq(Sample) /\ Len(samples) <= MaxSamples
  /\ next \in 1 .. MaxSamples
  /\ estimate \in Sample
  /\ slew \in [from : Int, since : Nat]
  /\ epoch \in Int
  /\ held \in [holds : BOOLEAN, offset : Int, epoch : Int]

(* The estimate is never further from the master's clock than half the     *)
(* round trip it came from, also after the master changed, and the applied *)
(* offset is within the step of the estimate (add_sample, update_estimate, *)
(* clear_samples).                                                         *)
Accurate ==
  /\ samples # <<>> =>
       2 * Distance(estimate.offset, true.offset) <= estimate.trip + 1
  /\ Synchronized /\ ~ held.holds =>
       Distance(OffsetAt(now), estimate.offset) <= StepUsec

(* What is known of the master never moves the timeline of a synchronized  *)
(* node by itself: a pong leaves it where it was, on the master's epoch,   *)
(* unless it is further off than the step, and a change of master leaves   *)
(* it where it was (add_sample, hold).                                     *)
NoJump == [][
  /\ Pong /\ Synchronized =>
       LET was == IF held.holds THEN Timeline(now)
                  ELSE now + OffsetAt(now) - epoch'
           is == Timeline(now)'
       IN  \/ is = was
           \/ is = now + estimate'.offset - epoch' /\ Distance(is, was) > StepUsec
  /\ MasterMoves /\ Synchronized => Timeline(now)' = Timeline(now)
  ]_vars

(* As time passes the timeline of a synchronized node never goes back, and *)
(* gains or loses at most the slew (offset_at).                            *)
NeverBack == [][
  TimePasses /\ Synchronized =>
    LET moved == Timeline(now)' - Timeline(now) IN
    /\ moved >= 0
    /\ 1000 * Distance(moved, now' - now) <= SlewPerMille * (now' - now) + 999
  ]_vars
=============================================================================
