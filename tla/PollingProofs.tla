---------------------------- MODULE PollingProofs ----------------------------
(* What holds of the countdown and of the console break for every limit,    *)
(* every interval and any number of breaks and assignments.                 *)
EXTENDS Polling, TLAPS

(* The statements started that kvstc has not been charged for. *)
Uncharged == IF at \in {"begin", "run"} THEN stmcs - stmct
             ELSE IF at = "check" THEN stmcs
             ELSE IF at = "reset" THEN 0 ELSE saved

(* The bounds behind the types: a program that runs can have another fatal  *)
(* error, and brkpnd counts breaks.                                         *)
Bounds ==
  /\ at # "stopped" => errft < MaxErrors
  /\ brkpnd <= breaks

(* While nothing has reset the countdown: no break has come, the limit is   *)
(* in force, the countdown has not run out unseen, and every statement is   *)
(* either charged or in the countdown.                                      *)
CountInv ==
  exact =>
    /\ brkpnd = 0 /\ catchbrk = "idle" /\ at \notin {"clear", "rearm"}
    /\ kvstc >= 0 /\ kvstl > 0 /\ stmcs > 0
    /\ at \in {"begin", "run"} => stmct > 0
    /\ started >= forgotten /\ (at \notin {"begin", "stopped"} => started > forgotten)
    /\ at # "stopped" => kvstl - kvstc + Uncharged = started - forgotten

RearmInv == brkpnd = 0 /\ at # "stopped" => armed \/ at = "rearm"

IInv == TypeOK /\ Bounds /\ CountInv /\ RearmInv

(* Words stay words when they are counted down or subtracted.               *)
LEMMA MinusIsWord ==
  ASSUME NEW a \in 0..PollCount, NEW b \in 0..PollCount
  PROVE  Minus(a, b) \in 0..PollCount
BY PollingAssumption DEF Minus

(* One less is in the word again.                                           *)
LEMMA LessIsWord ==
  ASSUME NEW a \in 0..PollCount
  PROVE  /\ Less(a) \in 0..PollCount
         /\ a > 0 => Less(a) = a - 1
BY PollingAssumption DEF Minus, Less

(* stgcc sets a countdown that is a word, and that is not zero while the    *)
(* limit is not.                                                            *)
LEMMA IntervalIsWord ==
  ASSUME NEW polls \in 1..PollCount, NEW limit \in Int, NEW watched
  PROVE  /\ Interval(polls, limit, watched) \in 0..PollCount
         /\ limit > 0 => Interval(polls, limit, watched) > 0
BY PollingAssumption DEF Interval, Least

(* It holds at first.                                                       *)
LEMMA InitHolds == Init => IInv
BY PollingAssumption DEF Init, IInv, TypeOK, Bounds, CountInv, RearmInv, Uncharged

(* An assignment to &STLIMIT charges what the countdown has counted, so the *)
(* sum keeps.                                                               *)
LEMMA SetLimitHolds == ASSUME IInv, NEW l \in Limits, SetLimit(l) PROVE IInv'
<1> DEFINE N == Interval(polcs, l, Watched(l, profile, traced))
<1>1. l \in Int  BY PollingAssumption
<1>2. N \in 0..PollCount /\ (l > 0 => N > 0)
  BY <1>1, IntervalIsWord DEF IInv, TypeOK, SetLimit
<1>3. stmct' = N /\ stmcs' = N
  BY DEF SetLimit, StgCC
<1>4. polct' \in {polcs, 1}
  BY Zenon DEF SetLimit, StgCC
<1> HIDE DEF N
<1>5. TypeOK'
  <2>1. exact' \in BOOLEAN  BY Zenon DEF SetLimit
  <2> QED BY <1>1, <1>2, <1>3, <1>4, <2>1, PollingAssumption DEF IInv, TypeOK, SetLimit, console
<1>6. Bounds'
  BY DEF IInv, Bounds, SetLimit, console
<1>7. CountInv'
  <2>1. exact' => exact /\ kvstl >= 0 /\ kvstc' >= 0
    BY ZenonT(30) DEF SetLimit
  <2> QED BY <1>1, <1>2, <1>3, <2>1 DEF IInv, TypeOK, CountInv, Uncharged, SetLimit, console
<1>8. RearmInv'
  BY DEF IInv, RearmInv, SetLimit, console
<1> QED BY <1>5, <1>6, <1>7, <1>8 DEF IInv

(* What asg23 and trc09 have in common keeps it: stgcc, which loses nothing *)
(* when the countdown has counted nothing.                                  *)
LEMMA RecountedHolds ==
  ASSUME IInv, NEW watched, at = "run", StgCC(polcs, kvstl, watched),
         exact' = (exact /\ stmct = stmcs), assigned' = assigned + 1,
         UNCHANGED <<polcs, limits, console, at, saved, started, forgotten>>
  PROVE  IInv'
<1> DEFINE N == Interval(polcs, kvstl, watched)
<1>1. N \in 0..PollCount /\ (kvstl > 0 => N > 0)
  BY IntervalIsWord DEF IInv, TypeOK
<1>2. stmct' = N /\ stmcs' = N
  BY DEF StgCC
<1>3. polct' \in {polcs, 1}
  BY Zenon DEF StgCC
<1> HIDE DEF N
<1>4. exact' \in BOOLEAN /\ (exact' => exact /\ stmct = stmcs)
  BY Zenon
<1>5. TypeOK'
  BY <1>1, <1>2, <1>3, <1>4, PollingAssumption DEF IInv, TypeOK, console, limits
<1>6. Bounds' /\ RearmInv'
  BY DEF IInv, Bounds, RearmInv, console, limits
<1>7. CountInv'
  BY <1>1, <1>2, <1>4 DEF IInv, TypeOK, CountInv, Uncharged, console, limits
<1> QED BY <1>5, <1>6, <1>7 DEF IInv

(* Profiling and tracing &STCOUNT keep it.                                  *)
LEMMA TracesHold ==
  ASSUME IInv, StartProfile \/ StopProfile \/ (\E on \in BOOLEAN : TraceCount(on))
  PROVE  IInv'
<1>1. CASE StartProfile
  BY <1>1, RecountedHolds, Zenon DEF StartProfile
<1>2. CASE \E on \in BOOLEAN : TraceCount(on)
  <2>1. PICK on \in BOOLEAN : TraceCount(on)  BY <1>2
  <2> QED BY <2>1, RecountedHolds, Zenon DEF TraceCount
<1>3. CASE StopProfile
  BY <1>3 DEF IInv, TypeOK, Bounds, CountInv, RearmInv, Uncharged, StopProfile, console, limits,
              history, counters
<1> QED BY <1>1, <1>2, <1>3

(* The steps of stmgo that count.                                           *)
LEMMA BeginHolds == ASSUME IInv, Begin PROVE IInv'
<1>1. Less(stmct) \in 0..PollCount /\ (stmct > 0 => Less(stmct) = stmct - 1)
  BY LessIsWord DEF IInv, TypeOK
<1>2. TypeOK'
  BY <1>1 DEF IInv, TypeOK, Begin, Started, console, limits
<1>3. Bounds' /\ RearmInv'
  BY DEF IInv, Bounds, RearmInv, Begin, console, limits
<1>4. CountInv'
  <2>1. exact' = exact /\ forgotten' = forgotten /\ kvstl' = kvstl /\ kvstc' = kvstc
    BY DEF Begin, Started, limits
  <2>2. exact => started' = started + 1
    BY DEF IInv, CountInv, Begin, Started, Counting
  <2>3. exact => started >= forgotten
    BY DEF IInv, CountInv
  <2>4. exact /\ at = "begin" => kvstl - kvstc + stmcs - stmct = started - forgotten
    BY DEF IInv, CountInv, Uncharged, TypeOK
  <2> QED BY <1>1, <2>1, <2>2, <2>3, <2>4
          DEF IInv, TypeOK, CountInv, Uncharged, Begin, console
<1> QED BY <1>2, <1>3, <1>4 DEF IInv

(* Checking the countdown keeps it.                                         *)
LEMMA CheckHolds == ASSUME IInv, Check PROVE IInv'
<1>1. Less(polct) \in 0..PollCount
  BY LessIsWord DEF IInv, TypeOK
<1> QED BY <1>1 DEF IInv, TypeOK, Bounds, CountInv, RearmInv, Uncharged, Check, console,
                    limits, history

(* Polling keeps it.                                                        *)
LEMMA PollHolds == ASSUME IInv, Poll \/ ClearBreak \/ Rearm PROVE IInv'
<1>1. CASE Poll
  BY <1>1 DEF IInv, TypeOK, Bounds, CountInv, RearmInv, Uncharged, Poll, console, limits,
              history, counters
<1>2. CASE ClearBreak
  <2>1. ~exact  BY <1>2 DEF IInv, CountInv, ClearBreak
  <2> QED BY <1>2, <2>1, PollingAssumption DEF IInv, TypeOK, Bounds, CountInv, RearmInv,
                            ClearBreak, limits, history, counters
<1>3. CASE Rearm
  <2>1. ~exact' /\ armed' /\ exact' \in BOOLEAN /\ armed' \in BOOLEAN
    BY <1>3, Zenon DEF Rearm
  <2>2. TypeOK' /\ Bounds'
    BY <1>3, <2>1, PollingAssumption DEF IInv, TypeOK, Bounds, Rearm, limits
  <2> QED BY <2>1, <2>2, Zenon DEF IInv, CountInv, RearmInv
<1> QED BY <1>1, <1>2, <1>3

(* Starting the countdown again keeps it.                                   *)
LEMMA RecountHolds == ASSUME IInv, Recount PROVE IInv'
<1>1. PollCount \in 1..PollCount  BY PollingAssumption
<1> DEFINE N == Interval(PollCount, kvstl, Watched(kvstl, profile, traced))
<1>2. N \in 0..PollCount /\ (kvstl > 0 => N > 0)
  BY <1>1, IntervalIsWord DEF IInv, TypeOK
<1>3. stmct' = N /\ stmcs' = N /\ polcs' = PollCount
  BY DEF Recount, StgCC
<1>4. polct' \in {PollCount, 1}
  BY <1>3, Zenon DEF Recount, StgCC
<1> HIDE DEF N
<1> QED BY <1>1, <1>2, <1>3, <1>4 DEF IInv, TypeOK, Bounds, CountInv, RearmInv, Uncharged,
                                      Recount, console, limits, history

(* Charging a statement keeps it.                                           *)
LEMMA ChargeHolds == ASSUME IInv, Charge \/ Reset PROVE IInv'
<1>1. CASE Charge
  BY <1>1 DEF IInv, TypeOK, Bounds, CountInv, RearmInv, Uncharged, Charge, Counting, console,
              history, counters
<1>2. CASE Reset
  BY <1>2 DEF IInv, TypeOK, Bounds, CountInv, RearmInv, Uncharged, Reset, console, history,
              limits
<1> QED BY <1>1, <1>2

(* Exceeding the limit keeps it: the count falls to the limit exceeded, and *)
(* what it falls by is forgotten.                                           *)
LEMMA ExceededHolds == ASSUME IInv, Exceeded PROVE IInv'
<1> DEFINE N == Interval(polcs, kvstl + Grace, Watched(kvstl + Grace, profile, traced))
<1>1. kvstl + Grace \in Int  BY PollingAssumption DEF IInv, TypeOK
<1>2. N \in 0..PollCount /\ (kvstl + Grace > 0 => N > 0)
  BY <1>1, IntervalIsWord DEF IInv, TypeOK
<1>3. stmct' = N /\ stmcs' = N
  BY DEF Exceeded
<1> HIDE DEF N
<1>4. forgotten' = IF exact THEN forgotten + saved - kvstc ELSE forgotten
  BY DEF Exceeded
<1>5. forgotten' \in Nat
  BY <1>4 DEF IInv, TypeOK, Exceeded
<1>6. TypeOK'
  BY <1>1, <1>2, <1>3, <1>5, PollingAssumption DEF IInv, TypeOK, Bounds, Exceeded, console
<1>7. Bounds'
  BY PollingAssumption DEF IInv, TypeOK, Bounds, Exceeded, console
<1>8. CountInv'
  BY <1>2, <1>3, <1>4, PollingAssumption
     DEF IInv, TypeOK, CountInv, Uncharged, Exceeded, Counting, console
<1>9. RearmInv'
  BY DEF IInv, RearmInv, Exceeded, console
<1> QED BY <1>6, <1>7, <1>8, <1>9 DEF IInv

(* The handler: from the break on the count is not exact, and the handler   *)
(* comes off only as brkpnd goes up.                                        *)
LEMMA HandlerHolds ==
  ASSUME IInv, BreakHandled \/ ForceCheck \/ Uncharge \/ ForcePoll \/ BreakKills
  PROVE  IInv'
<1>1. CASE BreakHandled
  <2>1. ~exact' /\ exact' \in BOOLEAN /\ armed' \in BOOLEAN
    BY <1>1, Zenon DEF BreakHandled
  <2>2. TypeOK' /\ Bounds' /\ RearmInv'
    BY <1>1, <2>1, PollingAssumption DEF IInv, TypeOK, Bounds, RearmInv, BreakHandled, limits,
       counters
  <2> QED BY <2>1, <2>2, Zenon DEF IInv, CountInv
<1>2. CASE ForceCheck
  BY <1>2, PollingAssumption DEF IInv, TypeOK, Bounds, CountInv, RearmInv, Uncharged, ForceCheck,
              limits, history
<1>3. CASE Uncharge
  <2>1. 1 \in 0..PollCount  BY PollingAssumption
  <2>2. Minus(stmcs, 1) \in 0..PollCount /\ Minus(stmcs, stmct) \in 0..PollCount
    BY <2>1, MinusIsWord DEF IInv, TypeOK
  <2> QED BY <1>3, <2>2 DEF IInv, TypeOK, Bounds, CountInv, RearmInv, Uncharged, Uncharge,
                           limits, history
<1>4. CASE ForcePoll
  BY <1>4, PollingAssumption DEF IInv, TypeOK, Bounds, CountInv, RearmInv, Uncharged, ForcePoll,
              limits, history
<1>5. CASE BreakKills
  <2>1. TypeOK' /\ Bounds' /\ RearmInv'
    BY <1>5, PollingAssumption DEF IInv, TypeOK, Bounds, RearmInv, BreakKills, limits,
       history, counters
  <2>2. CountInv'
    BY <1>5 DEF IInv, TypeOK, CountInv, BreakKills, limits, history, counters
  <2> QED BY <2>1, <2>2 DEF IInv
<1> QED BY <1>1, <1>2, <1>3, <1>4, <1>5

(* The end of a statement keeps it.                                         *)
LEMMA FinishHolds == ASSUME IInv, Finish PROVE IInv'
BY DEF IInv, TypeOK, Bounds, CountInv, RearmInv, Uncharged, Finish, console, limits,
       history, counters

(* Every step keeps it.                                                     *)
LEMMA StepHolds == ASSUME IInv, [Next]_vars PROVE IInv'
<1>1. CASE \E l \in Limits : SetLimit(l)
  BY <1>1, SetLimitHolds
<1>2. CASE StartProfile \/ StopProfile \/ (\E on \in BOOLEAN : TraceCount(on))
  BY <1>2, TracesHold
<1>3. CASE Statement
  BY <1>3, BeginHolds, CheckHolds, PollHolds, RecountHolds, ChargeHolds, ExceededHolds
     DEF Statement
<1>4. CASE BreakHandled \/ ForceCheck \/ Uncharge \/ ForcePoll \/ BreakKills
  BY <1>4, HandlerHolds
<1>5. CASE Finish
  BY <1>5, FinishHolds
<1>6. CASE UNCHANGED vars
  BY <1>6 DEF vars, counters, limits, traces, console, history, IInv, TypeOK, Bounds, CountInv,
              RearmInv, Uncharged
<1> QED BY <1>1, <1>2, <1>3, <1>4, <1>5, <1>6 DEF Next

(* The counters of stmgo are words, whatever the program assigns and        *)
(* whenever a break comes.                                                  *)
THEOREM PollingTypeCorrect == Spec => []TypeOK
<1>1. IInv => TypeOK  BY DEF IInv
<1> QED BY <1>1, InitHolds, StepHolds, PTL DEF Spec

(* stmgo, stgcc and asg16 lose no statement of &STCOUNT, and stcov forgets  *)
(* exactly those beyond the limit that was exceeded, for every limit,       *)
(* interval and number of assignments.                                      *)
THEOREM StatementsCounted == Spec => []CountExact
<1>1. IInv => CountExact
  BY DEF IInv, TypeOK, CountInv, CountExact, Uncharged
<1> QED BY <1>1, InitHolds, StepHolds, PTL DEF Spec

(* zyspl sets the handler again for every break it reports: without a break *)
(* waiting the handler is on, or is about to be, for any number of breaks.  *)
THEOREM HandlerRearmed == Spec => []RearmedWhenSeen
<1>1. IInv => RearmedWhenSeen
  BY DEF IInv, RearmInv, RearmedWhenSeen
<1> QED BY <1>1, InitHolds, StepHolds, PTL DEF Spec
=============================================================================
