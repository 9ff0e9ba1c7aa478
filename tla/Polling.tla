------------------------------- MODULE Polling -------------------------------
(***************************************************************************)
(* The start of a statement (stmgo), the countdown that leads it to check  *)
(* something (stgcc), the statement limit (asg16, stcov), the poll (zyspl) *)
(* and the console break (break.c).  catchbrk runs on a thread of its own, *)
(* between any two steps of the program.                                   *)
(*                                                                         *)
(* stmct counts down from stmcs; when it reaches zero the stmcs statements *)
(* are charged to kvstc, what is left of &STLIMIT (kvstl), and the program *)
(* polls.  &STCOUNT is kvstl - kvstc + stmcs - stmct.                     *)
(***************************************************************************)
EXTENDS Integers

CONSTANTS
  Limits,      (* What the program assigns to &STLIMIT; negative is none.  *)
  FirstLimit,  (* stlim, the default.                                      *)
  Grace,       (* intvt, 10: the statements stcov adds to the limit.       *)
  PollCount,   (* The statements between polls, the largest word.          *)
  MaxErrors,   (* 3: the fatal errors that end a program.                  *)
  MaxBreaks,   (* Bound: console breaks.                                   *)
  MaxAssigned  (* Bound: assignments that set the countdown.               *)

ASSUME PollingAssumption ==
  /\ FirstLimit \in Nat \ {0} /\ Grace \in Nat \ {0} /\ Limits \subseteq Int
  /\ PollCount \in Nat \ {0} /\ MaxErrors \in Nat \ {0}
  /\ MaxBreaks \in Nat /\ MaxAssigned \in Nat

VARIABLES
  stmct, stmcs,     (* The countdown, a word, and where it started.        *)
  polct, polcs,     (* The same for polls, counted in checks.              *)
  kvstl, kvstc,     (* &STLIMIT, and what is left of it.                   *)
  profile, traced,  (* &PROFILE is not 0 (kvpfl); &STCOUNT is traced.      *)
  errft,            (* The fatal errors so far.                            *)
  brkpnd, armed,    (* Breaks that wait; whether SIGINT has its handler.   *)
  catchbrk,         (* What the handler writes next, or "idle".            *)
  at, saved,        (* The step of stmgo, and the word it has stacked.     *)
  breaks, assigned, (* The breaks and the assignments so far.              *)
  started, exact,   (* History: statements started while they count, and   *)
                    (* that nothing has reset the countdown uncharged;     *)
  forgotten,        (* statements beyond the limits that were exceeded.    *)
  extra             (* History: statements since a limit was exceeded.     *)

counters == <<stmct, stmcs, polct, polcs>>
limits   == <<kvstl, kvstc, errft>>
traces   == <<profile, traced>>
console  == <<brkpnd, armed, breaks, catchbrk>>
history  == <<started, exact, forgotten, extra>>
vars == <<counters, limits, traces, assigned, console, at, saved, history>>

(* A countdown is a word: below zero it starts again at the largest.      *)
Minus(a, b) == IF a >= b THEN a - b ELSE a - b + PollCount + 1
Less(n) == Minus(n, 1)
Least(a, b) == IF a <= b THEN a ELSE b
Counting == kvstc >= 0

(***************************************************************************)
(* stgcc: check every statement when the program is profiled, or when      *)
(* &STCOUNT is traced and there is a limit, and else when the poll or the  *)
(* limit is due.                                                           *)
(***************************************************************************)
Watched(limit, prof, trc) == prof \/ (trc /\ limit >= 0)

Interval(polls, limit, watched) ==
  IF watched THEN 1 ELSE IF limit < 0 THEN polls ELSE Least(polls, limit)

StgCC(polls, limit, watched) ==
  /\ stmcs' = Interval(polls, limit, watched)
  /\ stmct' = stmcs'
  /\ polct' = IF watched THEN polls ELSE 1

(* Mutant: asg16 forgets the statements since the last check. *)
SetLimitUncharged(new) ==
  /\ at = "run" /\ new # kvstl /\ assigned < MaxAssigned
  /\ assigned' = assigned + 1
  /\ kvstl' = new
  /\ kvstc' = new - kvstl + kvstc
  /\ StgCC(polcs, new, Watched(new, profile, traced))
  /\ exact' = (exact /\ kvstl >= 0 /\ kvstc' >= 0)
  /\ UNCHANGED <<polcs, errft, traces, console, at, saved, started, forgotten, extra>>

(* What a running statement may assign.  asg16 takes the statements since  *)
(* the last check off the new count; the others leave them out.            *)
SetLimit(new) ==
  /\ at = "run" /\ new # kvstl /\ assigned < MaxAssigned
  /\ assigned' = assigned + 1
  /\ kvstl' = new
  /\ kvstc' = new - kvstl + kvstc - IF kvstl < 0 THEN 0 ELSE stmcs - stmct
  /\ StgCC(polcs, new, Watched(new, profile, traced))
  /\ exact' = (exact /\ kvstl >= 0 /\ kvstc' >= 0)
  /\ UNCHANGED <<polcs, errft, traces, console, at, saved, started, forgotten, extra>>

(* asg23: &PROFILE is set to 1 or 2, again perhaps.                        *)
StartProfile ==
  /\ at = "run" /\ assigned < MaxAssigned
  /\ assigned' = assigned + 1
  /\ profile' = TRUE
  /\ StgCC(polcs, kvstl, Watched(kvstl, TRUE, traced))
  /\ exact' = (exact /\ stmct = stmcs)
  /\ UNCHANGED <<polcs, limits, traced, console, at, saved, started, forgotten, extra>>

(* asg15: &PROFILE = 0 leaves the countdown as it is.                      *)
StopProfile ==
  /\ at = "run" /\ profile
  /\ profile' = FALSE
  /\ UNCHANGED <<counters, limits, traced, assigned, console, at, saved, history>>

(* trc09: TRACE or STOPTR of STCOUNT.                                      *)
TraceCount(on) ==
  /\ at = "run" /\ assigned < MaxAssigned
  /\ assigned' = assigned + 1
  /\ traced' = on
  /\ StgCC(polcs, kvstl, Watched(kvstl, profile, on))
  /\ exact' = (exact /\ stmct = stmcs)
  /\ UNCHANGED <<polcs, limits, profile, console, at, saved, started, forgotten, extra>>

(***************************************************************************)
(* stmgo.                                                                  *)
(***************************************************************************)
Started ==
  /\ started' = IF exact /\ Counting THEN started + 1 ELSE started
  /\ extra' = IF extra > Grace \/ errft = 0 THEN extra ELSE extra + 1
  /\ UNCHANGED <<exact, forgotten>>

Begin ==
  /\ at \in {"begin", "run"}
  /\ stmct' = Less(stmct)
  /\ at' = IF stmct' = 0 THEN "check" ELSE "run"
  /\ Started
  /\ UNCHANGED <<stmcs, polct, polcs, limits, traces, assigned, console, saved>>


Check ==
  /\ at = "check"
  /\ saved' = stmcs
  /\ polct' = Less(polct)
  /\ at' = IF polct' = 0 THEN "poll" ELSE "charge"
  /\ UNCHANGED <<stmct, stmcs, polcs, limits, traces, assigned, console, history>>

(* zyspl: a break that waits is cleared, the handler set again, and the    *)
(* statement ends with error 320.                                          *)
Poll ==
  /\ at = "poll"
  /\ at' = IF brkpnd # 0 THEN "clear" ELSE "recount"
  /\ UNCHANGED <<counters, limits, traces, assigned, console, saved, history>>

ClearBreak ==
  /\ at = "clear"
  /\ brkpnd' = 0
  /\ at' = "rearm"
  /\ UNCHANGED <<counters, limits, traces, assigned, armed, breaks, catchbrk, saved,
                 history>>

(* Mutant: rearmbrk is not called. *)
RearmNot ==
  /\ at = "rearm"
  /\ polcs' = 1 /\ polct' = 1
  /\ at' \in {"run", "stopped"}
  /\ exact' = FALSE
  /\ UNCHANGED <<stmct, stmcs, limits, traces, assigned, console, saved, started,
                 forgotten, extra>>

(* The error resets the poll interval and not the countdown; a setexit     *)
(* trap or &ERRLIMIT lets the program go on.                               *)
Rearm ==
  /\ at = "rearm"
  /\ armed' = TRUE
  /\ polcs' = 1 /\ polct' = 1
  /\ at' \in {"run", "stopped"}
  /\ exact' = FALSE
  /\ UNCHANGED <<stmct, stmcs, limits, traces, assigned, brkpnd, breaks, catchbrk, saved,
                 started, forgotten, extra>>

Recount ==
  /\ at = "recount"
  /\ polcs' = PollCount
  /\ StgCC(polcs', kvstl, Watched(kvstl, profile, traced))
  /\ at' = "charge"
  /\ UNCHANGED <<limits, traces, assigned, console, saved, history>>

Charge ==
  /\ at = "charge" /\ ~(Counting /\ kvstc - saved <= 0)
  /\ kvstc' = IF Counting THEN kvstc - saved ELSE kvstc
  /\ at' = "reset"
  /\ UNCHANGED <<counters, kvstl, errft, traces, assigned, console, saved, history>>

(* stcov: the limit is exceeded.  A setexit trap gets Grace statements, and *)
(* the statements that were executed beyond the limit are forgotten.       *)
Exceeded ==
  /\ at = "charge" /\ Counting /\ kvstc - saved <= 0
  /\ errft' = errft + 1
  /\ kvstl' = kvstl + Grace
  /\ kvstc' = Grace
  /\ stmcs' = Interval(polcs, kvstl', Watched(kvstl', profile, traced))
  /\ stmct' = stmcs'
  /\ polcs' = 1 /\ polct' = 1
  /\ at' \in (IF errft' >= MaxErrors THEN {} ELSE {"run"}) \cup {"stopped"}
  /\ forgotten' = IF exact THEN forgotten + saved - kvstc ELSE forgotten
  /\ extra' = 0
  /\ UNCHANGED <<traces, assigned, console, saved, started, exact>>

Reset ==
  /\ at = "reset"
  /\ stmct' = stmcs
  /\ at' = "run"
  /\ UNCHANGED <<stmcs, polct, polcs, limits, traces, assigned, console, saved, history>>

(***************************************************************************)
(* catchbrk, one step for each variable it shares with the program.  The   *)
(* system takes the handler away when it calls it; a break without one     *)
(* ends the process.  The C names stmct and stmcs are the runtime's own    *)
(* variables, and none is volatile: the compiler may subtract the 1 it has *)
(* just stored in stmct or read it back, and a decrement under way in the  *)
(* program may overwrite what the handler stores.                          *)
(***************************************************************************)
BreakHandled ==
  /\ armed /\ catchbrk = "idle" /\ at # "stopped" /\ breaks < MaxBreaks
  /\ brkpnd' = brkpnd + 1
  /\ armed' = FALSE /\ breaks' = breaks + 1
  /\ catchbrk' = "stmct"
  /\ exact' = FALSE
  /\ UNCHANGED <<counters, limits, traces, assigned, at, saved, started, forgotten, extra>>

ForceCheck ==
  /\ catchbrk = "stmct"
  /\ stmct' \in {1} \cup (IF at \in {"begin", "run"} THEN {stmct} ELSE {})
  /\ catchbrk' = "stmcs"
  /\ UNCHANGED <<stmcs, polct, polcs, limits, traces, assigned, brkpnd, armed, breaks, at,
                 saved, history>>

Uncharge ==
  /\ catchbrk = "stmcs"
  /\ stmcs' \in {Minus(stmcs, 1), Minus(stmcs, stmct)}
  /\ catchbrk' = "polct"
  /\ UNCHANGED <<stmct, polct, polcs, limits, traces, assigned, brkpnd, armed, breaks, at,
                 saved, history>>

ForcePoll ==
  /\ catchbrk = "polct"
  /\ polct' \in {1} \cup (IF at = "check" THEN {polct} ELSE {})
  /\ catchbrk' = "idle"
  /\ UNCHANGED <<stmct, stmcs, polcs, limits, traces, assigned, brkpnd, armed, breaks, at,
                 saved, history>>

BreakKills ==
  /\ ~armed /\ at # "stopped" /\ breaks < MaxBreaks
  /\ breaks' = breaks + 1
  /\ at' = "stopped"
  /\ UNCHANGED <<counters, limits, traces, assigned, brkpnd, armed, catchbrk, saved,
                 history>>

(* The program ends, or has ended. *)
Finish ==
  /\ at \in {"begin", "run", "stopped"}
  /\ at' = "stopped"
  /\ UNCHANGED <<counters, limits, traces, assigned, console, saved, history>>

(* iniy0: the first statement polls. *)
Init ==
  /\ polcs = 1 /\ polct = 1 /\ stmcs = 1 /\ stmct = 1
  /\ kvstl = FirstLimit /\ kvstc = FirstLimit /\ errft = 0
  /\ profile = FALSE /\ traced = FALSE
  /\ brkpnd = 0 /\ armed = TRUE /\ breaks = 0 /\ catchbrk = "idle" /\ assigned = 0
  /\ at = "begin" /\ saved = 0
  /\ started = 0 /\ exact = TRUE /\ forgotten = 0 /\ extra = 0

Statement == \/ Begin \/ Check \/ Poll \/ ClearBreak \/ Rearm \/ Recount
             \/ Charge \/ Exceeded \/ Reset

Next == \/ \E l \in Limits : SetLimit(l)
        \/ StartProfile \/ StopProfile \/ \E on \in BOOLEAN : TraceCount(on)
        \/ Statement \/ Finish
        \/ BreakHandled \/ ForceCheck \/ Uncharge \/ ForcePoll \/ BreakKills

(* A program executes statements until it ends. *)
Spec == Init /\ [][Next]_vars /\ WF_vars(Statement)

-----------------------------------------------------------------------------
(* Type correctness: the countdowns are words. *)
TypeOK ==
  /\ stmct \in 0..PollCount /\ stmcs \in 0..PollCount
  /\ polct \in 0..PollCount /\ polcs \in 1..PollCount
  /\ kvstl \in Int /\ kvstc \in Int /\ errft \in 0..MaxErrors
  /\ brkpnd \in 0..MaxBreaks /\ armed \in BOOLEAN /\ breaks \in 0..MaxBreaks
  /\ catchbrk \in {"idle", "stmct", "stmcs", "polct"}
  /\ at \in {"begin", "run", "check", "poll", "clear", "rearm", "recount", "charge",
             "reset", "stopped"}
  /\ saved \in 0..PollCount /\ started \in Nat /\ exact \in BOOLEAN
  /\ forgotten \in Nat

(* &STCOUNT is the number of statements started less those that stcov has  *)
(* forgotten, the ones beyond each limit exceeded: polls, checks and        *)
(* assignments to &STLIMIT lose none, and stcov loses no other.             *)
CountExact ==
  at = "run" /\ exact => kvstl - kvstc + stmcs - stmct = started - forgotten


(* An armed handler means that no break waits except one that zyspl is     *)
(* about to report: so a second break only kills before the first is seen. *)
RearmedWhenSeen == brkpnd = 0 /\ at # "stopped" => armed \/ at = "rearm"

(* stcov: permit up to 10 more statements to be obeyed.  It does not hold: *)
(* Exceeded sets the countdown from the whole limit.                       *)
TenMoreStatements == extra <= Grace
=============================================================================
