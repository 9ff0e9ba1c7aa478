------------------------- MODULE AssociationProofs -------------------------
(***************************************************************************)
(* Proofs about Association: no association points to a channel that       *)
(* ENDFILE took apart, the end of the run closes every file a variable was *)
(* associated with, and only an association that asks for it empties a     *)
(* file.                                                                   *)
(***************************************************************************)
EXTENDS Association, NaturalsInduction, WellFoundedInduction, SequenceTheorems, TLAPS

-----------------------------------------------------------------------------
(* The inductive invariant.                                                 *)

(* The options of a file argument, as sioarg leaves them.                   *)
Flags ==
  [ok : BOOLEAN, typ : BOOLEAN, inp : BOOLEAN, out : BOOLEAN, app : BOOLEAN,
   opn : BOOLEAN, sys : BOOLEAN, fdn : {0, 3}, ill : BOOLEAN]

Ioblks ==
  [arg : FileArg2, inp : BOOLEAN, out : BOOLEAN, app : BOOLEAN, opn : BOOLEAN,
   sys : BOOLEAN, fdn : {0, 2, 3, 4}, used : BOOLEAN]

Jobs ==
  [phase : {"alloc", "open", "finish"}, var : Variables \cup {Unsuitable},
   chan : Channels, out : BOOLEAN, want : {"all", "fcb", "none"}, tio : Flags,
   arg : FileArg2, save : Int, fcb : Nat, trt : Nat, fresh : BOOLEAN]

Typed ==
  /\ TypeOK
  /\ iobs \in Seq(Ioblks)
  /\ fcbs \in Seq([iob : Int])
  /\ trts \in Seq([fcb : Nat, names : SUBSET Variables])
  /\ chan \in [Channels -> Nat]
  /\ assoc \subseteq [var : Variables, out : BOOLEAN, trt : Nat]
  /\ job \in {Idle} \cup Jobs

(* What an fcblk points to, when it points to anything.                     *)
Points(f, i) == fcbs[f].iob = i /\ i \in DOMAIN iobs

(* The channel is open: it has a trap block.                                *)
Live(c) == chan[c] # None

(* zysej reaches the ioblk.                                                 *)
Reached(i) == \E f \in rfcb : fcbs[f].iob = i

(* An association is on the chain of its channel, and the channel is open.  *)
Linked ==
  \A a \in assoc : a.trt # None =>
    /\ a.var \in trts[a.trt].names
    /\ \E c \in Channels : chan[c] = a.trt

(* Two channels share neither an fcblk nor an ioblk.                        *)
Owned ==
  \A c, d \in Channels : c # d /\ Live(c) /\ Live(d) =>
    /\ FcbOf(c) # FcbOf(d)
    /\ \A i \in DOMAIN iobs : ~(Points(FcbOf(c), i) /\ Points(FcbOf(d), i))

(* An ioblk a variable was given that a channel can reopen, or that is      *)
(* open, is one that zysej reaches.                                         *)
UsedReached ==
  \A c \in Channels, i \in DOMAIN iobs :
    Live(c) /\ Points(FcbOf(c), i) /\ iobs[i].used => Reached(i)

OpenReached ==
  \A i \in DOMAIN iobs : iobs[i].used /\ iobs[i].opn => iobs[i].sys \/ Reached(i)

(* The flags keep what the options said.                                    *)
Keeps(b, arg) ==
  /\ "A" \in Range(arg.opts) => b.app
  /\ "U" \in Range(arg.opts) => b.inp

FlagsKept == \A i \in DOMAIN iobs : Keeps(iobs[i], iobs[i].arg)

(* The association under way works on its own channel; the fcblk it         *)
(* allocated is empty; the ioblk it will share is its channel's.            *)
JobAllocates ==
  /\ job.want \in {"all", "fcb"} /\ ~job.fresh
  /\ job.want = "fcb" => Live(job.chan) /\ Points(FcbOf(job.chan), job.save)

JobOpens ==
  /\ job.want = "none" => \E i \in DOMAIN iobs : Points(job.fcb, i)
  /\ job.want # "none" => fcbs[job.fcb].iob = Null
  /\ job.want = "fcb" /\ job.save # Wild =>
       /\ job.save \in DOMAIN iobs
       /\ iobs[job.save].used => Reached(job.save)
       /\ \A d \in Channels : d # job.chan /\ Live(d) => ~Points(FcbOf(d), job.save)
  /\ job.fresh => \A a \in assoc : a.trt # job.trt

JobHolds ==
  job # Idle =>
    /\ job.trt = chan[job.chan]
    /\ job.phase = "alloc" => JobAllocates
    /\ job.phase # "alloc" => Live(job.chan) /\ job.fcb = FcbOf(job.chan)
    /\ job.phase = "open" => JobOpens
    /\ job.want = "all" /\ job.phase # "finish" => Keeps(job.tio, job.arg)

Quiet == stage # "runs" => job = Idle

Consistent ==
  /\ Typed /\ Quiet /\ Linked /\ Owned /\ UsedReached /\ OpenReached
  /\ FlagsKept /\ JobHolds /\ EndClosesAll

-----------------------------------------------------------------------------
(* The scan of the options.                                                 *)

(* A set of numbers that is not empty has a least one.                      *)
LEMMA LeastNumber ==
  ASSUME NEW T \in SUBSET Nat, T # {}
  PROVE  \E x \in T : \A y \in T : x <= y
<1>1. IsWellFoundedOn(OpToRel(<, Nat), Nat)  BY NatLessThanWellFounded
<1>2. PICK x \in T : \A y \in T : ~ (<<y, x>> \in OpToRel(<, Nat))
  BY <1>1, WFMin
<1>3. \A y \in T : ~ (y < x)  BY <1>2 DEF OpToRel
<1> QED BY <1>3

(* A set with 0 and with the successor of each of its numbers has them all. *)
LEMMA SetInduction ==
  ASSUME NEW S, 0 \in S, \A n \in Nat : n \in S => n + 1 \in S
  PROVE  Nat \subseteq S
<1> SUFFICES ASSUME Nat \ S # {} PROVE FALSE  OBVIOUS
<1>1. PICK x \in Nat \ S : \A y \in Nat \ S : x <= y  BY LeastNumber
<1>2. x # 0 /\ x - 1 \in Nat /\ x - 1 \notin Nat \ S  BY <1>1
<1> QED BY <1>1, <1>2

(* One step of the scan, over option o.                                     *)
Scanned(t, o, last) ==
  IF t.ok THEN [Option(t, o, last) EXCEPT !.typ = TRUE] ELSE t

(* What the flags say of one option.                                        *)
Says(t, o) == (o = "A" => t.app) /\ (o = "U" => t.inp)

(* The scan is well defined: each step follows from the one before it.      *)
LEMMA ScanDef ==
  ASSUME NEW out, NEW opts, Len(opts) \in Nat
  PROVE  /\ Scan(out, opts)[0] = Defaults(out)
         /\ \A n \in 1 .. Len(opts) :
              Scan(out, opts)[n] = Scanned(Scan(out, opts)[n - 1], opts[n], n = Len(opts))
<1> DEFINE Step(t, n) == Scanned(t, opts[n], n = Len(opts))
           Good(g, m) == g[0] = Defaults(out) /\ \A n \in 1 .. m : g[n] = Step(g[n - 1], n)
           S == {m \in Nat : \E g : Good(g, m)}
           limit == Len(opts)
<1> HIDE DEF Step
<1>1. 0 \in S
  <2>1. Good([i \in {0} |-> Defaults(out)], 0)  OBVIOUS
  <2> QED BY <2>1
<1>2. ASSUME NEW m \in Nat, m \in S PROVE m + 1 \in S
  <2>1. PICK g : Good(g, m)  BY <1>2
  <2> DEFINE h == [i \in 0 .. (m + 1) |-> IF i <= m THEN g[i] ELSE Step(g[m], m + 1)]
  <2>2. \A i \in 0 .. m : h[i] = g[i]  OBVIOUS
  <2>3. h[m + 1] = Step(g[m], m + 1)  OBVIOUS
  <2> HIDE DEF h
  <2>4. h[0] = Defaults(out)  BY <2>1, <2>2
  <2>5. ASSUME NEW n \in 1 .. (m + 1) PROVE h[n] = Step(h[n - 1], n)
    <3>1. CASE n = m + 1  BY <2>2, <2>3, <3>1
    <3>2. CASE n # m + 1
      <4>1. n \in 1 .. m /\ n \in 0 .. m /\ n - 1 \in 0 .. m  BY <3>2
      <4> QED BY <2>1, <2>2, <4>1
    <3> QED BY <3>1, <3>2
  <2> QED BY <2>4, <2>5
<1>3. limit \in S
  <2> HIDE DEF S
  <2> QED BY <1>1, <1>2, SetInduction
<1>4. PICK g : Good(g, limit)  BY <1>3
<1> DEFINE Solves(h) == h = [n \in 0 .. limit |->
                               IF n = 0 THEN Defaults(out)
                               ELSE LET t == h[n - 1]
                                    IN  IF t.ok
                                        THEN [Option(t, opts[n], n = Len(opts)) EXCEPT !.typ = TRUE]
                                        ELSE t]
           k == [n \in 0 .. limit |-> g[n]]
<1>5. Solves(k)
  <2>1. \A n \in 0 .. limit : k[n] = IF n = 0 THEN Defaults(out) ELSE Step(k[n - 1], n)
    BY <1>4
  <2> QED BY <2>1 DEF Step, Scanned
<1>6. Scan(out, opts) = CHOOSE h : Solves(h)
  BY DEF Scan
<1>7. Solves(Scan(out, opts))
  <2> HIDE DEF Solves, k
  <2> QED BY <1>5, <1>6
<1>8. ASSUME NEW h, Solves(h)
      PROVE  h[0] = Defaults(out) /\ \A n \in 1 .. limit : h[n] = Step(h[n - 1], n)
  <2>1. h[0] = Defaults(out)  BY <1>8
  <2>2. ASSUME NEW n \in 1 .. limit PROVE h[n] = Step(h[n - 1], n)
    <3>1. n \in 0 .. limit /\ n # 0  OBVIOUS
    <3> QED BY <1>8, <3>1 DEF Step, Scanned
  <2> QED BY <2>1, <2>2
<1> HIDE DEF Solves
<1> QED BY <1>7, <1>8 DEF Step

(* An option never takes back an access, and A and U leave theirs.          *)
LEMMA OptionSays ==
  ASSUME NEW t \in Flags, NEW o \in STRING, NEW last \in BOOLEAN, t.ok
  PROVE  /\ Option(t, o, last) \in Flags
         /\ Option(t, o, last).ok =>
              /\ t.app => Option(t, o, last).app
              /\ t.inp => Option(t, o, last).inp
              /\ Says(Option(t, o, last), o)
<1> DEFINE u == Option(t, o, last)
<1>1. CASE o = "A"
  <2>1. u = [t EXCEPT !.app = TRUE]  BY <1>1 DEF Option
  <2>2. u \in Flags  BY <2>1 DEF Flags
  <2>3. u.app = TRUE /\ u.inp = t.inp  BY <2>1 DEF Flags
  <2> QED BY <1>1, <2>2, <2>3, Zenon DEF Says
<1>2. CASE o = "S"
  <2>1. u = IF last THEN [t EXCEPT !.ok = FALSE] ELSE t
    BY <1>2 DEF Option, Sharing
  <2>2. u \in Flags  BY <2>1 DEF Flags
  <2>3. u.app = t.app /\ u.inp = t.inp  BY <2>1 DEF Flags
  <2> QED BY <1>2, <2>2, <2>3, Zenon DEF Says
<1>3. CASE o = "U"
  <2>1. u = [t EXCEPT !.inp = TRUE, !.out = TRUE]  BY <1>3 DEF Option
  <2>2. u \in Flags  BY <2>1 DEF Flags
  <2>3. u.app = t.app /\ u.inp = TRUE  BY <2>1 DEF Flags
  <2> QED BY <1>3, <2>2, <2>3, Zenon DEF Says
<1>4. CASE o \in {"B", "C", "I", "L", "Q", "R", "W", "X", "Y"}
  <2>1. u = t  BY <1>4 DEF Option
  <2> QED BY <1>4, <2>1 DEF Says
<1>5. CASE o \in {"F0", "F3"}
  <2>1. u = [t EXCEPT !.opn = TRUE, !.sys = TRUE, !.fdn = IF o = "F0" THEN 0 ELSE 3]
    BY <1>5 DEF Option
  <2>2. u \in Flags  BY <2>1 DEF Flags
  <2>3. u.app = t.app /\ u.inp = t.inp  BY <2>1 DEF Flags
  <2> QED BY <1>5, <2>2, <2>3 DEF Says
<1>6. CASE o \notin {"A", "S", "U", "B", "C", "I", "L", "Q", "R", "W", "X", "Y", "F0", "F3"}
  <2>1. u = [t EXCEPT !.ok = FALSE]  BY <1>6 DEF Option
  <2>2. u \in Flags /\ u.ok = FALSE  BY <2>1 DEF Flags
  <2> QED BY <2>2, Zenon
<1> QED BY <1>1, <1>2, <1>3, <1>4, <1>5, <1>6

(* One step of the scan leaves flags that say what was said, and the option. *)
LEMMA ScannedSays ==
  ASSUME NEW t \in Flags, NEW o \in STRING, NEW last \in BOOLEAN
  PROVE  /\ Scanned(t, o, last) \in Flags
         /\ Scanned(t, o, last).ok =>
              /\ t.ok
              /\ t.app => Scanned(t, o, last).app
              /\ t.inp => Scanned(t, o, last).inp
              /\ Says(Scanned(t, o, last), o)
<1> DEFINE u == Option(t, o, last)
           w == [u EXCEPT !.typ = TRUE]
<1>1. CASE ~t.ok
  <2>1. Scanned(t, o, last) = t  BY <1>1, Zenon DEF Scanned
  <2> QED BY <1>1, <2>1, Zenon
<1>2. CASE t.ok
  <2>1. Scanned(t, o, last) = w  BY <1>2, Zenon DEF Scanned
  <2>2. /\ u \in Flags
        /\ u.ok => (t.app => u.app) /\ (t.inp => u.inp) /\ Says(u, o)
    BY <1>2, OptionSays, Zenon
  <2> HIDE DEF u
  <2>3. w \in Flags /\ w.ok = u.ok /\ w.app = u.app /\ w.inp = u.inp  BY <2>2 DEF Flags
  <2> HIDE DEF w
  <2> QED BY <1>2, <2>1, <2>2, <2>3, Zenon DEF Says
<1> QED BY <1>1, <1>2, Zenon

(* sioarg leaves flags, and if it accepts the argument they say what every  *)
(* one of its options asks for.                                             *)
LEMMA SioArgKeeps ==
  ASSUME NEW out \in BOOLEAN, NEW arg, arg.opts \in Seq(STRING)
  PROVE  /\ SioArg(out, arg.opts) \in Flags
         /\ SioArg(out, arg.opts).ok => Keeps(SioArg(out, arg.opts), arg)
<1> DEFINE opts == arg.opts
           sc == Scan(out, opts)
           Good(t, n) == /\ t \in Flags
                         /\ t.ok => \A k \in 1 .. n : Says(t, opts[k])
           S == {n \in Nat : n <= Len(opts) => Good(sc[n], n)}
<1>1. Len(opts) \in Nat /\ \A n \in 1 .. Len(opts) : opts[n] \in STRING  OBVIOUS
<1>2. sc[0] = Defaults(out)
      /\ \A n \in 1 .. Len(opts) : sc[n] = Scanned(sc[n - 1], opts[n], n = Len(opts))
  BY <1>1, ScanDef
<1>3. Defaults(out) \in Flags  BY DEF Defaults, Flags
<1> HIDE DEF sc, opts
<1>4. 0 \in S
  <2>1. Good(sc[0], 0)  BY <1>2, <1>3
  <2> QED BY <2>1
<1>5. ASSUME NEW n \in Nat, n \in S PROVE n + 1 \in S
  <2> SUFFICES ASSUME n + 1 <= Len(opts) PROVE Good(sc[n + 1], n + 1)  OBVIOUS
  <2>1. n <= Len(opts) /\ n + 1 \in 1 .. Len(opts) /\ (n + 1) - 1 = n  BY <1>1
  <2>2. Good(sc[n], n)  BY <1>5, <2>1
  <2> DEFINE t == sc[n]
             u == Scanned(t, opts[n + 1], n + 1 = Len(opts))
  <2>3. sc[n + 1] = u  BY <1>2, <2>1
  <2>4. opts[n + 1] \in STRING /\ (n + 1 = Len(opts)) \in BOOLEAN  BY <1>1, <2>1
  <2> HIDE DEF t
  <2>5. /\ u \in Flags
        /\ u.ok => t.ok /\ (t.app => u.app) /\ (t.inp => u.inp) /\ Says(u, opts[n + 1])
    BY <2>2, <2>4, ScannedSays, Zenon DEF t
  <2> HIDE DEF u
  <2>6. ASSUME u.ok, NEW k \in 1 .. (n + 1) PROVE Says(u, opts[k])
    <3>1. CASE k = n + 1  BY <2>5, <2>6, <3>1, Zenon
    <3>2. CASE k # n + 1
      <4>1. k \in 1 .. n  BY <3>2
      <4>2. Says(t, opts[k])  BY <2>2, <2>5, <2>6, <4>1, Zenon DEF t
      <4> QED BY <2>5, <2>6, <4>2, Zenon DEF Says
    <3> QED BY <3>1, <3>2
  <2> QED BY <2>3, <2>5, <2>6, Zenon
<1>6. Good(sc[Len(opts)], Len(opts))
  <2>1. Len(opts) \in S
    <3> HIDE DEF S
    <3> QED BY <1>1, <1>4, <1>5, SetInduction
  <2>2. Len(opts) <= Len(opts)  BY <1>1
  <2> QED BY <2>1, <2>2
<1>7. SioArg(out, opts) = sc[Len(opts)]  BY DEF SioArg, sc
<1> DEFINE t == SioArg(out, opts)
<1> HIDE DEF t
<1>8. Good(t, Len(opts))  BY <1>6, <1>7 DEF t
<1>9. ASSUME t.ok, NEW o \in Range(opts) PROVE Says(t, o)
  <2>1. PICK k \in DOMAIN opts : o = opts[k]  BY DEF Range
  <2>2. k \in 1 .. Len(opts)  BY <2>1 DEF opts
  <2> QED BY <1>8, <1>9, <2>1, <2>2, Zenon
<1>10. t.ok => Keeps(t, arg)  BY <1>9, Zenon DEF Keeps, Says, opts
<1> QED BY <1>8, <1>10, Zenon DEF t, opts

-----------------------------------------------------------------------------
(* What zysfc answers.                                                      *)

(* The access decides only whether zysio may refuse.                        *)
LEMMA AccessFlags ==
  ASSUME NEW t \in Flags, NEW f
  PROVE  /\ Access(t, f) \in Flags
         /\ Access(t, f).app = t.app /\ Access(t, f).inp = t.inp
<1> DEFINE x == ~((t.inp /\ Iob(f).inp) \/ (t.out /\ Iob(f).out))
<1>1. x \in BOOLEAN  BY Zenon
<1>2. Access(t, f) = IF f = None THEN t ELSE [t EXCEPT !.ill = x]  BY Zenon DEF Access
<1> HIDE DEF x
<1> QED BY <1>1, <1>2 DEF Flags

(* An answer that asks for blocks.                                          *)
Answers(ans, f) ==
  /\ ans.exit = 0
  /\ ans.want \in {"all", "fcb", "none"}
  /\ ans.tio \in Flags /\ ans.arg \in FileArg2 /\ ans.save \in Int
  /\ ans.want = "all" => Keeps(ans.tio, ans.arg)
  /\ ans.want = "fcb" => f # None /\ ans.save = fcbs[f].iob
  /\ ans.want = "none" => f # None

(* zysfc refuses, or asks for three blocks and keeps what the options say,  *)
(* or for an fcblk that shares the channel's ioblk, or for nothing when the *)
(* channel has all.                                                         *)
LEMMA CheckedAnswers ==
  ASSUME NEW f, f # None => fcbs[f].iob \in Int,
         NEW out \in BOOLEAN, NEW arg \in FileArg2,
         Checked(f, out, arg).exit = 0
  PROVE  Answers(Checked(f, out, arg), f)
<1> DEFINE scanned == SioArg(out, arg.opts)
           t == Access(scanned, f)
           w == [t EXCEPT !.typ = TRUE]
           ans == Checked(f, out, arg)
<1>1. arg.opts \in Seq(STRING)  BY DEF FileArg2
<1>2. scanned \in Flags /\ (scanned.ok => Keeps(scanned, arg))
  BY <1>1, SioArgKeeps, Zenon
<1>3. t \in Flags /\ t.app = scanned.app /\ t.inp = scanned.inp  BY <1>2, AccessFlags
<1>4. \/ ans = Refused(4) \/ ans = Refused(7)
      \/ scanned.ok /\ ans = Wanted("all", w, arg, Null)
      \/ f # None /\ ans = Wanted("fcb", t, arg, fcbs[f].iob)
      \/ f # None /\ ans = Wanted("none", t, arg, Null)
  BY Zenon DEF Checked, Named, Unnamed
<1> HIDE DEF scanned, t
<1>5. w \in Flags /\ w.app = t.app /\ w.inp = t.inp  BY <1>3 DEF Flags
<1>6. scanned.ok => Keeps(w, arg)  BY <1>2, <1>3, <1>5, Zenon DEF Keeps
<1> HIDE DEF w, ans
<1>7. ans.exit = 0  BY DEF ans
<1>8. ans # Refused(4) /\ ans # Refused(7)
  <2>1. Refused(4).exit = 4 /\ Refused(7).exit = 7  BY DEF Refused
  <2> QED BY <1>7, <2>1
<1>9. ASSUME scanned.ok /\ ans = Wanted("all", w, arg, Null) PROVE Answers(ans, f)
  BY <1>5, <1>6, <1>9, arg \in FileArg2 DEF Answers, Wanted, Null
<1>10. ASSUME f # None /\ ans = Wanted("fcb", t, arg, fcbs[f].iob) PROVE Answers(ans, f)
  BY <1>3, <1>10 DEF Answers, Wanted
<1>11. ASSUME f # None /\ ans = Wanted("none", t, arg, Null) PROVE Answers(ans, f)
  BY <1>3, <1>11 DEF Answers, Wanted, Null
<1> QED BY <1>4, <1>8, <1>9, <1>10, <1>11 DEF ans

(* The same of zysfc with the alias of the channel.                         *)
LEMMA SysfcAnswers ==
  ASSUME NEW f, f # None => fcbs[f].iob \in Int, NEW c \in Channels,
         NEW out \in BOOLEAN, NEW arg \in FileArgs,
         Sysfc(c, f, out, arg).exit = 0
  PROVE  Answers(Sysfc(c, f, out, arg), f)
<1>1. CASE UsesAlias(c, f, out, arg)
  <2>1. Aliases[c] \in FileArg2  BY <1>1, AssociationAssumption DEF UsesAlias
  <2>2. Sysfc(c, f, out, arg) = Checked(f, out, Aliases[c])  BY <1>1, Zenon DEF Sysfc
  <2> QED BY <2>1, <2>2, CheckedAnswers
<1>2. CASE ~UsesAlias(c, f, out, arg)
  <2>1. arg \in FileArg2  BY AssociationAssumption
  <2>2. Sysfc(c, f, out, arg) = Checked(f, out, arg)  BY <1>2, Zenon DEF Sysfc
  <2> QED BY <2>1, <2>2, CheckedAnswers
<1> QED BY <1>1, <1>2

-----------------------------------------------------------------------------
(* Channels and their blocks.                                               *)

(* A live channel has a trap block, that an fcblk, and that points to an    *)
(* ioblk or to nothing.                                                     *)
LEMMA ChannelBlocks ==
  ASSUME Typed, NEW c \in Channels
  PROVE  /\ Live(c) <=> FcbOf(c) # None
         /\ Live(c) => /\ chan[c] \in DOMAIN trts /\ FcbOf(c) = trts[chan[c]].fcb
                       /\ FcbOf(c) \in DOMAIN fcbs
                       /\ fcbs[FcbOf(c)].iob \in {Null, Wild} \cup DOMAIN iobs
<1>1. DOMAIN fcbs = 1 .. Len(fcbs) /\ Len(fcbs) \in Nat  BY DEF Typed
<1>2. CASE Live(c)
  <2>1. chan[c] # None /\ FcbOf(c) = trts[chan[c]].fcb  BY <1>2 DEF Live, FcbOf
  <2>2. chan[c] \in DOMAIN trts  BY <2>1 DEF Typed, TypeOK
  <2>3. FcbOf(c) \in DOMAIN fcbs  BY <2>1, <2>2 DEF Typed, TypeOK
  <2>4. fcbs[FcbOf(c)].iob \in {Null, Wild} \cup DOMAIN iobs
    BY <2>3 DEF Typed, TypeOK
  <2>5. FcbOf(c) # None  BY <1>1, <2>3 DEF None
  <2> QED BY <1>2, <2>1, <2>2, <2>3, <2>4, <2>5
<1>3. CASE ~Live(c)
  BY <1>3 DEF Live, FcbOf
<1> QED BY <1>2, <1>3

(* A sound fcblk points to an ioblk, an unsound one to none.                *)
LEMMA SoundPoints ==
  ASSUME Typed, NEW f \in DOMAIN fcbs
  PROVE  /\ f # None /\ f \in Nat /\ fcbs[f].iob \in Int
         /\ Sound(f) => Points(f, fcbs[f].iob)
         /\ ~Sound(f) => \A i \in DOMAIN iobs : ~Points(f, i)
<1>1. DOMAIN iobs = 1 .. Len(iobs) /\ Len(iobs) \in Nat  BY DEF Typed
<1>2. DOMAIN fcbs = 1 .. Len(fcbs) /\ Len(fcbs) \in Nat  BY DEF Typed
<1>3. fcbs[f].iob \in {Null, Wild} \cup DOMAIN iobs  BY DEF Typed, TypeOK
<1>4. f # None /\ f \in Nat /\ fcbs[f].iob \in Int
  BY <1>1, <1>2, <1>3 DEF None, Null, Wild
<1> QED BY <1>1, <1>3, <1>4 DEF Sound, Points, Null, Wild

(* What the fields of a job are.                                            *)
LEMMA JobFields ==
  ASSUME Typed, job # Idle
  PROVE  /\ job \in Jobs
         /\ job.phase \in {"alloc", "open", "finish"} /\ job.want \in {"all", "fcb", "none"}
         /\ job.chan \in Channels /\ job.trt \in Nat /\ job.fcb \in Nat /\ job.save \in Int
         /\ job.tio \in Flags /\ job.arg \in FileArg2
         /\ job.var \in Variables \cup {Unsuitable}
<1>1. job \in Jobs  BY DEF Typed
<1> QED BY <1>1 DEF Jobs

(* A phase other than idle is that of a job.                                *)
LEMMA Working ==
  ASSUME job.phase \in {"alloc", "open", "finish"}
  PROVE  job # Idle
<1>1. Idle.phase = "idle"  BY DEF Idle
<1> QED BY <1>1

-----------------------------------------------------------------------------
(* The steps keep the invariant.                                            *)

(* A step that changes only the job and the stage, and does not end the run. *)
LEMMA OnlyJob ==
  ASSUME Consistent, UNCHANGED <<files, iobs, fcbs, trts, chan, assoc, rfcb>>,
         stage' \in {"runs", "crashed"}, job' \in {Idle} \cup Jobs, Quiet', JobHolds'
  PROVE  Consistent'
<1>1. Typed'  BY DEF Consistent, Typed, TypeOK
<1>2. Linked'  BY DEF Consistent, Linked
<1>3. \A c : Live(c)' = Live(c) /\ FcbOf(c)' = FcbOf(c)  BY DEF Live, FcbOf
<1>4. \A f, i : Points(f, i)' = Points(f, i)  BY DEF Points
<1>5. \A i : Reached(i)' = Reached(i)  BY DEF Reached
<1>6. Owned'  BY <1>3, <1>4 DEF Consistent, Owned
<1>7. UsedReached'  BY <1>3, <1>4, <1>5 DEF Consistent, UsedReached
<1>8. OpenReached'  BY <1>5 DEF Consistent, OpenReached
<1>9. FlagsKept'  BY DEF Consistent, FlagsKept, Keeps
<1>10. EndClosesAll'  BY DEF EndClosesAll
<1> QED BY <1>1, <1>2, <1>6, <1>7, <1>8, <1>9, <1>10 DEF Consistent

(* A crash leaves everything where it was.                                  *)
LEMMA CrashKeeps ==
  ASSUME Consistent, Crash
  PROVE  Consistent'
<1>1. JobHolds' /\ Quiet'  BY DEF Crash, JobHolds, Quiet
<1> QED BY <1>1, OnlyJob DEF Crash

(* INPUT and OUTPUT with a file argument.                                   *)
LEMMA AssociateKeeps ==
  ASSUME Consistent, NEW v \in Variables \cup {Unsuitable}, NEW c \in Channels,
         NEW out \in BOOLEAN, NEW arg \in FileArgs, Associate(v, c, out, arg)
  PROVE  Consistent'
<1> DEFINE f == FcbOf(c)
           ans == Sysfc(c, f, out, arg)
           j == [phase |-> IF ans.want = "none" THEN "open" ELSE "alloc",
                 var |-> v, chan |-> c, out |-> out, want |-> ans.want,
                 tio |-> ans.tio, arg |-> ans.arg,
                 save |-> ans.save, fcb |-> f, trt |-> chan[c], fresh |-> FALSE]
<1>1. Typed  BY DEF Consistent
<1>2. CASE f # None /\ ~Sound(f)
  BY <1>2, CrashKeeps DEF Associate
<1>3. CASE ~(f # None /\ ~Sound(f))
  <2>1. /\ job' = IF ans.exit # 0 THEN Idle ELSE j
        /\ UNCHANGED <<stage, files, iobs, fcbs, trts, chan, assoc, rfcb>>
        /\ stage = "runs"
    BY <1>3, Zenon DEF Associate
  <2>2. CASE ans.exit # 0
    <3>1. job' = Idle  BY <2>1, <2>2
    <3>2. JobHolds' /\ Quiet'  BY <3>1 DEF JobHolds, Quiet
    <3> QED BY <2>1, <3>1, <3>2, OnlyJob
  <2>3. CASE ans.exit = 0
    <3>1. chan[c] \in Nat /\ (Live(c) <=> f # None) /\ (Live(c) => f \in DOMAIN fcbs)
      BY <1>1, ChannelBlocks DEF Typed
    <3>2. f \in Nat /\ (f # None => fcbs[f].iob \in Int /\ Points(f, fcbs[f].iob))
      <4>1. CASE f = None  BY <4>1 DEF None
      <4>2. CASE f # None
        <5>1. f \in DOMAIN fcbs  BY <3>1, <4>2
        <5>2. Points(f, fcbs[f].iob)  BY <1>1, <1>3, <4>2, <5>1, SoundPoints
        <5>3. fcbs[f].iob \in Int /\ f \in Nat
          <6> HIDE DEF f
          <6> QED BY <1>1, <5>1, SoundPoints
        <5> QED BY <5>2, <5>3
      <4> QED BY <4>1, <4>2
    <3>3. Answers(ans, f)
      <4> HIDE DEF f
      <4> QED BY <2>3, <3>2, SysfcAnswers
    <3>4. job' = j  BY <2>1, <2>3
    <3> HIDE DEF ans, f
    <3>5. j \in Jobs  BY <3>1, <3>2, <3>3 DEF Answers, Jobs
    <3>6. /\ j.phase = (IF ans.want = "none" THEN "open" ELSE "alloc")
          /\ j.chan = c /\ j.want = ans.want /\ j.tio = ans.tio /\ j.arg = ans.arg
          /\ j.save = ans.save /\ j.fcb = f /\ j.trt = chan[c] /\ j.fresh = FALSE
      OBVIOUS
    <3> HIDE DEF j
    <3>7. \A d : Live(d)' = Live(d) /\ FcbOf(d)' = FcbOf(d)  BY <2>1 DEF Live, FcbOf
    <3>8. \A g, i : Points(g, i)' = Points(g, i)  BY <2>1 DEF Points
    <3>9. f = FcbOf(c)  BY DEF f
    <3>10. CASE ans.want = "none"
      <4>1. f # None  BY <3>3, <3>10 DEF Answers
      <4>2. \E i \in DOMAIN iobs : Points(f, i)  BY <3>2, <4>1 DEF Points
      <4>3. Live(c)  BY <3>1, <4>1
      <4>4. JobOpens'  BY <2>1, <3>4, <3>6, <3>8, <3>10, <4>2 DEF JobOpens
      <4>5. JobHolds'
        BY <2>1, <3>4, <3>6, <3>7, <3>9, <3>10, <4>3, <4>4 DEF JobHolds
      <4> QED BY <2>1, <3>4, <3>5, <4>5, OnlyJob DEF Quiet
    <3>11. CASE ans.want # "none"
      <4>1. ans.want \in {"all", "fcb"}  BY <3>3, <3>11 DEF Answers
      <4>2. ans.want = "fcb" => Live(c) /\ Points(FcbOf(c), ans.save)
        BY <3>1, <3>2, <3>3, <3>9 DEF Answers
      <4>3. JobAllocates'  BY <3>4, <3>6, <3>7, <3>8, <4>1, <4>2 DEF JobAllocates
      <4>4. ans.want = "all" => Keeps(j.tio, j.arg)  BY <3>3, <3>6 DEF Answers
      <4>5. j.phase = "alloc"  BY <3>6, <3>11
      <4>7. JobHolds'
        BY <2>1, <3>4, <3>6, <4>3, <4>4, <4>5 DEF JobHolds
      <4> QED BY <2>1, <3>4, <3>5, <4>7, OnlyJob DEF Quiet
    <3> QED BY <3>10, <3>11
  <2> QED BY <2>2, <2>3
<1> QED BY <1>2, <1>3

(* An association with the standard file points to no channel.              *)
LEMMA StandardKeeps ==
  ASSUME Consistent, NEW v \in Variables, NEW out \in BOOLEAN, AssociateStandard(v, out)
  PROVE  Consistent'
<1>1. /\ assoc' = Trapped(v, out, None)
      /\ UNCHANGED <<stage, files, iobs, fcbs, trts, chan, rfcb, job>>
      /\ stage = "runs" /\ job = Idle
  BY DEF AssociateStandard
<1>2. \A a \in assoc' : a \in assoc \/ (a.trt = None /\ a.var = v)
  BY <1>1 DEF Trapped
<1>3. assoc' \subseteq [var : Variables, out : BOOLEAN, trt : Nat]
  BY <1>1 DEF Trapped, Consistent, Typed, None
<1>4. TypeOK'
  <2>1. \A a \in assoc' : a.var \in Variables /\ a.trt \in {None} \cup DOMAIN trts'
    BY <1>1, <1>2 DEF Consistent, Typed, TypeOK
  <2> QED BY <1>1, <2>1 DEF Consistent, Typed, TypeOK
<1>5. Typed'  BY <1>1, <1>3, <1>4 DEF Consistent, Typed
<1>6. Linked'  BY <1>1, <1>2 DEF Consistent, Linked
<1>7. JobHolds' /\ Quiet' /\ EndClosesAll'  BY <1>1 DEF JobHolds, Quiet, EndClosesAll
<1>8. \A c : Live(c)' = Live(c) /\ FcbOf(c)' = FcbOf(c)  BY <1>1 DEF Live, FcbOf
<1>9. \A f, i : Points(f, i)' = Points(f, i)  BY <1>1 DEF Points
<1>10. \A i : Reached(i)' = Reached(i)  BY <1>1 DEF Reached
<1>11. Owned'  BY <1>8, <1>9, <1>1 DEF Consistent, Owned
<1>12. UsedReached'  BY <1>8, <1>9, <1>10, <1>1 DEF Consistent, UsedReached
<1>13. OpenReached'  BY <1>10, <1>1 DEF Consistent, OpenReached
<1>14. FlagsKept'  BY <1>1 DEF Consistent, FlagsKept, Keeps
<1> QED BY <1>5, <1>6, <1>7, <1>11, <1>12, <1>13, <1>14 DEF Consistent

(* Taking names off the chains leaves the fcblks and the other names.       *)
LEMMA UnlistedBlocks ==
  ASSUME Typed, NEW names, NEW t \in DOMAIN trts
  PROVE  /\ DOMAIN Unlisted(names) = DOMAIN trts
         /\ Unlisted(names)[t].fcb = trts[t].fcb
         /\ Unlisted(names)[t].names \subseteq trts[t].names
         /\ \A v \in trts[t].names : v \notin names => v \in Unlisted(names)[t].names
         /\ Unlisted(names) \in Seq([fcb : Nat, names : SUBSET Variables])
<1> DEFINE gone(s) == {v \in names : \E a \in assoc : a.var = v /\ a.trt = s}
           u == Unlisted(names)
           R == [fcb : Nat, names : SUBSET Variables]
<1>1. trts \in Seq(R)  BY DEF Typed
<1>2. u = [s \in DOMAIN trts |-> [trts[s] EXCEPT !.names = @ \ gone(s)]]
  BY DEF Unlisted
<1>3. \A s : gone(s) \subseteq names  OBVIOUS
<1> HIDE DEF gone, u
<1>4. ASSUME NEW s \in DOMAIN trts
      PROVE  /\ trts[s] \in R /\ u[s] \in R
             /\ u[s].fcb = trts[s].fcb /\ u[s].names = trts[s].names \ gone(s)
  <2> DEFINE r == trts[s]
             g == gone(s)
  <2>1. r \in R
    <3> HIDE DEF R
    <3> QED BY <1>1, <1>4
  <2>2. u[s] = [r EXCEPT !.names = @ \ g]  BY <1>2, <1>4
  <2> HIDE DEF r, g
  <2>3. u[s] \in R /\ u[s].fcb = r.fcb /\ u[s].names = r.names \ g  BY <2>1, <2>2
  <2> QED BY <2>1, <2>3 DEF r, g
<1>5. DOMAIN u = DOMAIN trts  BY <1>2
<1>6. u \in Seq(R)
  <2>1. Len(trts) \in Nat /\ DOMAIN trts = 1 .. Len(trts)  BY <1>1
  <2> DEFINE n == Len(trts)
  <2>2. u \in [1 .. n -> R]  BY <1>2, <1>4, <2>1
  <2>3. n \in Nat  BY <2>1
  <2> HIDE DEF n, R
  <2> QED BY <2>2, <2>3, SeqDef
<1>7. /\ u[t].names \subseteq trts[t].names
      /\ \A v \in trts[t].names : v \notin names => v \in u[t].names
  BY <1>3, <1>4
<1>8. u[t].fcb = trts[t].fcb  BY <1>4
<1> QED BY <1>5, <1>6, <1>7, <1>8 DEF u, R

(* Names taken off their chains with their associations leave the others    *)
(* linked, when each keeps its channel.                                     *)
LEMMA DetachedLinks ==
  ASSUME Typed, Linked, NEW names, assoc' = Detached(names), trts' = Unlisted(names),
         \A a \in assoc : a.var \notin names /\ a.trt # None =>
           \E c \in Channels : chan'[c] = a.trt
  PROVE  Linked'
<1> SUFFICES ASSUME NEW a \in assoc', a.trt # None
             PROVE  a.var \in trts'[a.trt].names /\ \E c \in Channels : chan'[c] = a.trt
  BY DEF Linked
<1>1. a \in assoc /\ a.var \notin names  BY DEF Detached
<1>2. a.var \in trts[a.trt].names  BY <1>1 DEF Linked
<1>3. a.trt \in DOMAIN trts  BY <1>1 DEF Typed, TypeOK
<1>4. a.var \in trts'[a.trt].names  BY <1>1, <1>2, <1>3, UnlistedBlocks
<1>5. \E c \in Channels : chan'[c] = a.trt  BY <1>1
<1> QED BY <1>4, <1>5

(* The types after names were taken off their chains.                       *)
LEMMA DetachedTypes ==
  ASSUME Typed, NEW names, assoc' = Detached(names), trts' = Unlisted(names),
         DOMAIN fcbs' = DOMAIN fcbs
  PROVE  /\ \A t \in DOMAIN trts' :
              trts'[t].fcb \in DOMAIN fcbs' /\ trts'[t].names \subseteq Variables
         /\ DOMAIN trts' = DOMAIN trts
         /\ trts' \in Seq([fcb : Nat, names : SUBSET Variables])
         /\ \A a \in assoc' : a.var \in Variables /\ a.trt \in {None} \cup DOMAIN trts'
         /\ assoc' \subseteq [var : Variables, out : BOOLEAN, trt : Nat]
<1>1. assoc' \subseteq assoc  BY DEF Detached
<1>2. DOMAIN trts' = DOMAIN trts  BY DEF Unlisted
<1>3. \A t \in DOMAIN trts : trts'[t].fcb = trts[t].fcb /\ trts'[t].names \subseteq trts[t].names
  BY UnlistedBlocks
<1>4. \A t \in DOMAIN trts' :
        trts'[t].fcb \in DOMAIN fcbs' /\ trts'[t].names \subseteq Variables
  BY <1>2, <1>3 DEF Typed, TypeOK
<1>5. trts' \in Seq([fcb : Nat, names : SUBSET Variables])
  <2>1. CASE DOMAIN trts = {}
    <3>1. trts' = << >>
      <4>1. trts' = [t \in {} |-> trts[t]]  BY <2>1 DEF Unlisted
      <4> QED BY <4>1
    <3> QED BY <3>1
  <2>2. CASE DOMAIN trts # {}
    <3>1. PICK t : t \in DOMAIN trts  BY <2>2
    <3> QED BY <3>1, UnlistedBlocks
  <2> QED BY <2>1, <2>2
<1>6. \A a \in assoc' : a.var \in Variables /\ a.trt \in {None} \cup DOMAIN trts'
  BY <1>1, <1>2 DEF Typed, TypeOK
<1>7. assoc' \subseteq [var : Variables, out : BOOLEAN, trt : Nat]  BY <1>1 DEF Typed
<1> QED BY <1>2, <1>4, <1>5, <1>6, <1>7

(* DETACH.                                                                  *)
LEMMA DetachKeeps ==
  ASSUME Consistent, NEW v \in Variables, Detach(v)
  PROVE  Consistent'
<1>1. /\ assoc' = Detached({v}) /\ trts' = Unlisted({v})
      /\ UNCHANGED <<stage, files, iobs, fcbs, chan, rfcb, job>>
      /\ stage = "runs" /\ job = Idle
  BY DEF Detach
<1>2. Typed /\ Linked  BY DEF Consistent
<1>3. Typed'
  <2>1. DOMAIN fcbs' = DOMAIN fcbs  BY <1>1
  <2>2. TypeOK'  BY <1>1, <1>2, <2>1, DetachedTypes DEF Typed, TypeOK
  <2> QED BY <1>1, <1>2, <2>1, <2>2, DetachedTypes DEF Typed
<1>4. Linked'
  <2>1. \A a \in assoc : a.trt # None => \E c \in Channels : chan'[c] = a.trt
    BY <1>1, <1>2 DEF Linked
  <2> QED BY <1>1, <1>2, <2>1, DetachedLinks
<1>5. JobHolds' /\ Quiet' /\ EndClosesAll'  BY <1>1 DEF JobHolds, Quiet, EndClosesAll
<1>6. \A c \in Channels : Live(c)' = Live(c) /\ (Live(c) => FcbOf(c)' = FcbOf(c))
  <2> SUFFICES ASSUME NEW c \in Channels
               PROVE Live(c)' = Live(c) /\ (Live(c) => FcbOf(c)' = FcbOf(c))
    OBVIOUS
  <2>1. Live(c)' = Live(c)  BY <1>1 DEF Live
  <2>2. ASSUME Live(c) PROVE FcbOf(c)' = FcbOf(c)
    <3>1. chan[c] \in DOMAIN trts  BY <1>2, <2>2, ChannelBlocks
    <3>2. trts'[chan[c]].fcb = trts[chan[c]].fcb  BY <1>1, <1>2, <3>1, UnlistedBlocks
    <3> QED BY <1>1, <2>2, <3>2 DEF FcbOf, Live
  <2> QED BY <2>1, <2>2
<1>7. \A f, i : Points(f, i)' = Points(f, i)  BY <1>1 DEF Points
<1>8. \A i : Reached(i)' = Reached(i)  BY <1>1 DEF Reached
<1>9. Owned'  BY <1>6, <1>7, <1>1 DEF Consistent, Owned
<1>10. UsedReached'  BY <1>6, <1>7, <1>8, <1>1 DEF Consistent, UsedReached
<1>11. OpenReached'  BY <1>8, <1>1 DEF Consistent, OpenReached
<1>12. FlagsKept'  BY <1>1 DEF Consistent, FlagsKept, Keeps
<1> QED BY <1>3, <1>4, <1>5, <1>9, <1>10, <1>11, <1>12 DEF Consistent

(* The runtime allocates the fcblk, and the trap block of a new channel.    *)
LEMMA AllocFcbKeeps ==
  ASSUME Consistent, NEW moved, AllocFcb(moved)
  PROVE  Consistent'
<1>0. PICK n, t, c0, save1 :
        /\ n = Len(fcbs) + 1 /\ c0 = job.chan
        /\ t = IF job.trt = None THEN Len(trts) + 1 ELSE job.trt
        /\ save1 = IF job.want = "fcb" /\ moved THEN Wild ELSE job.save
  OBVIOUS
<1>1. /\ job.phase = "alloc"
      /\ fcbs' = Append(fcbs, [iob |-> Null])
      /\ trts' = IF job.trt = None THEN Append(trts, [fcb |-> n, names |-> {}])
                 ELSE [trts EXCEPT ![t].fcb = n]
      /\ chan' = [chan EXCEPT ![c0] = t]
      /\ job' = [job EXCEPT !.phase = "open", !.fcb = n, !.trt = t,
                            !.fresh = (job.trt = None), !.save = save1]
      /\ UNCHANGED <<stage, files, iobs, assoc, rfcb>>
  BY <1>0, Zenon DEF AllocFcb
<1>2. Typed /\ job # Idle  BY <1>1, Working DEF Consistent
<1>3. /\ job \in Jobs /\ c0 \in Channels /\ job.trt \in Nat /\ job.save \in Int
      /\ job.trt = chan[c0] /\ JobAllocates
      /\ job.want = "all" => Keeps(job.tio, job.arg)
  BY <1>0, <1>1, <1>2, JobFields DEF Consistent, JobHolds
<1>4. /\ Len(fcbs) \in Nat /\ DOMAIN fcbs = 1 .. Len(fcbs)
      /\ Len(trts) \in Nat /\ DOMAIN trts = 1 .. Len(trts)
      /\ DOMAIN iobs = 1 .. Len(iobs) /\ Len(iobs) \in Nat
  BY <1>2 DEF Typed
<1>5. n \in Nat /\ n \notin DOMAIN fcbs  BY <1>0, <1>4
<1>6. /\ fcbs' \in Seq([iob : Int]) /\ DOMAIN fcbs' = DOMAIN fcbs \cup {n}
      /\ fcbs'[n] = [iob |-> Null] /\ \A f \in DOMAIN fcbs : fcbs'[f] = fcbs[f]
  <2>1. [iob |-> Null] \in [iob : Int]  BY DEF Null
  <2> QED BY <1>0, <1>1, <1>2, <1>4, <2>1 DEF Typed
<1>7. fcbs'[n].iob = Null /\ \A f \in DOMAIN fcbs : fcbs'[f].iob = fcbs[f].iob
  BY <1>6
<1>8. job.trt # None => job.trt \in DOMAIN trts
  BY <1>2, <1>3, ChannelBlocks DEF Live
<1>9. t \in Nat /\ t # None /\ (job.trt = None => t \notin DOMAIN trts)
      /\ DOMAIN trts' = DOMAIN trts \cup {t}
  <2>1. CASE job.trt = None  BY <1>0, <1>1, <1>2, <1>4, <2>1 DEF Typed, None
  <2>2. CASE job.trt # None  BY <1>0, <1>1, <1>3, <1>8, <2>2
  <2> QED BY <2>1, <2>2
<1>10. /\ trts' \in Seq([fcb : Nat, names : SUBSET Variables])
       /\ trts'[t].fcb = n /\ trts'[t].names \subseteq Variables
       /\ \A s \in DOMAIN trts : trts'[s].names = trts[s].names
       /\ \A s \in DOMAIN trts : s # t => trts'[s] = trts[s]
  <2> DEFINE R == [fcb : Nat, names : SUBSET Variables]
             m == Len(trts)
  <2>1. CASE job.trt = None
    <3> DEFINE r == [fcb |-> n, names |-> {}]
    <3>1. r \in R /\ r.fcb = n /\ r.names = {}  BY <1>5
    <3> HIDE DEF r, R
    <3>2. trts \in Seq(R)  BY <1>2 DEF Typed, R
    <3>3. trts' = Append(trts, r) /\ t = m + 1  BY <1>0, <1>1, <2>1 DEF r
    <3>4. trts'[t] = r /\ \A s \in DOMAIN trts : trts'[s] = trts[s]
      BY <1>4, <3>2, <3>3
    <3>5. trts' \in Seq(R)  BY <3>1, <3>2, <3>3
    <3> QED BY <3>1, <3>4, <3>5 DEF R
  <2>2. CASE job.trt # None
    <3> DEFINE r == trts[t]
               q == [r EXCEPT !.fcb = n]
    <3>1. t = job.trt /\ t \in DOMAIN trts  BY <1>0, <1>8, <2>2
    <3>2. trts \in Seq(R)  BY <1>2 DEF Typed
    <3>3. trts' = [trts EXCEPT ![t] = q]  BY <1>1, <2>2
    <3>4. r \in R
      <4> HIDE DEF R
      <4> QED BY <3>1, <3>2
    <3> HIDE DEF r
    <3>5. q \in R /\ q.fcb = n /\ q.names = r.names  BY <1>5, <3>4
    <3> HIDE DEF R, q
    <3>6. trts' \in Seq(R)  BY <3>1, <3>2, <3>3, <3>5
    <3>7. trts'[t] = q /\ \A s \in DOMAIN trts : s # t => trts'[s] = trts[s]
      BY <3>1, <3>3
    <3>8. r.names \subseteq Variables  BY <3>4 DEF R
    <3>9. \A s \in DOMAIN trts : trts'[s].names = trts[s].names
      BY <3>5, <3>7 DEF r
    <3> QED BY <3>5, <3>6, <3>7, <3>8, <3>9 DEF R
  <2> QED BY <2>1, <2>2
<1>11. chan \in [Channels -> Nat]  BY <1>2 DEF Typed
<1>12. chan'[c0] = t /\ \A c \in Channels : c # c0 => chan'[c] = chan[c]
  BY <1>1, <1>3, <1>11
<1>13. Live(c0)' /\ FcbOf(c0)' = n
  BY <1>9, <1>10, <1>12 DEF Live, FcbOf
<1>14. ASSUME NEW c \in Channels, c # c0
       PROVE  /\ Live(c)' <=> Live(c)
              /\ Live(c) => /\ FcbOf(c)' = FcbOf(c) /\ FcbOf(c) \in DOMAIN fcbs
                            /\ FcbOf(c) # n /\ chan[c] # t /\ chan[c] \in DOMAIN trts
  <2>1. Live(c)' <=> Live(c)  BY <1>12, <1>14 DEF Live
  <2>2. ASSUME Live(c) PROVE FcbOf(c)' = FcbOf(c) /\ FcbOf(c) \in DOMAIN fcbs /\ chan[c] # t
                             /\ chan[c] \in DOMAIN trts
    <3>1. chan[c] \in DOMAIN trts /\ FcbOf(c) \in DOMAIN fcbs /\ chan[c] # None
      BY <1>2, <2>2, ChannelBlocks DEF Live
    <3>2. chan[c] # t
      <4>1. CASE job.trt = None  BY <1>9, <3>1, <4>1
      <4>2. CASE job.trt # None
        <5>1. Live(c0) /\ t = chan[c0]  BY <1>0, <1>3, <4>2 DEF Live
        <5>2. FcbOf(c) # FcbOf(c0)  BY <1>3, <1>14, <2>2, <5>1 DEF Consistent, Owned
        <5>3. FcbOf(c) = trts[chan[c]].fcb /\ FcbOf(c0) = trts[chan[c0]].fcb
          BY <1>2, <1>3, <2>2, <5>1, ChannelBlocks
        <5> QED BY <5>1, <5>2, <5>3
      <4> QED BY <4>1, <4>2
    <3>3. trts'[chan[c]] = trts[chan[c]]  BY <1>10, <3>1, <3>2
    <3>4. FcbOf(c)' = FcbOf(c)  BY <1>12, <1>14, <3>1, <3>3 DEF FcbOf
    <3> QED BY <3>1, <3>2, <3>4
  <2> QED BY <1>5, <2>1, <2>2
<1>15. \A f \in DOMAIN fcbs : \A i : Points(f, i)' = Points(f, i)
  BY <1>1, <1>7 DEF Points
<1>16. \A i \in DOMAIN iobs : ~Points(n, i)'
  BY <1>4, <1>7 DEF Points, Null
<1>17. \A i : Reached(i) => Reached(i)'
  <2>1. rfcb \subseteq DOMAIN fcbs  BY <1>2 DEF Typed, TypeOK
  <2> QED BY <1>1, <1>7, <2>1 DEF Reached
<1>18. job' \in Jobs /\ job'.phase = "open" /\ job'.fcb = n /\ job'.trt = t
       /\ job'.fresh = (job.trt = None) /\ job'.save = save1 /\ job'.chan = c0
       /\ job'.want = job.want /\ job'.tio = job.tio /\ job'.arg = job.arg
  <2> DEFINE b == (job.trt = None)
  <2>1. b \in BOOLEAN /\ job' = [job EXCEPT !.phase = "open", !.fcb = n, !.trt = t,
                                            !.fresh = b, !.save = save1]
    BY <1>1
  <2>2. save1 \in Int  BY <1>0, <1>3 DEF Wild
  <2> HIDE DEF b
  <2>3. /\ job' \in Jobs /\ job'.phase = "open" /\ job'.fcb = n /\ job'.trt = t
        /\ job'.fresh = b /\ job'.save = save1 /\ job'.chan = job.chan
        /\ job'.want = job.want /\ job'.tio = job.tio /\ job'.arg = job.arg
    BY <1>3, <1>5, <1>9, <2>1, <2>2 DEF Jobs
  <2> QED BY <1>0, <2>3 DEF b
<1>19. Typed'
  <2>1. TypeOK'
    <3>1. /\ stage' \in {"runs", "ended", "crashed"}
          /\ files' \in [Files -> {"absent", "text", "empty"}]
      BY <1>1, <1>2 DEF Typed, TypeOK
    <3>2. \A f \in DOMAIN fcbs' : fcbs'[f].iob \in {Null, Wild} \cup DOMAIN iobs'
      BY <1>1, <1>2, <1>6, <1>7 DEF Typed, TypeOK
    <3>3. \A s \in DOMAIN trts' :
            trts'[s].fcb \in DOMAIN fcbs' /\ trts'[s].names \subseteq Variables
      BY <1>2, <1>6, <1>9, <1>10 DEF Typed, TypeOK
    <3>4. \A c \in Channels : chan'[c] \in {None} \cup DOMAIN trts'
      BY <1>2, <1>9, <1>12 DEF Typed, TypeOK
    <3>5. \A a \in assoc' : a.var \in Variables /\ a.trt \in {None} \cup DOMAIN trts'
      BY <1>1, <1>2, <1>9 DEF Typed, TypeOK
    <3>6. rfcb' \subseteq DOMAIN fcbs'  BY <1>1, <1>2, <1>6 DEF Typed, TypeOK
    <3> QED BY <3>1, <3>2, <3>3, <3>4, <3>5, <3>6 DEF TypeOK
  <2>2. chan' \in [Channels -> Nat]  BY <1>1, <1>9, <1>11
  <2> QED BY <1>1, <1>2, <1>6, <1>10, <1>18, <2>1, <2>2 DEF Typed
<1>20. Quiet' /\ EndClosesAll'
  <2>1. stage = "runs"  BY <1>2 DEF Consistent, Quiet
  <2> QED BY <1>1, <2>1 DEF Quiet, EndClosesAll
<1>21. Linked'
  <2> SUFFICES ASSUME NEW a \in assoc, a.trt # None
               PROVE  a.var \in trts'[a.trt].names /\ \E c \in Channels : chan'[c] = a.trt
    BY <1>1 DEF Linked
  <2>1. a.var \in trts[a.trt].names  BY DEF Consistent, Linked
  <2>2. PICK c \in Channels : chan[c] = a.trt  BY DEF Consistent, Linked
  <2>3. a.trt \in DOMAIN trts  BY <1>2 DEF Typed, TypeOK
  <2>4. a.var \in trts'[a.trt].names  BY <1>10, <2>1, <2>3
  <2>5. chan'[c] = a.trt
    <3>1. CASE c = c0
      <4>1. job.trt # None /\ t = job.trt  BY <1>0, <1>3, <2>2, <3>1
      <4> QED BY <1>3, <1>12, <2>2, <3>1, <4>1
    <3>2. CASE c # c0  BY <1>12, <2>2, <3>2
    <3> QED BY <3>1, <3>2
  <2> QED BY <2>4, <2>5
<1>22. Owned'
  <2> SUFFICES ASSUME NEW c \in Channels, NEW d \in Channels, c # d, Live(c)', Live(d)'
               PROVE  /\ FcbOf(c)' # FcbOf(d)'
                      /\ \A i \in DOMAIN iobs' : ~(Points(FcbOf(c), i)' /\ Points(FcbOf(d), i)')
    BY DEF Owned
  <2>1. CASE c = c0  BY <1>1, <1>13, <1>14, <1>16, <2>1 DEF Points
  <2>2. CASE d = c0  BY <1>1, <1>13, <1>14, <1>16, <2>2 DEF Points
  <2>3. CASE c # c0 /\ d # c0
    <3>1. /\ Live(c) /\ FcbOf(c)' = FcbOf(c) /\ FcbOf(c) \in DOMAIN fcbs
          /\ Live(d) /\ FcbOf(d)' = FcbOf(d) /\ FcbOf(d) \in DOMAIN fcbs
      BY <1>14, <2>3
    <3>2. \A i : /\ Points(FcbOf(c), i)' = Points(FcbOf(c), i)
                 /\ Points(FcbOf(d), i)' = Points(FcbOf(d), i)
      BY <1>1, <1>7, <3>1 DEF Points
    <3> QED BY <1>1, <3>1, <3>2 DEF Consistent, Owned
  <2> QED BY <2>1, <2>2, <2>3
<1>23. UsedReached'
  <2> SUFFICES ASSUME NEW c \in Channels, NEW i \in DOMAIN iobs', Live(c)',
                      Points(FcbOf(c), i)', iobs'[i].used
               PROVE  Reached(i)'
    BY DEF UsedReached
  <2>1. c # c0  BY <1>1, <1>13, <1>16 DEF Points
  <2>2. Live(c) /\ FcbOf(c)' = FcbOf(c) /\ FcbOf(c) \in DOMAIN fcbs  BY <1>14, <2>1
  <2>3. Points(FcbOf(c), i)  BY <1>1, <1>7, <2>2 DEF Points
  <2>4. Reached(i)  BY <1>1, <2>2, <2>3 DEF Consistent, UsedReached
  <2> QED BY <1>17, <2>4
<1>24. OpenReached'
  BY <1>1, <1>17 DEF Consistent, OpenReached
<1>25. FlagsKept'  BY <1>1 DEF Consistent, FlagsKept, Keeps
<1>26. JobHolds'
  <2>1. JobOpens'
    <3>1. job.want \in {"all", "fcb"} /\ fcbs'[job'.fcb].iob = Null
      BY <1>3, <1>7, <1>18 DEF JobAllocates
    <3>2. ASSUME job.want = "fcb", save1 # Wild
          PROVE  /\ save1 \in DOMAIN iobs'
                 /\ iobs'[save1].used => Reached(save1)'
                 /\ \A d \in Channels : d # c0 /\ Live(d)' => ~Points(FcbOf(d), save1)'
      <4>1. save1 = job.save  BY <1>0, <3>2
      <4>2. Live(c0) /\ Points(FcbOf(c0), save1)  BY <1>0, <1>3, <3>2, <4>1 DEF JobAllocates
      <4>3. save1 \in DOMAIN iobs  BY <4>2 DEF Points
      <4>4. iobs[save1].used => Reached(save1)
        BY <1>3, <4>2, <4>3 DEF Consistent, UsedReached
      <4>5. ASSUME NEW d \in Channels, d # c0, Live(d)' PROVE ~Points(FcbOf(d), save1)'
        <5>1. Live(d) /\ FcbOf(d)' = FcbOf(d) /\ FcbOf(d) \in DOMAIN fcbs  BY <1>14, <4>5
        <5>2. ~Points(FcbOf(d), save1)
          BY <1>3, <4>2, <4>3, <4>5, <5>1 DEF Consistent, Owned
        <5> QED BY <1>1, <1>7, <5>1, <5>2 DEF Points
      <4> QED BY <1>1, <1>17, <4>3, <4>4, <4>5
    <3>3. ASSUME job.trt = None, NEW a \in assoc PROVE a.trt # t
      <4>1. a.trt \in {None} \cup DOMAIN trts  BY <1>2 DEF Typed, TypeOK
      <4> QED BY <1>9, <3>3, <4>1
    <3>4. job'.want = "fcb" /\ job'.save # Wild =>
            /\ job'.save \in DOMAIN iobs'
            /\ iobs'[job'.save].used => Reached(job.save)'
            /\ \A d \in Channels : d # job'.chan /\ Live(d)' => ~Points(FcbOf(d), job.save)'
      BY <1>18, <3>2
    <3>5. job'.fresh => \A a \in assoc' : a.trt # job'.trt  BY <1>1, <1>18, <3>3
    <3>6. job'.want # "none"  BY <1>18, <3>1
    <3> QED BY <3>1, <3>4, <3>5, <3>6 DEF JobOpens
  <2>2. job'.want = "all" => Keeps(job.tio, job.arg)'
    BY <1>3, <1>18 DEF Keeps
  <2>3. job'.trt = chan'[job'.chan] /\ Live(job.chan)' /\ job'.fcb = FcbOf(job.chan)'
    BY <1>12, <1>13, <1>18 DEF Live, FcbOf
  <2> QED BY <1>18, <2>1, <2>2, <2>3 DEF JobHolds
<1> QED BY <1>19, <1>20, <1>21, <1>22, <1>23, <1>24, <1>25, <1>26 DEF Consistent

(* A failure may take the channel apart that the call made: no association  *)
(* has it yet.                                                              *)
LEMMA ChanShrinks ==
  ASSUME Consistent, job.phase = "open", chan' \in {chan, Unspliced}
  PROVE  /\ chan' \in [Channels -> Nat]
         /\ \A c \in Channels : chan'[c] \in {None, chan[c]}
         /\ \A a \in assoc : a.trt # None => \E c \in Channels : chan'[c] = a.trt
<1>1. Typed /\ job # Idle /\ Linked  BY Working DEF Consistent
<1>2. job.chan \in Channels /\ job.trt = chan[job.chan] /\ JobOpens
  BY <1>1, JobFields DEF Consistent, JobHolds
<1>3. chan \in [Channels -> Nat]  BY <1>1 DEF Typed
<1>4. CASE chan' = chan  BY <1>1, <1>3, <1>4 DEF Linked
<1>5. CASE chan' # chan
  <2>1. job.fresh /\ chan' = [chan EXCEPT ![job.chan] = None]  BY <1>5, Zenon DEF Unspliced
  <2>2. chan' \in [Channels -> Nat]  BY <1>3, <2>1 DEF None
  <2>3. \A c \in Channels : chan'[c] = IF c = job.chan THEN None ELSE chan[c]
    BY <1>3, <2>1
  <2>4. ASSUME NEW a \in assoc, a.trt # None PROVE \E c \in Channels : chan'[c] = a.trt
    <3>1. a.trt # job.trt  BY <1>2, <2>1 DEF JobOpens
    <3>2. PICK c \in Channels : chan[c] = a.trt  BY <1>1, <2>4 DEF Linked
    <3>3. c # job.chan  BY <1>2, <3>1, <3>2
    <3> QED BY <2>3, <3>2, <3>3
  <2> QED BY <2>2, <2>3, <2>4
<1> QED BY <1>4, <1>5

(* zysio refuses an access the ioblk does not allow.                        *)
LEMMA IllegallyKeeps ==
  ASSUME Consistent, Illegally
  PROVE  Consistent'
<1>1. /\ job.phase = "open" /\ job' = Idle /\ chan' \in {chan, Unspliced}
      /\ UNCHANGED <<stage, files, iobs, fcbs, trts, assoc, rfcb>>
  BY DEF Illegally, Fail
<1>2. /\ chan' \in [Channels -> Nat]
      /\ \A c \in Channels : chan'[c] \in {None, chan[c]}
      /\ \A a \in assoc : a.trt # None => \E c \in Channels : chan'[c] = a.trt
  BY <1>1, ChanShrinks
<1>3. Typed'
  <2>1. TypeOK'  BY <1>1, <1>2 DEF Consistent, Typed, TypeOK
  <2> QED BY <1>1, <1>2, <2>1 DEF Consistent, Typed
<1>4. Linked'  BY <1>1, <1>2 DEF Consistent, Linked
<1>5. \A c \in Channels : Live(c)' => Live(c) /\ FcbOf(c)' = FcbOf(c)
  BY <1>1, <1>2 DEF Live, FcbOf
<1>6. \A f, i : Points(f, i)' = Points(f, i)  BY <1>1 DEF Points
<1>7. \A i : Reached(i)' = Reached(i)  BY <1>1 DEF Reached
<1>8. Owned'  BY <1>1, <1>5, <1>6 DEF Consistent, Owned
<1>9. UsedReached'  BY <1>1, <1>5, <1>6, <1>7 DEF Consistent, UsedReached
<1>10. OpenReached'  BY <1>1, <1>7 DEF Consistent, OpenReached
<1>11. FlagsKept'  BY <1>1 DEF Consistent, FlagsKept, Keeps
<1>12. JobHolds' /\ Quiet'  BY <1>1 DEF JobHolds, Quiet
<1>13. EndClosesAll'
  <2>1. stage = "runs"  BY <1>1, Working DEF Consistent, Quiet
  <2> QED BY <1>1, <2>1 DEF EndClosesAll
<1> QED BY <1>3, <1>4, <1>8, <1>9, <1>10, <1>11, <1>12, <1>13 DEF Consistent

(* What zysio fills in: the new fcblk, which pointed to nothing, and no     *)
(* other.  It points to a new ioblk, or to one that no other channel has.   *)
LEMMA FilledBlocks ==
  ASSUME Consistent, job.phase = "open", NEW n, n = Len(iobs) + 1,
         NEW i, i = Filled[job.fcb].iob
  PROVE  /\ job.fcb \in DOMAIN fcbs /\ job.fcb = FcbOf(job.chan)
         /\ job.chan \in Channels /\ Live(job.chan)
         /\ n \in Nat /\ n \notin {Null, Wild} \cup DOMAIN iobs
         /\ Filled \in Seq([iob : Int]) /\ DOMAIN Filled = DOMAIN fcbs
         /\ \A f \in DOMAIN fcbs : f # job.fcb => Filled[f].iob = fcbs[f].iob
         /\ i \in {Wild, n} \cup DOMAIN iobs
         /\ \A k \in DOMAIN iobs : fcbs[job.fcb].iob = k => i = k
         /\ i \in DOMAIN iobs =>
              /\ iobs[i].used => Reached(i)
              /\ \A d \in Channels : d # job.chan /\ Live(d) => ~Points(FcbOf(d), i)
         /\ i = n => job.want = "all"
<1> DEFINE g == job.fcb
           R == [iob : Int]
<1>1. Typed /\ job # Idle  BY Working DEF Consistent
<1>2. /\ job.chan \in Channels /\ job.save \in Int /\ job.want \in {"all", "fcb", "none"}
      /\ Live(job.chan) /\ g = FcbOf(job.chan) /\ JobOpens
  BY <1>1, JobFields DEF Consistent, JobHolds
<1>3. g \in DOMAIN fcbs  BY <1>1, <1>2, ChannelBlocks
<1>4. DOMAIN iobs = 1 .. Len(iobs) /\ Len(iobs) \in Nat  BY <1>1 DEF Typed
<1>5. n \in Nat /\ n \notin {Null, Wild} \cup DOMAIN iobs  BY <1>4 DEF Null, Wild
<1>6. fcbs \in Seq(R)  BY <1>1 DEF Typed
<1>7. ASSUME NEW x \in Int, Filled = [fcbs EXCEPT ![g] = [iob |-> x]]
      PROVE  /\ Filled \in Seq([iob : Int]) /\ DOMAIN Filled = DOMAIN fcbs
             /\ \A f \in DOMAIN fcbs : f # g => Filled[f].iob = fcbs[f].iob
             /\ Filled[g].iob = x
  <2> DEFINE r == [iob |-> x]
  <2>1. r \in R /\ r.iob = x  OBVIOUS
  <2> HIDE DEF r, g
  <2>2. Filled = [fcbs EXCEPT ![g] = r]  BY <1>7 DEF r, g
  <2> HIDE DEF R
  <2>3. Filled \in Seq(R) /\ DOMAIN Filled = DOMAIN fcbs /\ Filled[g] = r
        /\ \A f \in DOMAIN fcbs : f # g => Filled[f] = fcbs[f]
    BY <1>3, <1>6, <2>1, <2>2
  <2> QED BY <2>1, <2>3 DEF R, g
<1>8. CASE job.want = "all"
  <2>1. Filled = [fcbs EXCEPT ![g] = [iob |-> n]]  BY <1>8 DEF Filled
  <2>2. n \in Int  BY <1>5
  <2> HIDE DEF g
  <2>3. /\ Filled \in Seq([iob : Int]) /\ DOMAIN Filled = DOMAIN fcbs
        /\ \A f \in DOMAIN fcbs : f # g => Filled[f].iob = fcbs[f].iob
        /\ Filled[g].iob = n
    BY <1>7, <2>1, <2>2
  <2>4. i = n  BY <2>3 DEF g
  <2>5. \A k \in DOMAIN iobs : fcbs[g].iob # k
    BY <1>2, <1>4, <1>8 DEF JobOpens, Null, g
  <2> QED BY <1>2, <1>3, <1>5, <1>8, <2>3, <2>4, <2>5 DEF g
<1>9. CASE job.want = "fcb"
  <2>1. Filled = [fcbs EXCEPT ![g] = [iob |-> job.save]]  BY <1>9 DEF Filled
  <2>2. i = job.save  BY <1>2, <1>7, <2>1
  <2>3. fcbs[g].iob = Null  BY <1>2, <1>9 DEF JobOpens
  <2>4. i # Wild => /\ i \in DOMAIN iobs /\ (iobs[i].used => Reached(i))
                    /\ \A d \in Channels : d # job.chan /\ Live(d) => ~Points(FcbOf(d), i)
    BY <1>2, <1>9, <2>2 DEF JobOpens
  <2>5. i \in {Wild, n} \cup DOMAIN iobs /\ i # n  BY <1>5, <2>4
  <2>6. Wild \notin DOMAIN iobs  BY <1>4 DEF Wild
  <2>7. \A k \in DOMAIN iobs : fcbs[g].iob # k  BY <1>4, <2>3 DEF Null
  <2> HIDE DEF g
  <2>8. /\ Filled \in Seq([iob : Int]) /\ DOMAIN Filled = DOMAIN fcbs
        /\ \A f \in DOMAIN fcbs : f # g => Filled[f].iob = fcbs[f].iob
    BY <1>2, <1>7, <2>1
  <2> QED BY <1>2, <1>3, <1>5, <2>4, <2>5, <2>6, <2>7, <2>8 DEF g
<1>10. CASE job.want = "none"
  <2>1. Filled = fcbs  BY <1>10 DEF Filled
  <2>2. i \in DOMAIN iobs /\ Points(g, i)
    BY <1>2, <1>10, <2>1 DEF JobOpens, Points
  <2>3. iobs[i].used => Reached(i)
    BY <1>2, <2>2 DEF Consistent, UsedReached
  <2>4. \A d \in Channels : d # job.chan /\ Live(d) => ~Points(FcbOf(d), i)
    BY <1>2, <2>2 DEF Consistent, Owned
  <2>5. \A k \in DOMAIN iobs : fcbs[g].iob = k => i = k  BY <2>2 DEF Points
  <2>6. i # n  BY <1>5, <2>2
  <2> QED BY <1>2, <1>3, <1>5, <1>6, <2>1, <2>2, <2>3, <2>4, <2>5, <2>6
<1> QED BY <1>2, <1>8, <1>9, <1>10

(* What zysio leaves keeps the invariant, when the ioblk it opens keeps its *)
(* options and becomes no variable's.                                       *)
LEMMA OpenKeeps ==
  ASSUME Consistent, job.phase = "open", NEW i, i = Filled[job.fcb].iob,
         fcbs' = Filled, chan' \in {chan, Unspliced},
         UNCHANGED <<stage, trts, assoc, rfcb>>,
         files' \in [Files -> {"absent", "text", "empty"}],
         iobs' \in Seq(Ioblks),
         DOMAIN iobs' = DOMAIN iobs \cup ({i} \ {Wild}),
         \A k \in DOMAIN iobs : k # i => iobs'[k] = iobs[k],
         i # Wild => /\ Keeps(iobs'[i], iobs'[i].arg)
                     /\ iobs'[i].used => i \in DOMAIN iobs /\ iobs[i].used,
         job' = Idle \/ (job' = [job EXCEPT !.phase = "finish"] /\ chan' = chan)
  PROVE  Consistent'
<1>0. PICK n, g, c0 : n = Len(iobs) + 1 /\ g = job.fcb /\ c0 = job.chan  OBVIOUS
<1>1. /\ g \in DOMAIN fcbs /\ g = FcbOf(c0) /\ c0 \in Channels /\ Live(c0)
      /\ n \in Nat /\ n \notin {Null, Wild} \cup DOMAIN iobs
      /\ fcbs' \in Seq([iob : Int]) /\ DOMAIN fcbs' = DOMAIN fcbs /\ fcbs'[g].iob = i
      /\ \A f \in DOMAIN fcbs : f # g => fcbs'[f].iob = fcbs[f].iob
      /\ i \in {Wild, n} \cup DOMAIN iobs
      /\ \A k \in DOMAIN iobs : fcbs[g].iob = k => i = k
      /\ i \in DOMAIN iobs =>
           /\ iobs[i].used => Reached(i)
           /\ \A d \in Channels : d # c0 /\ Live(d) => ~Points(FcbOf(d), i)
  BY <1>0, FilledBlocks
<1>2. /\ chan' \in [Channels -> Nat]
      /\ \A c \in Channels : chan'[c] \in {None, chan[c]}
      /\ \A a \in assoc : a.trt # None => \E c \in Channels : chan'[c] = a.trt
  BY ChanShrinks
<1>3. Typed /\ job # Idle  BY Working DEF Consistent
<1>4. job \in Jobs /\ job.trt = chan[c0]
  BY <1>0, <1>3, JobFields DEF Consistent, JobHolds
<1>5. DOMAIN iobs = 1 .. Len(iobs) /\ Len(iobs) \in Nat  BY <1>3 DEF Typed
<1>6. \A c \in Channels : Live(c)' => Live(c) /\ FcbOf(c)' = FcbOf(c)
  BY <1>2 DEF Live, FcbOf
<1>7. ASSUME NEW f \in DOMAIN fcbs, f # g, NEW k, Points(f, k)' PROVE Points(f, k)
  <2>1. fcbs'[f].iob = k /\ k \in DOMAIN iobs'  BY <1>7 DEF Points
  <2>2. fcbs[f].iob = k  BY <1>1, <1>7, <2>1
  <2>3. k \in {Null, Wild} \cup DOMAIN iobs  BY <1>3, <1>7, <2>2 DEF Typed, TypeOK
  <2>4. k \in DOMAIN iobs  BY <1>1, <2>1, <2>3
  <2> QED BY <2>2, <2>4 DEF Points
<1>8. ASSUME NEW k \in DOMAIN iobs, Reached(k) PROVE Reached(k)'
  <2>1. PICK f \in rfcb : fcbs[f].iob = k  BY <1>8 DEF Reached
  <2>2. f \in DOMAIN fcbs  BY <1>3 DEF Typed, TypeOK
  <2>3. fcbs'[f].iob = k  BY <1>1, <2>1, <2>2
  <2> QED BY <2>1, <2>3 DEF Reached
<1>9. ASSUME NEW k \in DOMAIN iobs', iobs'[k].used PROVE k \in DOMAIN iobs /\ iobs[k].used
  <2>1. CASE k = i
    <3>1. i # Wild  BY <1>5, <1>9, <2>1 DEF Wild
    <3> QED BY <1>9, <2>1, <3>1
  <2>2. CASE k # i
    <3>1. k \in DOMAIN iobs /\ iobs'[k] = iobs[k]  BY <1>9, <2>2
    <3> QED BY <1>9, <3>1
  <2> QED BY <2>1, <2>2
<1>10. \A c \in Channels : Live(c) /\ c # c0 => FcbOf(c) # g /\ FcbOf(c) \in DOMAIN fcbs
  BY <1>1, <1>3, ChannelBlocks DEF Consistent, Owned
<1>11. Typed'
  <2>1. /\ stage' \in {"runs", "ended", "crashed"}
        /\ \A t \in DOMAIN trts' :
             trts'[t].fcb \in DOMAIN fcbs' /\ trts'[t].names \subseteq Variables
        /\ \A a \in assoc' : a.var \in Variables /\ a.trt \in {None} \cup DOMAIN trts'
        /\ rfcb' \subseteq DOMAIN fcbs'
    BY <1>1, <1>3 DEF Typed, TypeOK
  <2>2. \A c \in Channels : chan'[c] \in {None} \cup DOMAIN trts'
    BY <1>2, <1>3 DEF Typed, TypeOK
  <2>3. \A f \in DOMAIN fcbs' : fcbs'[f].iob \in {Null, Wild} \cup DOMAIN iobs'
    <3> SUFFICES ASSUME NEW f \in DOMAIN fcbs
                 PROVE  fcbs'[f].iob \in {Null, Wild} \cup DOMAIN iobs'
      BY <1>1
    <3>1. CASE f = g  BY <1>1, <3>1
    <3>2. CASE f # g  BY <1>1, <1>3, <3>2 DEF Typed, TypeOK
    <3> QED BY <3>1, <3>2
  <2>4. TypeOK'  BY <2>1, <2>2, <2>3 DEF TypeOK
  <2>5. job' \in {Idle} \cup Jobs
    <3>1. [job EXCEPT !.phase = "finish"] \in Jobs  BY <1>4 DEF Jobs
    <3> QED BY <3>1
  <2> QED BY <1>1, <1>2, <1>3, <2>4, <2>5 DEF Typed
<1>12. Linked'  BY <1>2 DEF Consistent, Linked
<1>13. Owned'
  <2> SUFFICES ASSUME NEW c \in Channels, NEW d \in Channels, c # d, Live(c)', Live(d)'
               PROVE  /\ FcbOf(c)' # FcbOf(d)'
                      /\ \A k \in DOMAIN iobs' : ~(Points(FcbOf(c), k)' /\ Points(FcbOf(d), k)')
    BY DEF Owned
  <2>1. /\ Live(c) /\ FcbOf(c)' = FcbOf(c) /\ Live(d) /\ FcbOf(d)' = FcbOf(d)
        /\ FcbOf(c) # FcbOf(d)
    BY <1>6 DEF Consistent, Owned
  <2>2. ASSUME NEW e \in Channels, e # c0, Live(e), FcbOf(e)' = FcbOf(e)
        PROVE  /\ ~Points(FcbOf(e), i)'
               /\ \A k : Points(FcbOf(e), k)' => Points(FcbOf(e), k) /\ k \in DOMAIN iobs
    <3>1. FcbOf(e) # g /\ FcbOf(e) \in DOMAIN fcbs  BY <1>10, <2>2
    <3>2. \A k : Points(FcbOf(e), k)' => Points(FcbOf(e), k)
      <4>1. PICK f : f = FcbOf(e)  OBVIOUS
      <4>2. \A k : Points(f, k)' => Points(f, k)  BY <1>7, <3>1, <4>1
      <4>3. \A k : Points(FcbOf(e), k)' <=> Points(f, k)'
        BY <2>2, <4>1 DEF Points
      <4> QED BY <4>1, <4>2, <4>3
    <3>3. \A k : Points(FcbOf(e), k) => k \in DOMAIN iobs  BY DEF Points
    <3>4. ~Points(FcbOf(e), i)'
      <4>1. SUFFICES ASSUME Points(FcbOf(e), i)' PROVE FALSE  OBVIOUS
      <4>2. Points(FcbOf(e), i) /\ i \in DOMAIN iobs
        <5>1. fcbs'[FcbOf(e)'].iob = i /\ i \in DOMAIN iobs'  BY <4>1 DEF Points
        <5>2. fcbs'[FcbOf(e)].iob = i  BY <2>2, <5>1
        <5>3. fcbs[FcbOf(e)].iob = i  BY <1>1, <3>1, <5>2
        <5>4. i \in {Null, Wild} \cup DOMAIN iobs  BY <1>3, <3>1, <5>3 DEF Typed, TypeOK
        <5>5. i \in DOMAIN iobs  BY <1>1, <5>1, <5>4
        <5> QED BY <5>3, <5>5 DEF Points
      <4> QED BY <1>1, <2>2, <4>2
    <3> QED BY <3>2, <3>3, <3>4
  <2>3. ASSUME NEW k, Points(FcbOf(c0), k)', FcbOf(c0)' = FcbOf(c0) PROVE k = i
    <3>1. fcbs'[FcbOf(c0)'].iob = k  BY <2>3 DEF Points
    <3> QED BY <1>1, <2>3, <3>1
  <2>4. CASE c = c0
    <3>1. ~Points(FcbOf(d), i)'  BY <2>1, <2>2, <2>4
    <3>2. \A k : Points(FcbOf(c), k)' => k = i  BY <2>1, <2>3, <2>4
    <3> QED BY <2>1, <3>1, <3>2
  <2>5. CASE d = c0
    <3>1. ~Points(FcbOf(c), i)'  BY <2>1, <2>2, <2>5
    <3>2. \A k : Points(FcbOf(d), k)' => k = i  BY <2>1, <2>3, <2>5
    <3> QED BY <2>1, <3>1, <3>2
  <2>6. CASE c # c0 /\ d # c0
    <3>1. \A k : /\ Points(FcbOf(c), k)' => Points(FcbOf(c), k) /\ k \in DOMAIN iobs
                 /\ Points(FcbOf(d), k)' => Points(FcbOf(d), k) /\ k \in DOMAIN iobs
      BY <2>1, <2>2, <2>6
    <3> QED BY <2>1, <3>1 DEF Consistent, Owned
  <2> QED BY <2>4, <2>5, <2>6
<1>14. UsedReached'
  <2> SUFFICES ASSUME NEW c \in Channels, NEW k \in DOMAIN iobs', Live(c)',
                      Points(FcbOf(c), k)', iobs'[k].used
               PROVE  Reached(k)'
    BY DEF UsedReached
  <2>1. k \in DOMAIN iobs /\ iobs[k].used  BY <1>9
  <2>2. CASE k = i  BY <1>1, <1>8, <2>1, <2>2
  <2>3. CASE k # i
    <3>1. PICK f : f = FcbOf(c)  OBVIOUS
    <3>2. Live(c) /\ FcbOf(c)' = f  BY <1>6, <3>1
    <3>3. f \in DOMAIN fcbs  BY <1>3, <3>1, <3>2, ChannelBlocks
    <3>4. fcbs'[f].iob = k /\ Points(f, k)'  BY <3>2 DEF Points
    <3>5. f # g  BY <1>1, <2>3, <3>4
    <3>6. Points(f, k)  BY <1>7, <3>3, <3>4, <3>5
    <3>7. Reached(k)  BY <2>1, <3>1, <3>2, <3>6 DEF Consistent, UsedReached
    <3> QED BY <1>8, <2>1, <3>7
  <2> QED BY <2>2, <2>3
<1>15. OpenReached'
  <2> SUFFICES ASSUME NEW k \in DOMAIN iobs', iobs'[k].used, iobs'[k].opn
               PROVE  iobs'[k].sys \/ Reached(k)'
    BY DEF OpenReached
  <2>1. k \in DOMAIN iobs /\ iobs[k].used  BY <1>9
  <2>2. CASE k = i  BY <1>1, <1>8, <2>1, <2>2
  <2>3. CASE k # i
    <3>1. iobs'[k] = iobs[k]  BY <2>1, <2>3
    <3>2. iobs[k].sys \/ Reached(k)  BY <2>1, <3>1 DEF Consistent, OpenReached
    <3> QED BY <1>8, <2>1, <3>1, <3>2
  <2> QED BY <2>2, <2>3
<1>16. FlagsKept'
  <2> SUFFICES ASSUME NEW k \in DOMAIN iobs' PROVE Keeps(iobs'[k], iobs'[k].arg)
    BY DEF FlagsKept, Keeps
  <2>1. CASE k = i
    <3>1. i # Wild  BY <1>5, <2>1 DEF Wild
    <3> QED BY <2>1, <3>1
  <2>2. CASE k # i
    <3>1. k \in DOMAIN iobs /\ iobs'[k] = iobs[k]  BY <2>2
    <3>2. Keeps(iobs[k], iobs[k].arg)  BY <3>1 DEF Consistent, FlagsKept
    <3> QED BY <3>1, <3>2
  <2> QED BY <2>1, <2>2
<1>17. JobHolds'
  <2>1. CASE job' = Idle  BY <2>1 DEF JobHolds
  <2>2. CASE job' = [job EXCEPT !.phase = "finish"] /\ chan' = chan
    <3>1. job'.phase = "finish" /\ job'.trt = job.trt /\ job'.chan = c0 /\ job'.fcb = g
      BY <1>0, <1>4, <2>2 DEF Jobs
    <3>2. \A c : Live(c)' = Live(c) /\ FcbOf(c)' = FcbOf(c)  BY <2>2 DEF Live, FcbOf
    <3>3. Live(job.chan)' /\ FcbOf(job.chan)' = g
      BY <1>1, <2>2, <3>1 DEF Live, FcbOf
    <3> QED BY <1>4, <2>2, <3>1, <3>3 DEF JobHolds
  <2> QED BY <2>1, <2>2
<1>18. Quiet' /\ EndClosesAll'
  <2>1. stage = "runs"  BY <1>3 DEF Consistent, Quiet
  <2> QED BY <2>1 DEF Quiet, EndClosesAll
<1> QED BY <1>11, <1>12, <1>13, <1>14, <1>15, <1>16, <1>17, <1>18 DEF Consistent

(* Opening an ioblk changes neither its options nor whose it is.            *)
LEMMA OpenedFields ==
  ASSUME NEW b \in Ioblks, NEW fd \in {0, 2, 4}, NEW sys \in BOOLEAN
  PROVE  /\ Opened(b, fd, sys) \in Ioblks
         /\ Opened(b, fd, sys).arg = b.arg /\ Opened(b, fd, sys).app = b.app
         /\ Opened(b, fd, sys).inp = b.inp /\ Opened(b, fd, sys).out = b.out
         /\ Opened(b, fd, sys).used = b.used /\ Opened(b, fd, sys).opn = TRUE
<1> DEFINE x == b.sys \/ sys
<1>1. x \in BOOLEAN  BY Zenon
<1>2. Opened(b, fd, sys) = [b EXCEPT !.opn = TRUE, !.fdn = fd, !.sys = x]  BY DEF Opened
<1> HIDE DEF x
<1> QED BY <1>1, <1>2 DEF Ioblks

(* osopen opens the ioblk or leaves it, and empties the file only when it   *)
(* opens one for output, and neither for update nor for append.             *)
LEMMA OsOpenBlocks ==
  ASSUME NEW b \in Ioblks, NEW o \in OsOpen(b),
         files \in [Files -> {"absent", "text", "empty"}]
  PROVE  /\ o.iob \in Ioblks
         /\ o.iob.arg = b.arg /\ o.iob.app = b.app /\ o.iob.inp = b.inp
         /\ o.iob.out = b.out /\ o.iob.used = b.used
         /\ o.files \in [Files -> {"absent", "text", "empty"}]
         /\ \A n \in Files : files[n] = "text" /\ o.files[n] # "text" =>
              /\ b.arg.name = n /\ b.out /\ ~b.inp /\ ~b.app
              /\ o.iob.opn
<1> DEFINE FS == [Files -> {"absent", "text", "empty"}]
           name == b.arg.name
           Good == /\ o.iob \in Ioblks
                   /\ o.iob.arg = b.arg /\ o.iob.app = b.app /\ o.iob.inp = b.inp
                   /\ o.iob.out = b.out /\ o.iob.used = b.used
           made == [files EXCEPT ![name] = "empty"]
           bits == IF b.out THEN 2 ELSE 0
           kept == (b.inp \/ b.app) /\ files[name] # "absent"
<1>1. \/ o = NotOpened(b)
      \/ o = [ok |-> TRUE, iob |-> Opened(b, bits, TRUE), files |-> files]
      \/ b.out /\ o = [ok |-> TRUE, iob |-> Opened(b, 4, FALSE),
                       files |-> IF kept THEN files ELSE made]
      \/ o = [ok |-> TRUE, iob |-> Opened(b, 4, FALSE), files |-> files]
  <2>1. \/ o = NotOpened(b)
        \/ o = [ok |-> TRUE, iob |-> Opened(b, bits, TRUE), files |-> files]
        \/ o \in OpenFile(b, name)
    BY Zenon DEF OsOpen
  <2>2. ASSUME o \in OpenFile(b, name)
        PROVE \/ o = NotOpened(b)
              \/ b.out /\ o = [ok |-> TRUE, iob |-> Opened(b, 4, FALSE),
                               files |-> IF kept THEN files ELSE made]
              \/ o = [ok |-> TRUE, iob |-> Opened(b, 4, FALSE), files |-> files]
    <3>1. CASE b.out  BY <2>2, <3>1, Zenon DEF OpenFile
    <3>2. CASE ~b.out  BY <2>2, <3>2, Zenon DEF OpenFile
    <3> QED BY <3>1, <3>2
  <2> QED BY <2>1, <2>2
<1>2. bits \in {0, 2, 4}  BY Zenon
<1>3. made \in FS /\ \A n \in Files : made[n] = IF n = name THEN "empty" ELSE files[n]
  OBVIOUS
<1> HIDE DEF made, bits, FS
<1>4. CASE o = NotOpened(b)
  BY <1>4 DEF NotOpened, FS
<1>5. CASE o = [ok |-> TRUE, iob |-> Opened(b, bits, TRUE), files |-> files]
  <2> DEFINE c == Opened(b, bits, TRUE)
  <2>1. /\ c \in Ioblks /\ c.arg = b.arg /\ c.app = b.app /\ c.inp = b.inp
        /\ c.out = b.out /\ c.used = b.used
    BY <1>2, OpenedFields, TRUE \in BOOLEAN, ZenonT(30)
  <2> HIDE DEF c
  <2>2. o.iob = c /\ o.files = files  BY <1>5 DEF c
  <2> QED BY <2>1, <2>2 DEF FS
<1>6. ASSUME o.iob = Opened(b, 4, FALSE) PROVE Good /\ o.iob.opn
  <2> DEFINE c == Opened(b, 4, FALSE)
  <2>1. /\ c \in Ioblks /\ c.arg = b.arg /\ c.app = b.app /\ c.inp = b.inp
        /\ c.out = b.out /\ c.used = b.used /\ c.opn = TRUE
    BY OpenedFields, 4 \in {0, 2, 4}, FALSE \in BOOLEAN, ZenonT(30)
  <2> HIDE DEF c
  <2>2. o.iob = c  BY <1>6 DEF c
  <2> QED BY <2>1, <2>2, Zenon
<1>7. CASE o = [ok |-> TRUE, iob |-> Opened(b, 4, FALSE), files |-> files]
  <2>1. o.iob = Opened(b, 4, FALSE) /\ o.files = files  BY <1>7
  <2> QED BY <1>6, <2>1 DEF FS
<1>8. CASE b.out /\ o = [ok |-> TRUE, iob |-> Opened(b, 4, FALSE),
                         files |-> IF kept THEN files ELSE made]
  <2>1. o.iob = Opened(b, 4, FALSE)  BY <1>8
  <2>2. o.files = IF kept THEN files ELSE made  BY <1>8
  <2>3. Good /\ o.iob.opn  BY <1>6, <2>1
  <2>4. o.files \in FS  BY <1>3, <2>2 DEF FS
  <2>5. ASSUME NEW n \in Files, files[n] = "text", o.files[n] # "text"
        PROVE  name = n /\ ~b.inp /\ ~b.app
    <3>1. ~kept /\ o.files = made  BY <2>2, <2>5
    <3>2. n = name  BY <1>3, <2>5, <3>1
    <3>3. files[name] # "absent"  BY <2>5, <3>2
    <3> QED BY <3>1, <3>2, <3>3, Zenon
  <2> HIDE DEF Good, name, kept
  <2>6. \A n \in Files : files[n] = "text" /\ o.files[n] # "text" =>
          name = n /\ b.out /\ ~b.inp /\ ~b.app /\ o.iob.opn
    BY <1>8, <2>3, <2>5, Zenon
  <2> QED BY <2>3, <2>4, <2>6 DEF Good, FS, name
<1> QED BY <1>1, <1>4, <1>5, <1>7, <1>8

(* The flags of a new ioblk are the options of its association.             *)
LEMMA NewIobFields ==
  ASSUME NEW j \in Jobs, Keeps(j.tio, j.arg)
  PROVE  /\ NewIob(j) \in Ioblks /\ NewIob(j).used = FALSE
         /\ Keeps(NewIob(j), NewIob(j).arg)
<1> DEFINE t == j.tio
           a == j.arg
           b == NewIob(j)
<1>1. t \in Flags /\ a \in FileArg2  BY DEF Jobs
<1>2. /\ t.inp \in BOOLEAN /\ t.out \in BOOLEAN /\ t.app \in BOOLEAN /\ t.opn \in BOOLEAN
      /\ t.sys \in BOOLEAN /\ t.fdn \in {0, 3}
  BY <1>1 DEF Flags
<1>3. b = [arg |-> a, inp |-> t.inp, out |-> t.out, app |-> t.app, opn |-> t.opn,
           sys |-> t.sys, fdn |-> t.fdn, used |-> FALSE]
  BY DEF NewIob
<1> HIDE DEF t, a, b
<1>4. b \in Ioblks  BY <1>1, <1>2, <1>3 DEF Ioblks
<1>5. b.arg = a /\ b.app = t.app /\ b.inp = t.inp /\ b.used = FALSE  BY <1>3
<1>6. Keeps(t, a)  BY DEF t, a
<1>7. Keeps(b, b.arg)  BY <1>5, <1>6, Zenon DEF Keeps
<1> QED BY <1>4, <1>5, <1>7 DEF b

(* The association of an ioblk that gives up the text of file n.            *)
GivesUp(n, i) ==
  /\ iobs'[i].out /\ iobs'[i].opn /\ iobs'[i].arg.name = n
  /\ (i \in DOMAIN iobs => ~iobs[i].opn)
  /\ {"A", "U"} \cap Range(iobs'[i].arg.opts) = {}

(* Ioblk i joins the ioblks or is replaced among them: it keeps its options *)
(* and is no more used than it was, and a file whose text is lost was given *)
(* up.                                                                      *)
Opens(i) ==
  /\ iobs' \in Seq(Ioblks) /\ DOMAIN iobs' = DOMAIN iobs \cup {i}
  /\ \A k \in DOMAIN iobs : k # i => iobs'[k] = iobs[k]
  /\ Keeps(iobs'[i], iobs'[i].arg)
  /\ iobs'[i].used => i \in DOMAIN iobs /\ iobs[i].used
  /\ files' \in [Files -> {"absent", "text", "empty"}]
  /\ \A n \in Files : files[n] = "text" /\ files'[n] # "text" => GivesUp(n, i)

(* zysio on a sound fcblk.                                                  *)
LEMMA OpenSoundBlocks ==
  ASSUME Consistent, job.phase = "open", NEW i, i = Filled[job.fcb].iob,
         i \notin {Null, Wild},
         NEW b, b = IF i > Len(iobs) THEN NewIob(job) ELSE iobs[i],
         NEW o \in IF b.opn THEN {[ok |-> TRUE, iob |-> b, files |-> files]} ELSE OsOpen(b),
         OpenSound(i, b, o)
  PROVE  Opens(i)
<1> DEFINE FS == [Files -> {"absent", "text", "empty"}]
<1>0. PICK m : m = Len(iobs) + 1  OBVIOUS
<1>1. /\ m \in Nat /\ m \notin {Null, Wild} \cup DOMAIN iobs
      /\ i \in {Wild, m} \cup DOMAIN iobs /\ (i = m => job.want = "all")
  BY <1>0, FilledBlocks
<1>2. Typed /\ job # Idle  BY Working DEF Consistent
<1>3. job \in Jobs /\ (job.want = "all" => Keeps(job.tio, job.arg))
  BY <1>2, JobFields DEF Consistent, JobHolds
<1>4. iobs \in Seq(Ioblks) /\ DOMAIN iobs = 1 .. Len(iobs) /\ Len(iobs) \in Nat /\ files \in FS
  BY <1>2 DEF Typed, TypeOK
<1>5. (i = m /\ b = NewIob(job)) \/ (i \in DOMAIN iobs /\ b = iobs[i])
  <2>1. CASE i = m  BY <1>0, <1>4, <2>1
  <2>2. CASE i \in DOMAIN iobs  BY <1>4, <2>2
  <2> QED BY <1>1, <2>1, <2>2
<1>6. /\ b \in Ioblks /\ Keeps(b, b.arg)
      /\ b.used => i \in DOMAIN iobs /\ iobs[i].used
  <2>1. CASE i = m /\ b = NewIob(job)
    <3>1. NewIob(job) \in Ioblks /\ NewIob(job).used = FALSE
          /\ Keeps(NewIob(job), NewIob(job).arg)
      BY <1>1, <1>3, <2>1, NewIobFields
    <3> QED BY <2>1, <3>1
  <2>2. CASE i \in DOMAIN iobs /\ b = iobs[i]
    <3>1. b \in Ioblks  BY <1>4, <2>2
    <3>2. Keeps(b, b.arg)  BY <2>2 DEF Consistent, FlagsKept
    <3> QED BY <2>2, <3>1, <3>2
  <2> QED BY <1>5, <2>1, <2>2
<1> DEFINE c == o.iob
           Lost == \A n \in Files : files[n] = "text" /\ o.files[n] # "text" =>
                     b.arg.name = n /\ b.out /\ ~b.inp /\ ~b.app /\ c.opn /\ ~b.opn
<1>7. /\ c \in Ioblks /\ c.arg = b.arg /\ c.app = b.app /\ c.inp = b.inp
      /\ c.out = b.out /\ c.used = b.used
      /\ o.files \in FS /\ Lost
  <2>1. CASE b.opn
    <3>1. o = [ok |-> TRUE, iob |-> b, files |-> files]  BY <2>1, Zenon
    <3>2. o.iob = b /\ o.files = files  BY <3>1
    <3> QED BY <1>4, <1>6, <3>2
  <2>2. CASE ~b.opn
    <3>1. o \in OsOpen(b)  BY <2>2, Zenon
    <3>2. /\ c \in Ioblks /\ c.arg = b.arg /\ c.app = b.app /\ c.inp = b.inp
          /\ c.out = b.out /\ c.used = b.used /\ o.files \in FS
          /\ \A n \in Files : files[n] = "text" /\ o.files[n] # "text" =>
               /\ b.arg.name = n /\ b.out /\ ~b.inp /\ ~b.app
               /\ c.opn
      <4>1. b \in Ioblks /\ files \in [Files -> {"absent", "text", "empty"}]  BY <1>4, <1>6
      <4> QED BY <3>1, <4>1, OsOpenBlocks, ZenonT(60)
    <3> HIDE DEF c, FS
    <3>3. Lost  BY <2>2, <3>2, Zenon
    <3> HIDE DEF Lost
    <3> QED BY <3>2, <3>3
  <2> QED BY <2>1, <2>2
<1>8. Keeps(c, c.arg)  BY <1>6, <1>7, Zenon DEF Keeps
<1>9. /\ iobs' = IF i > Len(iobs) THEN Append(iobs, c) ELSE [iobs EXCEPT ![i] = c]
      /\ files' = o.files
  BY DEF OpenSound
<1> HIDE DEF c
<1>10. /\ iobs' \in Seq(Ioblks) /\ DOMAIN iobs' = DOMAIN iobs \cup {i} /\ iobs'[i] = c
       /\ \A k \in DOMAIN iobs : k # i => iobs'[k] = iobs[k]
  <2>1. CASE i = m
    <3>0. i > Len(iobs) /\ i = Len(iobs) + 1  BY <1>0, <1>4, <2>1
    <3>1. iobs' = Append(iobs, c)  BY <1>9, <3>0, Zenon
    <3> QED BY <1>4, <1>7, <3>0, <3>1
  <2>2. CASE i \in DOMAIN iobs
    <3>0. ~(i > Len(iobs))  BY <1>4, <2>2
    <3>1. iobs' = [iobs EXCEPT ![i] = c]  BY <1>9, <3>0, Zenon
    <3>2. DOMAIN iobs' = DOMAIN iobs /\ DOMAIN iobs \cup {i} = DOMAIN iobs  BY <2>2, <3>1
    <3>3. iobs'[i] = c /\ \A k \in DOMAIN iobs : k # i => iobs'[k] = iobs[k]  BY <2>2, <3>1
    <3>4. iobs' \in Seq(Ioblks)
      <4>1. iobs \in Seq(Ioblks) /\ c \in Ioblks  BY <1>4, <1>7
      <4> QED BY <2>2, <3>1, <4>1
    <3> QED BY <3>2, <3>3, <3>4
  <2> QED BY <1>1, <2>1, <2>2
<1>11. ASSUME NEW n \in Files, files[n] = "text", files'[n] # "text" PROVE GivesUp(n, i)
  <2>1. b.arg.name = n /\ b.out /\ ~b.inp /\ ~b.app /\ c.opn /\ ~b.opn  BY <1>7, <1>9, <1>11
  <2>2. "A" \notin Range(b.arg.opts) /\ "U" \notin Range(b.arg.opts)
    BY <1>6, <2>1, Zenon DEF Keeps
  <2>3. {"A", "U"} \cap Range(b.arg.opts) = {}  BY <2>2
  <2>4. i \in DOMAIN iobs => ~iobs[i].opn
    <3>1. i \in DOMAIN iobs => b = iobs[i]  BY <1>1, <1>5
    <3> QED BY <2>1, <3>1
  <2>5. iobs'[i].out = b.out /\ iobs'[i].opn = c.opn /\ iobs'[i].arg = b.arg
    BY <1>7, <1>10
  <2> QED BY <2>1, <2>3, <2>4, <2>5, Zenon DEF GivesUp
<1>12. Keeps(iobs'[i], iobs'[i].arg)  BY <1>8, <1>10
<1>13. iobs'[i].used => i \in DOMAIN iobs /\ iobs[i].used  BY <1>6, <1>7, <1>10
<1>14. files' \in FS  BY <1>7, <1>9
<1> QED BY <1>10, <1>11, <1>12, <1>13, <1>14 DEF Opens

(* zysio.                                                                   *)
LEMMA SysioKeeps ==
  ASSUME Consistent, Sysio
  PROVE  Consistent'
<1> DEFINE j == Filled[job.fcb].iob
           b == IF j > Len(iobs) THEN NewIob(job) ELSE iobs[j]
<1>1. /\ job.phase = "open"
      /\ \/ j \in {Null, Wild} /\ (Crash \/ OpenWild)
         \/ /\ j \notin {Null, Wild}
            /\ \E o \in IF b.opn THEN {[ok |-> TRUE, iob |-> b, files |-> files]}
                        ELSE OsOpen(b) : OpenSound(j, b, o)
  BY Zenon DEF Sysio
<1>2. PICK i : i = j  OBVIOUS
<1>3. CASE Crash  BY <1>3, CrashKeeps
<1>4. CASE j \in {Null, Wild} /\ OpenWild
  <2>1. i \in {Wild, Len(iobs) + 1} \cup DOMAIN iobs
        /\ Null \notin {Wild, Len(iobs) + 1} \cup DOMAIN iobs
    <3>1. PICK n : n = Len(iobs) + 1  OBVIOUS
    <3>2. i \in {Wild, n} \cup DOMAIN iobs /\ n \notin {Null, Wild} \cup DOMAIN iobs
      BY <1>1, <1>2, <3>1, FilledBlocks
    <3>3. Typed  BY DEF Consistent
    <3>4. DOMAIN iobs = 1 .. Len(iobs) /\ Len(iobs) \in Nat  BY <3>3 DEF Typed
    <3>5. Null \notin {Wild, n} \cup DOMAIN iobs  BY <3>2, <3>4 DEF Null, Wild
    <3> QED BY <3>1, <3>2, <3>5
  <2>2. i = Wild  BY <1>2, <1>4, <2>1
  <2>3. /\ fcbs' = Filled /\ job' = [job EXCEPT !.phase = "finish"]
        /\ UNCHANGED <<stage, files, iobs, trts, chan, assoc, rfcb>>
    BY <1>4 DEF OpenWild
  <2>4. /\ files' \in [Files -> {"absent", "text", "empty"}] /\ iobs' \in Seq(Ioblks)
    BY <2>3 DEF Consistent, Typed, TypeOK
  <2>5. DOMAIN iobs' = DOMAIN iobs \cup ({i} \ {Wild})  BY <2>2, <2>3
  <2> HIDE DEF j
  <2> QED BY <1>1, <1>2, <2>2, <2>3, <2>4, <2>5, OpenKeeps DEF j
<1>5. CASE /\ j \notin {Null, Wild}
           /\ \E o \in IF b.opn THEN {[ok |-> TRUE, iob |-> b, files |-> files]}
                       ELSE OsOpen(b) : OpenSound(j, b, o)
  <2>1. PICK b1 : b1 = b  OBVIOUS
  <2>2. PICK o \in IF b1.opn THEN {[ok |-> TRUE, iob |-> b1, files |-> files]}
                   ELSE OsOpen(b1) : OpenSound(i, b1, o)
    BY <1>2, <1>5, <2>1
  <2>3. i \notin {Null, Wild} /\ i = Filled[job.fcb].iob
        /\ b1 = IF i > Len(iobs) THEN NewIob(job) ELSE iobs[i]
    BY <1>2, <1>5, <2>1
  <2>4. Opens(i)  BY <1>1, <2>2, <2>3, OpenSoundBlocks, ZenonT(60)
  <2>7. /\ iobs' \in Seq(Ioblks) /\ DOMAIN iobs' = DOMAIN iobs \cup {i}
        /\ \A k \in DOMAIN iobs : k # i => iobs'[k] = iobs[k]
        /\ Keeps(iobs'[i], iobs'[i].arg)
        /\ iobs'[i].used => i \in DOMAIN iobs /\ iobs[i].used
        /\ files' \in [Files -> {"absent", "text", "empty"}]
        /\ \A n \in Files : files[n] = "text" /\ files'[n] # "text" => GivesUp(n, i)
    BY <2>4 DEF Opens
  <2>5. /\ fcbs' = Filled /\ chan' \in {chan, Unspliced}
        /\ UNCHANGED <<stage, trts, assoc, rfcb>>
        /\ job' = Idle \/ (job' = [job EXCEPT !.phase = "finish"] /\ chan' = chan)
    BY <2>2 DEF OpenSound, Fail
  <2>6. DOMAIN iobs' = DOMAIN iobs \cup ({i} \ {Wild})  BY <2>3, <2>7
  <2> QED BY <1>1, <2>3, <2>5, <2>6, <2>7, OpenKeeps
<1> QED BY <1>1, <1>3, <1>4, <1>5

(* The variable joins its channel and the fcblk joins r_fcb.                *)
LEMMA FinishKeeps ==
  ASSUME Consistent, Finish
  PROVE  Consistent'
<1>1. /\ job.phase = "finish" /\ job' = Idle
      /\ UNCHANGED <<stage, files, fcbs, chan>>
  BY DEF Finish
<1>2. Typed /\ job # Idle  BY <1>1, Working DEF Consistent
<1>3. stage = "runs"  BY <1>2 DEF Consistent, Quiet
<1>4. Quiet' /\ JobHolds' /\ EndClosesAll'
  BY <1>1, <1>3 DEF Quiet, JobHolds, EndClosesAll
<1>5. CASE job.var = Unsuitable
  <2>1. UNCHANGED <<iobs, trts, assoc, rfcb>>  BY <1>5 DEF Finish
  <2> QED BY <1>1, <1>3, <1>4, <2>1, OnlyJob
<1>6. CASE job.var # Unsuitable
  <2>0. PICK v, t, g, j :
          v = job.var /\ t = job.trt /\ g = job.fcb /\ j = fcbs[job.fcb].iob
    OBVIOUS
  <2>1. /\ assoc' = Trapped(v, job.out, t) /\ trts' = Listed(t, v) /\ rfcb' = Chained(g)
        /\ iobs' = IF Sound(g) THEN [iobs EXCEPT ![j].used = TRUE] ELSE iobs
    BY <1>6, <2>0 DEF Finish
  <2>2. /\ job \in Jobs /\ v \in Variables /\ job.chan \in Channels
        /\ t = chan[job.chan] /\ Live(job.chan) /\ g = FcbOf(job.chan)
    BY <1>1, <1>2, <1>6, <2>0, JobFields DEF Consistent, JobHolds
  <2>3. t \in DOMAIN trts /\ g \in DOMAIN fcbs /\ t # None
    BY <1>2, <2>2, ChannelBlocks DEF Live
  <2>4. Sound(g) => j \in DOMAIN iobs  BY <1>2, <2>0, <2>3, SoundPoints DEF Points
  <2>5. job.out \in BOOLEAN /\ t \in Nat  BY <1>2, <2>0, <2>2, JobFields DEF Jobs
  <2>6. /\ iobs' \in Seq(Ioblks) /\ DOMAIN iobs' = DOMAIN iobs
        /\ \A i \in DOMAIN iobs :
             /\ iobs'[i].arg = iobs[i].arg /\ iobs'[i].app = iobs[i].app
             /\ iobs'[i].inp = iobs[i].inp /\ iobs'[i].opn = iobs[i].opn
             /\ iobs'[i].sys = iobs[i].sys
             /\ iobs'[i].used => iobs[i].used \/ j = i
    <3>1. CASE ~Sound(g)
      <4>1. iobs' = iobs  BY <2>1, <3>1, Zenon
      <4> QED BY <1>2, <4>1 DEF Typed
    <3>2. CASE Sound(g)
      <4> DEFINE b == iobs[j]
                 c == [b EXCEPT !.used = TRUE]
      <4>1. iobs' = [iobs EXCEPT ![j] = c]  BY <2>1, <3>2
      <4>2. iobs \in Seq(Ioblks)  BY <1>2 DEF Typed
      <4>3. j \in DOMAIN iobs  BY <2>4, <3>2
      <4>4. b \in Ioblks  BY <4>2, <4>3
      <4> HIDE DEF b
      <4>5. /\ c \in Ioblks /\ c.arg = b.arg /\ c.app = b.app /\ c.inp = b.inp
            /\ c.opn = b.opn /\ c.sys = b.sys
        BY <4>4 DEF Ioblks
      <4> HIDE DEF c
      <4>6. /\ iobs' \in Seq(Ioblks) /\ DOMAIN iobs' = DOMAIN iobs /\ iobs'[j] = c
            /\ \A i \in DOMAIN iobs : i # j => iobs'[i] = iobs[i]
        BY <4>1, <4>2, <4>3, <4>5
      <4>7. ASSUME NEW i \in DOMAIN iobs
            PROVE  /\ iobs'[i].arg = iobs[i].arg /\ iobs'[i].app = iobs[i].app
                   /\ iobs'[i].inp = iobs[i].inp /\ iobs'[i].opn = iobs[i].opn
                   /\ iobs'[i].sys = iobs[i].sys
                   /\ iobs'[i].used => iobs[i].used \/ j = i
        <5>1. CASE i = j  BY <4>5, <4>6, <5>1 DEF b
        <5>2. CASE i # j  BY <4>6, <5>2
        <5> QED BY <5>1, <5>2
      <4> QED BY <4>6, <4>7
    <3> QED BY <3>1, <3>2
  <2>7. /\ trts' \in Seq([fcb : Nat, names : SUBSET Variables])
        /\ DOMAIN trts' = DOMAIN trts
        /\ \A s \in DOMAIN trts : trts'[s].fcb = trts[s].fcb /\ trts[s].names \subseteq trts'[s].names
        /\ v \in trts'[t].names
    <3> DEFINE R == [fcb : Nat, names : SUBSET Variables]
               r == trts[t]
               q == [r EXCEPT !.names = @ \cup {v}]
    <3>1. trts \in Seq(R)  BY <1>2 DEF Typed
    <3>2. trts' = [trts EXCEPT ![t] = q]  BY <2>1 DEF Listed
    <3>3. r \in R
      <4> HIDE DEF R
      <4> QED BY <2>3, <3>1
    <3> HIDE DEF r
    <3>4. q \in R /\ q.fcb = r.fcb /\ q.names = r.names \cup {v}  BY <2>2, <3>3
    <3> HIDE DEF q, R
    <3>5. /\ trts' \in Seq(R) /\ DOMAIN trts' = DOMAIN trts /\ trts'[t] = q
          /\ \A s \in DOMAIN trts : s # t => trts'[s] = trts[s]
      BY <2>3, <3>1, <3>2, <3>4
    <3>6. ASSUME NEW s \in DOMAIN trts
          PROVE  trts'[s].fcb = trts[s].fcb /\ trts[s].names \subseteq trts'[s].names
      <4>1. CASE s = t  BY <3>4, <3>5, <4>1 DEF r
      <4>2. CASE s # t  BY <3>5, <4>2
      <4> QED BY <4>1, <4>2
    <3>7. v \in trts'[t].names  BY <3>4, <3>5
    <3> QED BY <3>5, <3>6, <3>7 DEF R
  <2>8. \A a \in assoc' : a \in assoc \/ (a.var = v /\ a.trt = t)
    BY <2>1 DEF Trapped
  <2>9. assoc' \subseteq [var : Variables, out : BOOLEAN, trt : Nat]
    <3> DEFINE o == job.out
               n == [var |-> v, out |-> o, trt |-> t]
    <3>1. assoc' \subseteq assoc \cup {n}  BY <2>1 DEF Trapped
    <3>2. o \in BOOLEAN  BY <2>5
    <3> HIDE DEF o
    <3>3. n \in [var : Variables, out : BOOLEAN, trt : Nat]  BY <2>2, <2>5, <3>2
    <3> HIDE DEF n
    <3> QED BY <1>2, <3>1, <3>3 DEF Typed
  <2>10. rfcb' = rfcb \cup {g}  BY <2>1 DEF Chained
  <2>11. Typed'
    <3>1. /\ \A s \in DOMAIN trts' :
               trts'[s].fcb \in DOMAIN fcbs' /\ trts'[s].names \subseteq Variables
      <4> SUFFICES ASSUME NEW s \in DOMAIN trts
                   PROVE  trts'[s].fcb \in DOMAIN fcbs' /\ trts'[s].names \subseteq Variables
        BY <2>7
      <4>1. trts'[s].fcb \in DOMAIN fcbs'  BY <1>1, <1>2, <2>7 DEF Typed, TypeOK
      <4>2. trts'[s] \in [fcb : Nat, names : SUBSET Variables]
        <5> DEFINE R == [fcb : Nat, names : SUBSET Variables]
        <5>1. trts' \in Seq(R) /\ s \in DOMAIN trts'  BY <2>7
        <5> HIDE DEF R
        <5>2. trts'[s] \in R  BY <5>1
        <5> QED BY <5>2 DEF R
      <4> QED BY <4>1, <4>2
    <3>2. \A a \in assoc' : a.var \in Variables /\ a.trt \in {None} \cup DOMAIN trts'
      BY <1>2, <2>2, <2>3, <2>7, <2>8 DEF Typed, TypeOK
    <3>3. rfcb' \subseteq DOMAIN fcbs'  BY <1>1, <1>2, <2>3, <2>10 DEF Typed, TypeOK
    <3>4. /\ stage' \in {"runs", "ended", "crashed"}
          /\ files' \in [Files -> {"absent", "text", "empty"}]
          /\ \A f \in DOMAIN fcbs' : fcbs'[f].iob \in {Null, Wild} \cup DOMAIN iobs'
          /\ \A c \in Channels : chan'[c] \in {None} \cup DOMAIN trts'
      BY <1>1, <1>2, <2>6, <2>7 DEF Typed, TypeOK
    <3>5. TypeOK'  BY <3>1, <3>2, <3>3, <3>4 DEF TypeOK
    <3> QED BY <1>1, <1>2, <2>6, <2>7, <2>9, <3>5 DEF Typed
  <2>12. Linked'
    <3> SUFFICES ASSUME NEW a \in assoc', a.trt # None
                 PROVE  a.var \in trts'[a.trt].names /\ \E c \in Channels : chan'[c] = a.trt
      BY DEF Linked
    <3>1. CASE a \in assoc
      <4>1. a.var \in trts[a.trt].names /\ \E c \in Channels : chan[c] = a.trt
        BY <3>1 DEF Consistent, Linked
      <4>2. a.trt \in DOMAIN trts  BY <1>2, <3>1 DEF Typed, TypeOK
      <4> QED BY <1>1, <2>7, <4>1, <4>2
    <3>2. CASE a.var = v /\ a.trt = t
      BY <1>1, <2>2, <2>7, <3>2
    <3> QED BY <2>8, <3>1, <3>2
  <2>13. \A c \in Channels : Live(c)' = Live(c) /\ (Live(c) => FcbOf(c)' = FcbOf(c))
    <3> SUFFICES ASSUME NEW c \in Channels
                 PROVE Live(c)' = Live(c) /\ (Live(c) => FcbOf(c)' = FcbOf(c))
      OBVIOUS
    <3>1. Live(c)' = Live(c)  BY <1>1 DEF Live
    <3>2. ASSUME Live(c) PROVE FcbOf(c)' = FcbOf(c)
      <4>1. chan[c] \in DOMAIN trts  BY <1>2, <3>2, ChannelBlocks
      <4>2. trts'[chan[c]].fcb = trts[chan[c]].fcb  BY <2>7, <4>1
      <4> QED BY <1>1, <3>2, <4>2 DEF FcbOf, Live
    <3> QED BY <3>1, <3>2
  <2>14. \A f, i : Points(f, i)' = Points(f, i)  BY <1>1, <2>6 DEF Points
  <2>15. \A i : Reached(i) => Reached(i)'  BY <1>1, <2>10 DEF Reached
  <2>16. Reached(j)'  BY <1>1, <2>0, <2>10 DEF Reached
  <2>17. Owned'  BY <2>6, <2>13, <2>14 DEF Consistent, Owned
  <2>18. UsedReached'
    <3> SUFFICES ASSUME NEW c \in Channels, NEW k \in DOMAIN iobs', Live(c)',
                        Points(FcbOf(c), k)', iobs'[k].used
                 PROVE  Reached(k)'
      BY DEF UsedReached
    <3>1. k \in DOMAIN iobs /\ (iobs[k].used \/ j = k)  BY <2>6
    <3>2. CASE j = k  BY <2>16, <3>2
    <3>3. CASE iobs[k].used
      <4>1. Live(c) /\ FcbOf(c)' = FcbOf(c)  BY <2>13
      <4>2. Points(FcbOf(c), k)
        <5>1. fcbs'[FcbOf(c)'].iob = k  BY DEF Points
        <5> QED BY <1>1, <3>1, <4>1, <5>1 DEF Points
      <4> QED BY <2>15, <3>1, <3>3, <4>1, <4>2 DEF Consistent, UsedReached
    <3> QED BY <3>1, <3>2, <3>3
  <2>19. OpenReached'
    <3> SUFFICES ASSUME NEW k \in DOMAIN iobs', iobs'[k].used, iobs'[k].opn
                 PROVE  iobs'[k].sys \/ Reached(k)'
      BY DEF OpenReached
    <3>1. k \in DOMAIN iobs /\ (iobs[k].used \/ j = k)
          /\ iobs'[k].opn = iobs[k].opn /\ iobs'[k].sys = iobs[k].sys
      BY <2>6
    <3>2. CASE j = k  BY <2>16, <3>2
    <3>3. CASE iobs[k].used
      <4>1. iobs[k].sys \/ Reached(k)  BY <3>1, <3>3 DEF Consistent, OpenReached
      <4> QED BY <2>15, <3>1, <4>1
    <3> QED BY <3>1, <3>2, <3>3
  <2>20. FlagsKept'
    <3> SUFFICES ASSUME NEW k \in DOMAIN iobs PROVE Keeps(iobs'[k], iobs'[k].arg)
      BY <2>6 DEF FlagsKept, Keeps
    <3>1. Keeps(iobs[k], iobs[k].arg)  BY DEF Consistent, FlagsKept
    <3>2. iobs'[k].arg = iobs[k].arg /\ iobs'[k].app = iobs[k].app /\ iobs'[k].inp = iobs[k].inp
      BY <2>6
    <3> QED BY <3>1, <3>2, Zenon DEF Keeps
  <2> QED BY <1>4, <2>11, <2>12, <2>17, <2>18, <2>19, <2>20 DEF Consistent
<1> QED BY <1>5, <1>6

(* A closed ioblk keeps all but its being open; only a descriptor of the    *)
(* system's stays open.                                                     *)
Shut(c, b) ==
  /\ c.arg = b.arg /\ c.app = b.app /\ c.inp = b.inp /\ c.used = b.used /\ c.sys = b.sys
  /\ c.opn => b.sys

(* osclose.                                                                 *)
LEMMA ClosedShuts ==
  ASSUME NEW b \in Ioblks
  PROVE  Closed(b) \in Ioblks /\ Shut(Closed(b), b)
<1> DEFINE c == [b EXCEPT !.opn = FALSE]
<1>1. CASE b.sys /\ b.fdn \in 0 .. 2
  <2>1. Closed(b) = b  BY <1>1, Zenon DEF Closed
  <2> QED BY <1>1, <2>1, Zenon DEF Shut
<1>2. CASE ~(b.sys /\ b.fdn \in 0 .. 2)
  <2>1. Closed(b) = c  BY <1>2, Zenon DEF Closed
  <2>2. /\ c \in Ioblks /\ c.arg = b.arg /\ c.app = b.app /\ c.inp = b.inp
        /\ c.used = b.used /\ c.sys = b.sys /\ c.opn = FALSE
    BY DEF Ioblks
  <2> HIDE DEF c
  <2> QED BY <2>1, <2>2, Zenon DEF Shut
<1> QED BY <1>1, <1>2

(* ENDFILE closes the file, and takes the channel and its associations      *)
(* apart unless the close failed.                                           *)
LEMMA EndFileKeeps ==
  ASSUME Consistent, NEW c0 \in Channels, NEW failed \in BOOLEAN, EndFile(c0, failed)
  PROVE  Consistent'
<1>0. PICK g, j, t : g = FcbOf(c0) /\ j = fcbs[FcbOf(c0)].iob /\ t = chan[c0]  OBVIOUS
<1>1. stage = "runs" /\ job = Idle /\ g # None  BY <1>0 DEF EndFile
<1>2. CASE Crash  BY <1>2, CrashKeeps
<1>3. CASE ~Crash
  <2>1. /\ Sound(g) /\ iobs' = [iobs EXCEPT ![j] = Closed(@)]
        /\ \/ UNCHANGED <<chan, rfcb, assoc, trts>>
           \/ /\ chan' = [chan EXCEPT ![c0] = None] /\ rfcb' = Unchained(g)
              /\ assoc' = Detached(trts[t].names) /\ trts' = Unlisted(trts[t].names)
        /\ UNCHANGED <<stage, files, fcbs, job>>
    BY <1>0, <1>3, Zenon DEF EndFile
  <2>2. Typed /\ Linked  BY DEF Consistent
  <2>3. Live(c0) /\ t \in DOMAIN trts /\ t # None /\ g \in DOMAIN fcbs
    BY <1>0, <1>1, <2>2, ChannelBlocks DEF Live
  <2>4. Points(g, j) /\ j \in DOMAIN iobs  BY <1>0, <2>1, <2>2, <2>3, SoundPoints DEF Points
  <2>5. /\ iobs' \in Seq(Ioblks) /\ DOMAIN iobs' = DOMAIN iobs
        /\ \A i \in DOMAIN iobs : i # j => iobs'[i] = iobs[i]
        /\ Shut(iobs'[j], iobs[j])
    <3> DEFINE b == iobs[j]
               c == Closed(b)
    <3>1. iobs \in Seq(Ioblks)  BY <2>2 DEF Typed
    <3>2. iobs' = [iobs EXCEPT ![j] = c]  BY <2>1
    <3>3. b \in Ioblks  BY <2>4, <3>1
    <3> HIDE DEF b
    <3>4. c \in Ioblks /\ Shut(c, b)  BY <3>3, ClosedShuts
    <3> HIDE DEF c
    <3>5. /\ iobs' \in Seq(Ioblks) /\ DOMAIN iobs' = DOMAIN iobs /\ iobs'[j] = c
          /\ \A i \in DOMAIN iobs : i # j => iobs'[i] = iobs[i]
      BY <2>4, <3>1, <3>2, <3>4
    <3> QED BY <3>4, <3>5 DEF b
  <2>6. \A i \in DOMAIN iobs : iobs'[i].used = iobs[i].used
    <3>1. iobs'[j].used = iobs[j].used  BY <2>5 DEF Shut
    <3> QED BY <2>5, <3>1
  <2>7. FlagsKept'
    <3> SUFFICES ASSUME NEW k \in DOMAIN iobs PROVE Keeps(iobs'[k], iobs'[k].arg)
      BY <2>5 DEF FlagsKept, Keeps
    <3>1. Keeps(iobs[k], iobs[k].arg)  BY DEF Consistent, FlagsKept
    <3>2. CASE k = j
      <4>1. iobs'[k].arg = iobs[k].arg /\ iobs'[k].app = iobs[k].app
            /\ iobs'[k].inp = iobs[k].inp
        BY <2>5, <3>2 DEF Shut
      <4> QED BY <3>1, <4>1, Zenon DEF Keeps
    <3>3. CASE k # j  BY <2>5, <3>1, <3>3
    <3> QED BY <3>2, <3>3
  <2>8. \A f, i : Points(f, i)' = Points(f, i)  BY <2>1, <2>5 DEF Points
  <2>9. JobHolds' /\ Quiet' /\ EndClosesAll'
    BY <1>1, <2>1 DEF JobHolds, Quiet, EndClosesAll
  <2>10. ASSUME \A c \in Channels : Live(c)' => Live(c) /\ FcbOf(c)' = FcbOf(c)
         PROVE  Owned'
    BY <2>5, <2>8, <2>10 DEF Consistent, Owned
  <2>11. ASSUME \A k \in DOMAIN iobs : k # j /\ Reached(k) => Reached(k)',
                Reached(j) => Reached(j)' \/ iobs'[j].sys \/ ~iobs'[j].opn
         PROVE  OpenReached'
    <3> SUFFICES ASSUME NEW k \in DOMAIN iobs', iobs'[k].used, iobs'[k].opn
                 PROVE  iobs'[k].sys \/ Reached(k)'
      BY DEF OpenReached
    <3>1. CASE k = j
      <4>1. iobs'[j].opn /\ iobs'[j].sys = iobs[j].sys /\ iobs[j].sys
        BY <2>5, <3>1 DEF Shut
      <4> QED BY <3>1, <4>1, Zenon
    <3>2. CASE k # j
      <4>1. k \in DOMAIN iobs /\ iobs'[k] = iobs[k]  BY <2>5, <3>2
      <4>2. iobs[k].sys \/ Reached(k)  BY <4>1 DEF Consistent, OpenReached
      <4> QED BY <2>11, <3>2, <4>1, <4>2
    <3> QED BY <3>1, <3>2
  <2>12. CASE UNCHANGED <<chan, rfcb, assoc, trts>>
    <3>1. TypeOK'  BY <2>1, <2>2, <2>5, <2>12 DEF Typed, TypeOK
    <3>2. Typed'  BY <2>1, <2>2, <2>5, <2>12, <3>1 DEF Typed
    <3>3. Linked'  BY <2>2, <2>12 DEF Linked
    <3>4. \A c : Live(c)' = Live(c) /\ FcbOf(c)' = FcbOf(c)  BY <2>12 DEF Live, FcbOf
    <3>5. \A i : Reached(i)' = Reached(i)  BY <2>1, <2>12 DEF Reached
    <3>6. Owned'  BY <2>10, <3>4
    <3>7. UsedReached'
      BY <2>5, <2>6, <2>8, <3>4, <3>5 DEF Consistent, UsedReached
    <3>8. OpenReached'  BY <2>11, <3>5
    <3> QED BY <2>7, <2>9, <3>2, <3>3, <3>6, <3>7, <3>8 DEF Consistent
  <2>13. CASE /\ chan' = [chan EXCEPT ![c0] = None] /\ rfcb' = Unchained(g)
              /\ assoc' = Detached(trts[t].names) /\ trts' = Unlisted(trts[t].names)
    <3>1. chan \in [Channels -> Nat]  BY <2>2 DEF Typed
    <3>2. chan' \in [Channels -> Nat]
          /\ \A c \in Channels : chan'[c] = IF c = c0 THEN None ELSE chan[c]
      BY <2>13, <3>1 DEF None
    <3>3. DOMAIN fcbs' = DOMAIN fcbs  BY <2>1
    <3>4. PICK names : names = trts[t].names  OBVIOUS
    <3>5. assoc' = Detached(names) /\ trts' = Unlisted(names)  BY <2>13, <3>4
    <3>6. /\ \A s \in DOMAIN trts' :
               trts'[s].fcb \in DOMAIN fcbs' /\ trts'[s].names \subseteq Variables
          /\ DOMAIN trts' = DOMAIN trts
          /\ trts' \in Seq([fcb : Nat, names : SUBSET Variables])
          /\ \A a \in assoc' : a.var \in Variables /\ a.trt \in {None} \cup DOMAIN trts'
          /\ assoc' \subseteq [var : Variables, out : BOOLEAN, trt : Nat]
      BY <2>2, <3>3, <3>5, DetachedTypes
    <3>7. rfcb' = rfcb \ {g}  BY <2>13 DEF Unchained
    <3>8. TypeOK'
      <4>1. \A c \in Channels : chan'[c] \in {None} \cup DOMAIN trts'
        BY <2>2, <3>2, <3>6 DEF Typed, TypeOK
      <4> QED BY <2>1, <2>2, <2>5, <3>6, <3>7, <4>1 DEF Typed, TypeOK
    <3>9. Typed'  BY <2>1, <2>2, <2>5, <3>2, <3>6, <3>8 DEF Typed
    <3>10. Linked'
      <4>1. ASSUME NEW a \in assoc, a.var \notin names, a.trt # None
            PROVE  \E c \in Channels : chan'[c] = a.trt
        <5>1. a.var \in trts[a.trt].names  BY <2>2, <4>1 DEF Linked
        <5>2. PICK c \in Channels : chan[c] = a.trt  BY <2>2, <4>1 DEF Linked
        <5>3. a.trt # t  BY <3>4, <4>1, <5>1
        <5>4. c # c0  BY <1>0, <5>2, <5>3
        <5> QED BY <3>2, <5>2, <5>4
      <4> QED BY <2>2, <3>5, <4>1, DetachedLinks
    <3>11. ASSUME NEW c \in Channels, Live(c)'
           PROVE  c # c0 /\ Live(c) /\ FcbOf(c)' = FcbOf(c)
      <4>1. c # c0 /\ chan'[c] = chan[c] /\ chan[c] # None  BY <3>2, <3>11 DEF Live
      <4>2. Live(c)  BY <4>1 DEF Live
      <4>3. chan[c] \in DOMAIN trts  BY <2>2, <4>2, ChannelBlocks
      <4>4. trts'[chan[c]].fcb = trts[chan[c]].fcb  BY <2>2, <3>5, <4>3, UnlistedBlocks
      <4> QED BY <4>1, <4>2, <4>4 DEF FcbOf
    <3>12. Owned'  BY <2>10, <3>11
    <3>13. ASSUME NEW k \in DOMAIN iobs, k # j, Reached(k) PROVE Reached(k)'
      <4>1. PICK f \in rfcb : fcbs[f].iob = k  BY <3>13 DEF Reached
      <4>2. f # g  BY <1>0, <3>13, <4>1
      <4> QED BY <2>1, <3>7, <4>1, <4>2 DEF Reached
    <3>14. UsedReached'
      <4> SUFFICES ASSUME NEW c \in Channels, NEW k \in DOMAIN iobs', Live(c)',
                          Points(FcbOf(c), k)', iobs'[k].used
                   PROVE  Reached(k)'
        BY DEF UsedReached
      <4>1. c # c0 /\ Live(c) /\ FcbOf(c)' = FcbOf(c)  BY <3>11
      <4>2. k \in DOMAIN iobs /\ iobs[k].used  BY <2>5, <2>6
      <4>3. Points(FcbOf(c), k)
        <5>1. fcbs'[FcbOf(c)'].iob = k  BY DEF Points
        <5> QED BY <2>1, <4>1, <4>2, <5>1 DEF Points
      <4>4. Reached(k)  BY <4>1, <4>2, <4>3 DEF Consistent, UsedReached
      <4>5. k # j
        BY <1>0, <2>3, <2>4, <4>1, <4>2, <4>3 DEF Consistent, Owned
      <4> QED BY <3>13, <4>2, <4>4, <4>5
    <3>15. OpenReached'
      <4>1. iobs'[j].sys \/ ~iobs'[j].opn  BY <2>5, Zenon DEF Shut
      <4> QED BY <2>11, <3>13, <4>1
    <3> QED BY <2>7, <2>9, <3>9, <3>10, <3>12, <3>14, <3>15 DEF Consistent
  <2> QED BY <2>1, <2>12, <2>13
<1> QED BY <1>2, <1>3

(* zysej closes what r_fcb reaches, and so every file a variable was        *)
(* associated with.                                                         *)
LEMMA CloseAllKeeps ==
  ASSUME Consistent, CloseAll
  PROVE  Consistent'
<1>1. CASE Crash  BY <1>1, CrashKeeps
<1>2. CASE ~Crash
  <2>1. /\ stage = "runs" /\ job = Idle /\ stage' = "ended"
        /\ iobs' = [i \in DOMAIN iobs |->
                      IF \E f \in rfcb : fcbs[f].iob = i THEN Closed(iobs[i]) ELSE iobs[i]]
        /\ UNCHANGED <<files, fcbs, trts, chan, assoc, rfcb, job>>
    BY <1>2, Zenon DEF CloseAll
  <2>2. Typed  BY DEF Consistent
  <2>3. iobs \in Seq(Ioblks) /\ DOMAIN iobs = 1 .. Len(iobs) /\ Len(iobs) \in Nat
    BY <2>2 DEF Typed
  <2>4. DOMAIN iobs' = DOMAIN iobs  BY <2>1
  <2>5. ASSUME NEW i \in DOMAIN iobs
        PROVE  /\ iobs'[i] \in Ioblks
               /\ (Reached(i) /\ Shut(iobs'[i], iobs[i]))
                  \/ (~Reached(i) /\ iobs'[i] = iobs[i])
    <3>1. iobs[i] \in Ioblks  BY <2>3
    <3>2. CASE Reached(i)
      <4>1. iobs'[i] = Closed(iobs[i])  BY <2>1, <3>2 DEF Reached
      <4> QED BY <3>1, <3>2, <4>1, ClosedShuts
    <3>3. CASE ~Reached(i)
      <4>1. iobs'[i] = iobs[i]  BY <2>1, <3>3 DEF Reached
      <4> QED BY <3>1, <3>3, <4>1
    <3> QED BY <3>2, <3>3
  <2>6. iobs' \in Seq(Ioblks)
    <3>1. PICK n \in Nat : n = Len(iobs)  BY <2>3
    <3>2. iobs' \in [1 .. n -> Ioblks]
      <4>1. DOMAIN iobs' = 1 .. n  BY <2>3, <2>4, <3>1
      <4>2. iobs' = [i \in 1 .. n |-> iobs'[i]]  BY <2>1, <4>1
      <4>3. \A i \in 1 .. n : iobs'[i] \in Ioblks  BY <2>3, <2>5, <3>1
      <4> QED BY <4>2, <4>3
    <3> QED BY <3>2, SeqDef
  <2>7. TypeOK'  BY <2>1, <2>2, <2>4 DEF Typed, TypeOK
  <2>8. Typed'  BY <2>1, <2>2, <2>6, <2>7 DEF Typed
  <2>9. Linked'  BY <2>1 DEF Consistent, Linked
  <2>10. \A c : Live(c)' = Live(c) /\ FcbOf(c)' = FcbOf(c)  BY <2>1 DEF Live, FcbOf
  <2>11. \A f, i : Points(f, i)' = Points(f, i)  BY <2>1, <2>4 DEF Points
  <2>12. \A i : Reached(i)' = Reached(i)  BY <2>1 DEF Reached
  <2>13. \A i \in DOMAIN iobs : iobs'[i].used = iobs[i].used  BY <2>5 DEF Shut
  <2>14. Owned'  BY <2>4, <2>10, <2>11 DEF Consistent, Owned
  <2>15. UsedReached'
    BY <2>4, <2>10, <2>11, <2>12, <2>13 DEF Consistent, UsedReached
  <2>16. ASSUME NEW i \in DOMAIN iobs, iobs'[i].used, iobs'[i].opn PROVE iobs'[i].sys
    <3>1. CASE Reached(i)
      <4>1. Shut(iobs'[i], iobs[i])  BY <2>5, <3>1
      <4>2. iobs[i].sys /\ iobs'[i].sys = iobs[i].sys  BY <2>16, <4>1 DEF Shut
      <4> QED BY <4>2
    <3>2. CASE ~Reached(i)
      <4>1. iobs'[i] = iobs[i]  BY <2>5, <3>2
      <4>2. iobs[i].sys  BY <2>16, <3>2, <4>1 DEF Consistent, OpenReached
      <4> QED BY <4>1, <4>2
    <3> QED BY <3>1, <3>2
  <2>17. OpenReached' /\ EndClosesAll'  BY <2>4, <2>16 DEF OpenReached, EndClosesAll
  <2>18. FlagsKept'
    <3> SUFFICES ASSUME NEW k \in DOMAIN iobs PROVE Keeps(iobs'[k], iobs'[k].arg)
      BY <2>4 DEF FlagsKept, Keeps
    <3>1. Keeps(iobs[k], iobs[k].arg)  BY DEF Consistent, FlagsKept
    <3>2. iobs'[k].arg = iobs[k].arg /\ iobs'[k].app = iobs[k].app /\ iobs'[k].inp = iobs[k].inp
      BY <2>5 DEF Shut
    <3> QED BY <3>1, <3>2, Zenon DEF Keeps
  <2>19. JobHolds' /\ Quiet'  BY <2>1 DEF JobHolds, Quiet
  <2> QED BY <2>8, <2>9, <2>14, <2>15, <2>17, <2>18, <2>19 DEF Consistent
<1> QED BY <1>1, <1>2

-----------------------------------------------------------------------------
(* The theorems.                                                            *)

(* At the start nothing is associated.                                      *)
LEMMA InitConsistent == Init => Consistent
<1> SUFFICES ASSUME Init PROVE Consistent  OBVIOUS
<1>1. /\ stage = "runs" /\ files \in [Files -> {"absent", "text"}]
      /\ iobs = <<>> /\ fcbs = <<>> /\ trts = <<>> /\ rfcb = {}
      /\ chan = [c \in Channels |-> None] /\ assoc = {} /\ job = Idle
  BY DEF Init
<1>2. DOMAIN iobs = {} /\ DOMAIN fcbs = {} /\ DOMAIN trts = {}  BY <1>1
<1>3. \A c \in Channels : chan[c] = None  BY <1>1
<1>4. TypeOK  BY <1>1, <1>2, <1>3 DEF TypeOK
<1>5. Typed  BY <1>1, <1>4 DEF Typed, None
<1> QED
  BY <1>1, <1>2, <1>3, <1>5
  DEF Consistent, Quiet, Linked, Owned, UsedReached, OpenReached, FlagsKept, JobHolds,
      EndClosesAll, Live

(* Every step keeps the invariant.                                          *)
LEMMA NextConsistent == Consistent /\ [Next]_vars => Consistent'
<1> SUFFICES ASSUME Consistent, [Next]_vars PROVE Consistent'  OBVIOUS
<1>1. ASSUME NEW v \in Variables \cup {Unsuitable}, NEW c \in Channels,
             NEW out \in BOOLEAN, NEW arg \in FileArgs, Associate(v, c, out, arg)
      PROVE  Consistent'
  BY <1>1, AssociateKeeps
<1>2. ASSUME NEW v \in Variables, NEW out \in BOOLEAN, AssociateStandard(v, out)
      PROVE  Consistent'
  BY <1>2, StandardKeeps
<1>3. ASSUME NEW moved, AllocFcb(moved) PROVE Consistent'  BY <1>3, AllocFcbKeeps
<1>4. CASE Illegally  BY <1>4, IllegallyKeeps
<1>5. CASE Sysio  BY <1>5, SysioKeeps
<1>6. CASE Finish  BY <1>6, FinishKeeps
<1>7. ASSUME NEW v \in Variables, Detach(v) PROVE Consistent'  BY <1>7, DetachKeeps
<1>8. ASSUME NEW c \in Channels, NEW failed \in BOOLEAN, EndFile(c, failed) PROVE Consistent'
  BY <1>8, EndFileKeeps
<1>9. CASE CloseAll  BY <1>9, CloseAllKeeps
<1>10. CASE UNCHANGED vars
  <2>1. UNCHANGED <<stage, files, iobs, fcbs, trts, chan, assoc, rfcb, job>>
    BY <1>10 DEF vars
  <2>2. stage = "ended" \/ stage \in {"runs", "crashed"}
    BY DEF Consistent, Typed, TypeOK
  <2>3. Typed'  BY <2>1 DEF Consistent, Typed, TypeOK
  <2>4. Quiet' /\ Linked' /\ EndClosesAll' /\ FlagsKept'
    BY <2>1 DEF Consistent, Quiet, Linked, EndClosesAll, FlagsKept, Keeps
  <2>5. \A c : Live(c)' = Live(c) /\ FcbOf(c)' = FcbOf(c)  BY <2>1 DEF Live, FcbOf
  <2>6. \A f, i : Points(f, i)' = Points(f, i)  BY <2>1 DEF Points
  <2>7. \A i : Reached(i)' = Reached(i)  BY <2>1 DEF Reached
  <2>8. Owned' /\ UsedReached' /\ OpenReached'
    BY <2>1, <2>5, <2>6, <2>7 DEF Consistent, Owned, UsedReached, OpenReached
  <2>9. JobHolds'
    <3>1. JobAllocates' = JobAllocates  BY <2>1 DEF JobAllocates, Live, FcbOf, Points
    <3>2. JobOpens' = JobOpens  BY <2>1 DEF JobOpens, Live, FcbOf, Points, Reached
    <3>3. Keeps(job.tio, job.arg)' = Keeps(job.tio, job.arg)  BY <2>1 DEF Keeps
    <3>4. Live(job.chan)' = Live(job.chan) /\ FcbOf(job.chan)' = FcbOf(job.chan)
      BY <2>1 DEF Live, FcbOf
    <3> QED BY <2>1, <3>1, <3>2, <3>3, <3>4 DEF Consistent, JobHolds
  <2> QED BY <2>3, <2>4, <2>8, <2>9 DEF Consistent
<1> QED
  BY <1>1, <1>2, <1>3, <1>4, <1>5, <1>6, <1>7, <1>8, <1>9, <1>10 DEF Next, Ioput

(* The blocks, chains and channels are always consistent: each association  *)
(* is on the chain of an open channel, no two channels share a block, and   *)
(* zysej reaches every ioblk a variable was given that is or can be opened. *)
THEOREM AlwaysConsistent == Spec => []Consistent
<1> QED BY InitConsistent, NextConsistent, PTL DEF Spec

(* The variables always have their types, whatever the file arguments.      *)
THEOREM TypeCorrect == Spec => []TypeOK
<1>1. Consistent => TypeOK  BY DEF Consistent, Typed
<1> QED BY <1>1, AlwaysConsistent, PTL

(* No variable reads or writes through a channel that was taken apart by    *)
(* ENDFILE or by an association that failed.                                *)
THEOREM NoChannelDangles == Spec => []NoneDangles
<1>1. Consistent => NoneDangles  BY DEF Consistent, Linked, NoneDangles
<1> QED BY <1>1, AlwaysConsistent, PTL

(* When the run ends no file that a variable was associated with is left    *)
(* open, but for the descriptors of the system.                             *)
THEOREM EndReachesAll == Spec => []EndClosesAll
<1>1. Consistent => EndClosesAll  BY DEF Consistent
<1> QED BY <1>1, AlwaysConsistent, PTL

(* zysio opens one ioblk, and what a file loses was given up by that one.   *)
LEMMA SysioGivesUp ==
  ASSUME Consistent, Sysio, files' # files
  PROVE  \E i \in DOMAIN iobs' :
           \A n \in Files : files[n] = "text" /\ files'[n] # "text" => GivesUp(n, i)
<1> DEFINE j == Filled[job.fcb].iob
           b == IF j > Len(iobs) THEN NewIob(job) ELSE iobs[j]
<1>1. /\ job.phase = "open"
      /\ \/ j \in {Null, Wild} /\ (Crash \/ OpenWild)
         \/ /\ j \notin {Null, Wild}
            /\ \E o \in IF b.opn THEN {[ok |-> TRUE, iob |-> b, files |-> files]}
                        ELSE OsOpen(b) : OpenSound(j, b, o)
  BY Zenon DEF Sysio
<1>2. ~(Crash \/ OpenWild)  BY DEF Crash, OpenWild
<1>3. PICK i, b1 : i = j /\ b1 = b  OBVIOUS
<1>4. PICK o \in IF b1.opn THEN {[ok |-> TRUE, iob |-> b1, files |-> files]}
                 ELSE OsOpen(b1) : OpenSound(i, b1, o)
  BY <1>1, <1>2, <1>3
<1>5. i \notin {Null, Wild} /\ i = Filled[job.fcb].iob
      /\ b1 = IF i > Len(iobs) THEN NewIob(job) ELSE iobs[i]
  BY <1>1, <1>2, <1>3
<1>6. job.phase = "open"  BY <1>1
<1> HIDE DEF j, b
<1>7. Opens(i)  BY <1>4, <1>5, <1>6, OpenSoundBlocks, ZenonT(60)
<1> QED BY <1>7 DEF Opens

(* No step but the opening of a file for output, with neither A nor U among *)
(* its options, loses the text of a file.                                   *)
LEMMA StepKeepsText ==
  ASSUME Consistent, Next, NEW n \in Files, files[n] = "text", files'[n] # "text"
  PROVE  \E i \in DOMAIN iobs' : GivesUp(n, i)
<1>1. files' # files  OBVIOUS
<1>2. Sysio
  BY <1>1, ZenonT(40)
     DEF Next, Ioput, Associate, AssociateStandard, AllocFcb, Illegally, Finish, Detach,
         EndFile, CloseAll, Crash
<1> QED BY <1>1, <1>2, SysioGivesUp

(* The text of a file is lost only by an association for output whose file  *)
(* argument has neither A nor U, for any file arguments and aliases.        *)
THEOREM TextIsKept == Spec => TextKept
<1> DEFINE Kept == \A n \in Files : files[n] = "text" /\ files'[n] # "text" =>
                     \E i \in DOMAIN iobs' :
                       /\ iobs'[i].out /\ iobs'[i].opn /\ iobs'[i].arg.name = n
                       /\ (i \in DOMAIN iobs => ~iobs[i].opn)
                       /\ {"A", "U"} \cap Range(iobs'[i].arg.opts) = {}
<1>1. Consistent /\ [Next]_vars => [Kept]_vars
  <2> SUFFICES ASSUME Consistent, Next, NEW n \in Files, files[n] = "text", files'[n] # "text"
               PROVE  \E i \in DOMAIN iobs' :
                        /\ iobs'[i].out /\ iobs'[i].opn /\ iobs'[i].arg.name = n
                        /\ (i \in DOMAIN iobs => ~iobs[i].opn)
                        /\ {"A", "U"} \cap Range(iobs'[i].arg.opts) = {}
    OBVIOUS
  <2>1. \E i \in DOMAIN iobs' : GivesUp(n, i)  BY StepKeepsText
  <2> QED BY <2>1, Zenon DEF GivesUp
<1>2. Spec => [][Kept]_vars
  <2> HIDE DEF Kept
  <2> QED BY <1>1, AlwaysConsistent, PTL DEF Spec
<1> QED BY <1>2 DEF TextKept

=============================================================================
