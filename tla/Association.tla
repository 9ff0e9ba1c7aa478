---------------------------- MODULE Association ----------------------------
(***************************************************************************)
(* INPUT and OUTPUT associate a variable with a file through a channel.    *)
(* The runtime (ioput) asks zysfc which blocks it needs, allocates them,   *)
(* and calls zysio to fill them in and open the file; ENDFILE and DETACH   *)
(* undo the association, and zysej closes what is still open.              *)
(*                                                                         *)
(* A channel is a variable with a trap block (trtrf) that points to an     *)
(* fcblk; an fcblk points to an ioblk, which several fcblks may share.     *)
(* File names, records and buffers are left out: BufferedFile has what     *)
(* happens once a file is open.  Descriptors are never terminals.          *)
(***************************************************************************)
EXTENDS Integers, Sequences, FiniteSets, Functions, SequencesExt

CONSTANTS
  Files,        (* Names of files.                                          *)
  Channels,     (* Channels, the values of filearg1.                        *)
  Variables,    (* The names a program associates.                          *)
  Unsuitable,   (* A first argument that names no variable.                 *)
  FileArgs,     (* The filearg2 values: [name, opts].                       *)
  Aliases,      (* [some Channels -> FileArgs], -n=file arguments of the    *)
                (* command line and the environment.                        *)
  Moves,        (* Whether a collection moves the ioblks.                   *)
  MaxFcbs       (* Bound on the fcblks a behaviour allocates.               *)

NoName  == ""           (* No file name, only options or nothing at all.    *)
Dash    == "-"
Pipe    == "!"          (* A command.                                       *)
Illegal == "!!"         (* A name lenfnm refuses.                           *)

FileArg2 == [name : Files \cup {NoName, Dash, Pipe, Illegal}, opts : Seq(STRING)]

ASSUME AssociationAssumption ==
  /\ FileArgs \subseteq FileArg2
  /\ DOMAIN Aliases \subseteq Channels
  /\ \A c \in DOMAIN Aliases : Aliases[c] \in FileArg2
  /\ MaxFcbs \in Nat \ {0}

VARIABLES
  stage,    (* runs, ended (after zysej) or crashed (a pointer to nothing was used). *)
  files,    (* [Files -> {absent, text, empty}].                                     *)
  iobs,     (* The ioblks, in the order of their allocation.                         *)
  fcbs,     (* The fcblks; iob is an index of iobs, Null or Wild.                    *)
  trts,     (* The trtrf blocks: fcb, and names, the chain of associated variables.  *)
  chan,     (* [Channels -> trtrf block or None], the trap chain of filearg1.        *)
  assoc,    (* The trap blocks of variables: [var, out, trt].                        *)
  rfcb,     (* r_fcb, the chain of fcblks for zysej, as the set of its members.      *)
  job       (* The association under way.                                            *)

vars == <<stage, files, iobs, fcbs, trts, chan, assoc, rfcb, job>>

None == 0
Null == 0       (* The pointer of a cleared fcblk.                          *)
Wild == -1      (* A pointer to where a block was before it moved.          *)
Idle == [phase |-> "idle"]

-----------------------------------------------------------------------------
(* sioarg: the options of filearg2, from left to right.                     *)

Defaults(out) ==
  [ok |-> TRUE, typ |-> FALSE, inp |-> ~out, out |-> out, app |-> FALSE,
   opn |-> FALSE, sys |-> FALSE, fdn |-> 0, ill |-> FALSE]

(* -S reads past its letters and refuses the argument when nothing follows. *)
Sharing(t, last) == IF last THEN [t EXCEPT !.ok = FALSE] ELSE t

Option(t, o, last) ==
  CASE o = "A" -> [t EXCEPT !.app = TRUE]
    [] o = "S" -> Sharing(t, last)
    [] o = "U" -> [t EXCEPT !.inp = TRUE, !.out = TRUE]
    [] o \in {"B", "C", "I", "L", "Q", "R", "W", "X", "Y"} -> t
    [] o \in {"F0", "F3"} ->
         [t EXCEPT !.opn = TRUE, !.sys = TRUE, !.fdn = IF o = "F0" THEN 0 ELSE 3]
    [] OTHER -> [t EXCEPT !.ok = FALSE]

Scan(out, opts) ==
  LET scan[n \in 0 .. Len(opts)] ==
        IF n = 0 THEN Defaults(out)
        ELSE LET t == scan[n - 1]
             IN  IF t.ok THEN [Option(t, opts[n], n = Len(opts)) EXCEPT !.typ = TRUE] ELSE t
  IN  scan

SioArg(out, opts) == Scan(out, opts)[Len(opts)]

-----------------------------------------------------------------------------
(* zysfc: which blocks the association needs.  save is the ioblk a new      *)
(* fcblk will share, kept in a C static.                                    *)

Sound(f) == f # None /\ fcbs[f].iob \notin {Null, Wild}
Iob(f)   == iobs[fcbs[f].iob]

Refused(code) == [exit |-> code]
Wanted(want, t, arg, save) ==
  [exit |-> 0, want |-> want, tio |-> t, arg |-> arg, save |-> save]

(* The access of the new association must have something in common with the *)
(* ioblk's; IO_ILL leaves the refusal to zysio.                             *)
Access(t, f) ==
  IF f = None THEN t
  ELSE [t EXCEPT !.ill = ~((t.inp /\ Iob(f).inp) \/ (t.out /\ Iob(f).out))]

Named(t, f, arg) ==
  IF arg.name # NoName /\ t.opn THEN Refused(4)
  ELSE IF f # None /\ Iob(f).opn THEN Refused(7)
  ELSE Wanted("all", [t EXCEPT !.typ = TRUE], arg, Null)

Unnamed(t, f, arg) ==
  IF t.typ THEN Wanted("fcb", t, arg, fcbs[f].iob)
  ELSE Wanted("none", t, arg, Null)

Checked(f, out, arg) ==
  LET scanned == SioArg(out, arg.opts)
      t       == Access(scanned, f)
  IN  IF arg.name = Illegal \/ ~scanned.ok THEN Refused(4)
      ELSE IF arg.name # NoName \/ t.opn THEN Named(t, f, arg)
      ELSE IF f # None THEN Unnamed(t, f, arg)
      ELSE Refused(4)

(* Neither a name nor an fcblk: filearg1 may be an alias, tried once.       *)
UsesAlias(c, f, out, arg) ==
  /\ f = None /\ arg.name = NoName
  /\ SioArg(out, arg.opts).ok /\ ~SioArg(out, arg.opts).opn
  /\ c \in DOMAIN Aliases

Sysfc(c, f, out, arg) ==
  Checked(f, out, IF UsesAlias(c, f, out, arg) THEN Aliases[c] ELSE arg)

-----------------------------------------------------------------------------
(* zysio and osopen: the blocks are filled in and the file is opened.       *)

(* Mutant: the flags of the new ioblk forget option A. *)
NewIobNoAppend(j) ==
  LET t == j.tio
  IN  [arg |-> j.arg, inp |-> t.inp, out |-> t.out, app |-> FALSE, opn |-> t.opn,
       sys |-> t.sys, fdn |-> t.fdn, used |-> FALSE]

(* An fcblk from a request for three blocks is carved into them.            *)
NewIob(j) ==
  LET t == j.tio
  IN  [arg |-> j.arg, inp |-> t.inp, out |-> t.out, app |-> t.app, opn |-> t.opn,
       sys |-> t.sys, fdn |-> t.fdn, used |-> FALSE]

Opened(b, fd, sys) ==
  [b EXCEPT !.opn = TRUE, !.fdn = fd, !.sys = b.sys \/ sys]

NotOpened(b) == [ok |-> FALSE, iob |-> b, files |-> files]

(* An input file must exist; an output file is created, and emptied unless  *)
(* it is opened for update or append.  The system may refuse either.        *)
OpenFile(b, name) ==
  {NotOpened(b)} \cup
  IF b.out
  THEN {[ok |-> TRUE, iob |-> Opened(b, 4, FALSE),
         files |-> IF (b.inp \/ b.app) /\ files[name] # "absent" THEN files
                   ELSE [files EXCEPT ![name] = "empty"]]}
  ELSE {[ok |-> TRUE, iob |-> Opened(b, 4, FALSE), files |-> files] : x \in
          {n \in {name} : files[n] # "absent"}}

OsOpen(b) ==
  LET name == b.arg.name
  IN  IF name \in {Pipe, NoName} THEN {NotOpened(b)}
      ELSE IF name = Dash
      THEN {[ok |-> TRUE, iob |-> Opened(b, IF b.out THEN 2 ELSE 0, TRUE), files |-> files]}
      ELSE OpenFile(b, name)

-----------------------------------------------------------------------------
(* ioput.                                                                   *)

FcbOf(c) == IF chan[c] = None THEN None ELSE trts[chan[c]].fcb

Crash ==
  /\ stage' = "crashed" /\ job' = Idle
  /\ UNCHANGED <<files, iobs, fcbs, trts, chan, assoc, rfcb>>

Associate(v, c, out, arg) ==
  /\ stage = "runs" /\ job = Idle /\ Len(fcbs) < MaxFcbs
  /\ LET f   == FcbOf(c)
         ans == Sysfc(c, f, out, arg)
     IN  IF f # None /\ ~Sound(f) THEN Crash
         ELSE /\ job' = IF ans.exit # 0 THEN Idle
                        ELSE [phase |-> IF ans.want = "none" THEN "open" ELSE "alloc",
                              var |-> v, chan |-> c, out |-> out, want |-> ans.want,
                              tio |-> ans.tio, arg |-> ans.arg,
                              save |-> ans.save, fcb |-> f, trt |-> chan[c], fresh |-> FALSE]
              /\ UNCHANGED <<stage, files, iobs, fcbs, trts, chan, assoc, rfcb>>

(* The request may collect, which moves the ioblk but not the static that   *)
(* points to it.  The channel's trap block points to the new fcblk before   *)
(* zysio is called.                                                         *)
AllocFcb(moved) ==
  /\ job.phase = "alloc"
  /\ LET f == Len(fcbs) + 1
         t == IF job.trt = None THEN Len(trts) + 1 ELSE job.trt
     IN  /\ fcbs' = Append(fcbs, [iob |-> Null])
         /\ trts' = IF job.trt = None THEN Append(trts, [fcb |-> f, names |-> {}])
                    ELSE [trts EXCEPT ![t].fcb = f]
         /\ chan' = [chan EXCEPT ![job.chan] = t]
         /\ job'  = [job EXCEPT !.phase = "open", !.fcb = f, !.trt = t,
                                !.fresh = (job.trt = None),
                                !.save = IF job.want = "fcb" /\ moved THEN Wild ELSE @]
  /\ UNCHANGED <<stage, files, iobs, assoc, rfcb>>

(* A failure releases the trap block only if this call made it.             *)
Unspliced == IF job.fresh THEN [chan EXCEPT ![job.chan] = None] ELSE chan

Fail == job' = Idle /\ chan' = Unspliced

Illegally ==
  /\ job.phase = "open" /\ job.tio.ill
  /\ Fail
  /\ UNCHANGED <<stage, files, iobs, fcbs, trts, assoc, rfcb>>

Filled ==
  CASE job.want = "all"  -> [fcbs EXCEPT ![job.fcb] = [iob |-> Len(iobs) + 1]]
    [] job.want = "fcb"  -> [fcbs EXCEPT ![job.fcb] = [iob |-> job.save]]
    [] job.want = "none" -> fcbs

(* What is read through a wild pointer may look like an open ioblk.         *)
OpenWild ==
  /\ fcbs' = Filled
  /\ job' = [job EXCEPT !.phase = "finish"]
  /\ UNCHANGED <<stage, files, iobs, trts, chan, assoc, rfcb>>

OpenSound(i, b, o) ==
  /\ fcbs'  = Filled
  /\ iobs'  = IF i > Len(iobs) THEN Append(iobs, o.iob) ELSE [iobs EXCEPT ![i] = o.iob]
  /\ files' = o.files
  /\ IF o.ok THEN job' = [job EXCEPT !.phase = "finish"] /\ UNCHANGED chan ELSE Fail
  /\ UNCHANGED <<stage, trts, assoc, rfcb>>

Sysio ==
  /\ job.phase = "open" /\ ~job.tio.ill
  /\ LET i == Filled[job.fcb].iob
         b == IF i > Len(iobs) THEN NewIob(job) ELSE iobs[i]
     IN  \/ i \in {Null, Wild} /\ (Crash \/ OpenWild)
         \/ i \notin {Null, Wild} /\
            \E o \in IF b.opn THEN {[ok |-> TRUE, iob |-> b, files |-> files]} ELSE OsOpen(b) :
              OpenSound(i, b, o)

(* The variable's trap block replaces an earlier one of the same type, the  *)
(* variable joins the channel's chain, and the fcblk joins r_fcb.           *)
Trapped(v, out, t) ==
  {a \in assoc : ~(a.var = v /\ a.out = out)} \cup {[var |-> v, out |-> out, trt |-> t]}

(* Mutant: only the fcblk that came with a new channel joins the chain. *)
ChainedFirst(f) == IF job.want = "all" /\ rfcb = {} THEN {f} ELSE rfcb

Chained(f) == rfcb \cup {f}

(* Mutant: only the first variable of a channel is put on its chain. *)
ListedFirst(t, v) == [trts EXCEPT ![t].names = IF @ = {} THEN {v} ELSE @]

Listed(t, v) == [trts EXCEPT ![t].names = @ \cup {v}]

Finish ==
  /\ job.phase = "finish"
  /\ job' = Idle
  /\ IF job.var = Unsuitable THEN UNCHANGED <<iobs, trts, assoc, rfcb>>
     ELSE /\ assoc' = Trapped(job.var, job.out, job.trt)
          /\ trts'  = Listed(job.trt, job.var)
          /\ rfcb'  = Chained(job.fcb)
          /\ iobs'  = IF Sound(job.fcb) THEN [iobs EXCEPT ![fcbs[job.fcb].iob].used = TRUE]
                      ELSE iobs
  /\ UNCHANGED <<stage, files, fcbs, chan>>

(* Both file arguments null: the variable gets the standard file.           *)
AssociateStandard(v, out) ==
  /\ stage = "runs" /\ job = Idle
  /\ v # Unsuitable
  /\ assoc' = Trapped(v, out, None)
  /\ UNCHANGED <<stage, files, iobs, fcbs, trts, chan, rfcb, job>>

-----------------------------------------------------------------------------
(* DETACH, ENDFILE and the end of the run.                                  *)

(* dtach deletes the input and output trap blocks of a name, and takes the  *)
(* name off the chain of each.                                              *)
Detached(names) == {a \in assoc : a.var \notin names}
Unlisted(names) ==
  [t \in DOMAIN trts |->
     [trts[t] EXCEPT !.names = @ \ {v \in names : \E a \in assoc : a.var = v /\ a.trt = t}]]

Detach(v) ==
  /\ stage = "runs" /\ job = Idle
  /\ v # Unsuitable
  /\ assoc' = Detached({v})
  /\ trts'  = Unlisted({v})
  /\ UNCHANGED <<stage, files, iobs, fcbs, chan, rfcb, job>>

(* osclose leaves the descriptors of the shell open. *)
Closed(b) ==
  IF b.sys /\ b.fdn \in 0 .. 2 THEN b ELSE [b EXCEPT !.opn = FALSE]

Unchained(f) == rfcb \ {f}

(* When osclose reports an error s_enf stops, though the file is closed.    *)
EndFile(c, failed) ==
  /\ stage = "runs" /\ job = Idle
  /\ LET f == FcbOf(c)
     IN  /\ f # None
         /\ \/ ~Sound(f) /\ Crash
            \/ /\ Sound(f) /\ Iob(f).opn
               /\ iobs' = [iobs EXCEPT ![fcbs[f].iob] = Closed(@)]
               /\ IF failed THEN UNCHANGED <<chan, rfcb, assoc, trts>>
                  ELSE /\ chan'  = [chan EXCEPT ![c] = None]
                       /\ rfcb'  = Unchained(f)
                       /\ assoc' = Detached(trts[chan[c]].names)
                       /\ trts'  = Unlisted(trts[chan[c]].names)
               /\ UNCHANGED <<stage, files, fcbs, job>>

CloseAll ==
  /\ stage = "runs" /\ job = Idle
  /\ \/ (\E f \in rfcb : ~Sound(f)) /\ Crash
     \/ /\ \A f \in rfcb : Sound(f)
        /\ stage' = "ended"
        /\ iobs' = [i \in DOMAIN iobs |->
                      IF \E f \in rfcb : fcbs[f].iob = i THEN Closed(iobs[i]) ELSE iobs[i]]
        /\ UNCHANGED <<files, fcbs, trts, chan, assoc, rfcb, job>>

-----------------------------------------------------------------------------
Init ==
  /\ stage = "runs"
  /\ files \in [Files -> {"absent", "text"}]
  /\ iobs = <<>> /\ fcbs = <<>> /\ trts = <<>> /\ rfcb = {}
  /\ chan = [c \in Channels |-> None]
  /\ assoc = {}
  /\ job = Idle

Ioput ==
  \/ \E moved \in {FALSE, Moves} : AllocFcb(moved)
  \/ Illegally
  \/ Sysio
  \/ Finish

Next ==
  \/ \E v \in Variables \cup {Unsuitable}, c \in Channels, out \in BOOLEAN, arg \in FileArgs :
       Associate(v, c, out, arg)
  \/ \E v \in Variables, out \in BOOLEAN : AssociateStandard(v, out)
  \/ Ioput
  \/ \E v \in Variables : Detach(v)
  \/ \E c \in Channels, failed \in BOOLEAN : EndFile(c, failed)
  \/ CloseAll

Spec == Init /\ [][Next]_vars

-----------------------------------------------------------------------------
TypeOK ==
  /\ stage \in {"runs", "ended", "crashed"}
  /\ files \in [Files -> {"absent", "text", "empty"}]
  /\ \A f \in DOMAIN fcbs : fcbs[f].iob \in {Null, Wild} \cup DOMAIN iobs
  /\ \A t \in DOMAIN trts : trts[t].fcb \in DOMAIN fcbs /\ trts[t].names \subseteq Variables
  /\ \A c \in Channels : chan[c] \in {None} \cup DOMAIN trts
  /\ \A a \in assoc : a.var \in Variables /\ a.trt \in {None} \cup DOMAIN trts
  /\ rfcb \subseteq DOMAIN fcbs

(* zysej reaches every file a variable was associated with: when the run    *)
(* ends, whatever was shared, reassociated, refused or closed before, none  *)
(* of them is left open with its buffer unwritten.                          *)
EndClosesAll ==
  stage = "ended" => \A i \in DOMAIN iobs : iobs[i].used /\ iobs[i].opn => iobs[i].sys

(* No variable reads or writes through a channel that ENDFILE has taken     *)
(* apart: the trap block it points to is still its channel's.               *)
NoneDangles ==
  \A a \in assoc : a.trt # None => \E c \in Channels : chan[c] = a.trt

(* The text of a file is lost only by an association for output whose file  *)
(* argument, given then or when the channel was made, has neither A nor U.  *)
TextKept ==
  [][\A n \in Files : files[n] = "text" /\ files'[n] # "text" =>
       \E i \in DOMAIN iobs' :
         /\ iobs'[i].out /\ iobs'[i].opn /\ iobs'[i].arg.name = n
         /\ (i \in DOMAIN iobs => ~iobs[i].opn)
         /\ {"A", "U"} \cap Range(iobs'[i].arg.opts) = {}]_vars

(* zysfc: be sure that the type of access is consistent with the current    *)
(* call, both input or both output: a variable that reads has a channel     *)
(* that reads, a variable that writes has one that writes.                  *)
AccessAgrees ==
  \A a \in assoc : a.trt # None /\ Sound(trts[a.trt].fcb) =>
    IF a.out THEN Iob(trts[a.trt].fcb).out ELSE Iob(trts[a.trt].fcb).inp
=============================================================================
