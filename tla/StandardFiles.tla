--------------------------- MODULE StandardFiles ---------------------------
(***************************************************************************)
(* Standard input and output of the runtime.  Everything the runtime reads *)
(* on its standard input comes through descriptor 0 and one buffer         *)
(* (sysstdio.c); the files of the command line (swcinp.c), includes        *)
(* (sysif.c), the command of HOST(1) (syshs.c) and the end of compilation  *)
(* (sysbx.c) each put another file there by closing descriptor 0 and       *)
(* relying on the next dup or open to take the lowest free number.         *)
(* Standard output is switched the same way on descriptor 1 (swcoup.c).    *)
(*                                                                         *)
(* A record is one entry of a file, and a buffer holds BufRecs of them.    *)
(* The C globals and the system's descriptor table are one record s, and   *)
(* an operator stands for each C function that changes it.                 *)
(***************************************************************************)
EXTENDS Integers, Sequences, FiniteSets, FiniteSetsExt, Functions

CONSTANTS
  Text,         (* [files -> Seq(records)], the contents of the files there are.   *)
  NoFile,       (* A descriptor that is closed.                                    *)
  SaveFiles,    (* The files that are save files; they hold no records.            *)
  Shell,        (* The file the shell gives as descriptor 0.                       *)
  ShellOut,     (* The file the shell gives as descriptor 1 (and 2).               *)
  Listing,      (* The file of option -o.                                          *)
  Commands,     (* The command lines: args, the file names; withList, -o is given;  *)
                (* fromSource, -r is given; pipe, the shell's input cannot seek.    *)
  Dash,         (* The name '-'.                                                   *)
  SourceExts,   (* "" and the extensions tried for a source file, in order.        *)
  Places,       (* The directories searched for an include, in order.              *)
  Includes,     (* The names that -INCLUDE cards give.                             *)
  Depth,        (* INCLUDE_DEPTH and ccinm.                                        *)
  BufRecs,      (* Records in the buffer of standard input.                        *)
  FirstArg      (* Index in argv of the first file name.                           *)

Sequence(q) == q \in Seq(Range(q))

ASSUME StandardFilesAssumption ==
  /\ Depth \in Nat \ {0} /\ BufRecs \in Nat \ {0} /\ FirstArg \in Nat \ {0}
  /\ Shell \in DOMAIN Text /\ NoFile \notin DOMAIN Text \cup {ShellOut, Listing}
  /\ \A f \in DOMAIN Text : Sequence(Text[f])
  /\ Sequence(SourceExts) /\ Sequence(Places)
  /\ \A c \in Commands :
       /\ c = [args |-> c.args, withList |-> c.withList, fromSource |-> c.fromSource, pipe |-> c.pipe]
       /\ Sequence(c.args) /\ c.args # <<>>
       /\ {c.withList, c.fromSource, c.pipe} \subseteq BOOLEAN
       (* What the shell opened has no name, neither on the command line nor on a card. *)
       /\ \A name \in Range(c.args), ext \in Range(SourceExts) : <<name, ext>> # Shell
  /\ \A name \in Includes, place \in Range(Places) : <<name, place>> # Shell
  /\ Includes \cap {"none", "name", "eof"} = {}

VARIABLES
  env,      (* The command line, one of Commands.                                  *)
  s,        (* The globals of osint and the descriptors.                           *)
  stage,    (* compile, code (compiling at execution time), execute, stopped.      *)
  call,     (* The read under way: none, zysrd, shebang, zysin.                    *)
  image,    (* What the last read gave the runtime: none, name, eof or a record.   *)
  served,   (* The last record read, <<file, number>>.                             *)
  gone,     (* The number of the last record of a pipe that was served.            *)
  cnind,    (* The runtime's count of open includes.                               *)
  included  (* r_inc, the includes met so far.                                     *)

vars == <<env, s, stage, call, image, served, gone, cnind, included>>

Closed   == 0
MaxFd    == Depth + 6
MaxOpen  == Depth + 4
Empty(offset, curpos) ==
  [offset |-> offset, curpos |-> curpos, fill |-> 0, next |-> 0, file |-> NoFile, at |-> 0]
EmptyBuf == Empty(0, -1)

TextOf(f) == IF f \in DOMAIN Text THEN Text[f] ELSE <<>>

-----------------------------------------------------------------------------
(* The system's calls.  s.fds[fd] is the open file a descriptor refers to, *)
(* which descriptors made by dup share, and s.open[o] its file and place.  *)

LowestFree(x) == Min({fd \in 0 .. MaxFd : x.fds[fd] = Closed})
IsOpen(x, fd) == fd \in 0 .. MaxFd /\ x.fds[fd] # Closed
FileAt(x, fd) == IF IsOpen(x, fd) THEN x.open[x.fds[fd]].file ELSE NoFile

Close(x, fd) ==
  IF ~IsOpen(x, fd) THEN x
  ELSE LET t == [x EXCEPT !.fds[fd] = Closed]
       IN  IF x.fds[fd] \in Range(t.fds) THEN t
           ELSE [t EXCEPT !.open[x.fds[fd]] = [file |-> NoFile, pos |-> 0]]

Dup(x, fd) == IF IsOpen(x, fd) THEN [x EXCEPT !.fds[LowestFree(x)] = x.fds[fd]] ELSE x

OpenFile(x, f) ==
  LET o == Min({i \in 1 .. MaxOpen : x.open[i].file = NoFile})
  IN  [x EXCEPT !.open[o] = [file |-> f, pos |-> 0], !.fds[LowestFree(x)] = o]

(* The shell's input may be a pipe. *)
Pipes == IF env.pipe THEN {Shell} ELSE {}

CanSeek(x, fd) == IsOpen(x, fd) /\ FileAt(x, fd) \notin Pipes

(* LSEEK(0, p, 0), with curpos set from the value it returns. *)
Seek0(x, p) == [x EXCEPT !.open[x.fds[0]].pos = p, !.buf.curpos = p]

-----------------------------------------------------------------------------
(* The buffer of standard input: fillbuf, flush, doset on inpiob.          *)

(* Mutant: clrbuf that takes the new file to be at the buffer's start. *)
ClrbufAtStart(x) == [x EXCEPT !.buf = Empty(0, 0)]

Clrbuf(x) == [x EXCEPT !.buf = EmptyBuf]

Sync(x) ==
  IF x.buf.offset # x.buf.curpos /\ CanSeek(x, 0) THEN Seek0(x, x.buf.offset) ELSE x

FillBuf(x) ==
  LET t == Sync(x)
      p == IF IsOpen(t, 0) THEN t.open[t.fds[0]].pos ELSE 0
      n == Max({0, Min({BufRecs, Len(TextOf(FileAt(t, 0))) - p})})
  IN  IF n = 0 THEN [t EXCEPT !.buf = Empty(t.buf.offset, t.buf.curpos)]
      ELSE [t EXCEPT !.buf = [offset |-> t.buf.offset, curpos |-> t.buf.curpos + n, fill |-> n,
                              next |-> 0, file |-> FileAt(t, 0), at |-> p],
                     !.open[t.fds[0]].pos = p + n]

Emptied(x) == [x EXCEPT !.buf = Empty(x.buf.offset + x.buf.fill, x.buf.curpos)]

(* A buffer with a record to read, if the file has one. *)
Ready(x)   == IF x.buf.next < x.buf.fill THEN x ELSE FillBuf(Emptied(x))
AtEof(x)   == x.buf.next = x.buf.fill
Current(x) == <<x.buf.file, x.buf.at + x.buf.next + 1>>
Taken(x)   == [x EXCEPT !.buf.next = @ + 1]

Position(x) == x.buf.offset + x.buf.next

(* doset(getrdiob(), target, 0). *)
SetTo(x, target) ==
  IF x.buf.offset <= target /\ target <= x.buf.offset + x.buf.fill
    THEN [x EXCEPT !.buf.next = target - x.buf.offset]
  ELSE LET e == Emptied(x)
           newoffset == (target \div BufRecs) * BufRecs
           t == IF newoffset = e.buf.curpos THEN [e EXCEPT !.buf.offset = newoffset]
                ELSE [Seek0(e, newoffset) EXCEPT !.buf.offset = newoffset]
           f == FillBuf(t)
       IN  IF newoffset # e.buf.curpos /\ ~CanSeek(e, 0) THEN e
           ELSE [f EXCEPT !.buf.next = Min({target - f.buf.offset, f.buf.fill})]

(* doset(getrdiob(), 0, 2): a pipe has no end to seek, and LSEEK returns -1. *)
SetToEof(x) ==
  LET eof == IF CanSeek(x, 0) THEN Len(TextOf(FileAt(x, 0))) ELSE -1
      t   == IF CanSeek(x, 0) THEN Seek0(x, eof) ELSE [x EXCEPT !.buf.curpos = -1]
  IN  SetTo(t, Max({0, eof, x.buf.offset + x.buf.fill}))

-----------------------------------------------------------------------------
(* The files of the command line: swcinp.                                  *)

(* appendext: the name as it is, then with each extension. *)
WithExts(name) == [i \in DOMAIN SourceExts |-> <<name, SourceExts[i]>>]

(* The files that may be meant by a name, numbered in the order they are tried. *)
Candidates(x, name) ==
  {i \in DOMAIN SourceExts : /\ WithExts(name)[i] \in DOMAIN Text
                             /\ i # 1 => ~x.executing
                             /\ i = 3 => x.curfile = 1}

(* Mutant: the name is not counted. *)
NextArgUncounted(x) ==
  [Clrbuf(Close(x, 0)) EXCEPT !.curfile = @ + 1]

NextArg(x) ==
  [Clrbuf(Close(x, 0)) EXCEPT !.cmdcnt = @ + 1, !.curfile = @ + 1]

(* The file the shell gave, back on descriptor 0. *)
ShellInput(x) == Dup(Clrbuf(Close(x, 0)), x.originp)

(* swcinp; ret says whether a file was switched to, all are read, or it exits. *)
SwcInp(x) ==
  LET t == IF x.originp < 0 THEN [Dup(x, 0) EXCEPT !.originp = LowestFree(x)] ELSE x
      u == NextArg(t)
  IN  IF t.curfile < t.inpcnt
        THEN LET name  == env.args[u.curfile]
                 found == Candidates(u, name)
             IN  IF name = Dash     THEN [Dup(u, u.originp) EXCEPT !.ret = "file"]
                 ELSE IF found = {} THEN [u EXCEPT !.ret = "exit"]
                 ELSE [OpenFile(u, WithExts(name)[Min(found)]) EXCEPT !.ret = "file"]
      ELSE IF ~t.readshell0 THEN [t EXCEPT !.ret = "eof"]
      ELSE IF ~t.executing /\ t.inpcnt > 0 THEN [t EXCEPT !.ret = "exit"]
      ELSE [ShellInput(t) EXCEPT !.readshell0 = FALSE, !.ret = "file"]

(* save0 and restore0, around the command of HOST(1). *)
Save0(x)    == ShellInput([Dup(x, 0) EXCEPT !.save_fd0 = LowestFree(x)])

(* Mutant: the saved descriptor is left open. *)
Restore0Kept(x) == Dup(Clrbuf(Close(x, 0)), x.save_fd0)

Restore0(x) == Close(Dup(Clrbuf(Close(x, 0)), x.save_fd0), x.save_fd0)

-----------------------------------------------------------------------------
(* Includes: zysif.                                                        *)

(* trypath: the name in each directory of the search path. *)
InPlaces(name) == [i \in DOMAIN Places |-> <<name, Places[i]>>]

Found(name)       == {i \in DOMAIN Places : InPlaces(name)[i] \in DOMAIN Text}
IncludeFile(name) == InPlaces(name)[Min(Found(name))]

Nesting(x) == Len(x.inc)

OpenPrev(x) ==
  LET top == x.inc[Nesting(x)]
      t   == [x EXCEPT !.inc = SubSeq(@, 1, Len(@) - 1)]
  IN  SetTo(Clrbuf(Close(Dup(t, top.fd), top.fd)), top.pos)

(* zysif with a name; ret tells whether it could. *)
PushInclude(x, name) ==
  LET t == [x EXCEPT !.inc = Append(@, [fd |-> LowestFree(x), pos |-> Position(x)])]
      u == Clrbuf(Close(Dup(t, 0), 0))
  IN  IF Nesting(x) = Depth             THEN [x EXCEPT !.ret = "exit"]
      ELSE IF Found(name) = {}          THEN [OpenPrev(u) EXCEPT !.ret = "exit"]
      ELSE [OpenFile(u, IncludeFile(name)) EXCEPT !.ret = "file"]

(* zysif without a name, at the end of an include. *)
PopInclude(x) == IF Nesting(x) > 0 THEN OpenPrev(Close(x, 0)) ELSE x

-----------------------------------------------------------------------------
(* Standard output: swcoup, called before compilation, before execution    *)
(* and after it.  opened says whether the -o file can be opened.           *)

(* Mutant: the duplicate of the shell's descriptor 1 takes its number. *)
SwcOupSwapped(x, opened) ==
  IF x.errflag \/ ~env.withList THEN x
  ELSE LET t == [x EXCEPT !.oupState = @ + 1]
           c == Close(t, 1)
           saved == [Dup(Close(t, 0), 1) EXCEPT !.origoup = LowestFree(Close(t, 0))]
       IN  CASE t.oupState = 1 -> OpenFile(Close(saved, 1), Listing)
             [] t.oupState = 2 -> Close(Dup(c, t.origoup), t.origoup)
             [] t.oupState = 3 -> IF opened THEN OpenFile(c, Listing) ELSE c

SwcOup(x, opened) ==
  IF x.errflag \/ ~env.withList THEN x
  ELSE LET t == [x EXCEPT !.oupState = @ + 1]
           c == Close(t, 1)
           d == [Dup(t, 1) EXCEPT !.origoup = LowestFree(t)]
           saved == Close(d, 1)
       IN  CASE t.oupState = 1 ->
                  IF opened THEN OpenFile(saved, Listing)
                  ELSE Close(Dup([saved EXCEPT !.errflag = TRUE], d.origoup), d.origoup)
             [] t.oupState = 2 -> Close(Dup(c, t.origoup), t.origoup)
             [] t.oupState = 3 -> IF opened THEN OpenFile(c, Listing) ELSE c

(* sysbx: the rest of the source is passed over, and INPUT is the shell's. *)
SysBx(x) ==
  LET e == [x EXCEPT !.executing = TRUE]
      b == SwcInp([SetToEof(e) EXCEPT !.curfile = e.inpcnt])
  IN  SwcOup(IF e.readshell0 THEN b ELSE e, TRUE)

-----------------------------------------------------------------------------
Settle(x) == s' = [x EXCEPT !.ret = "none"]

(* The globals as they start. *)
Globals ==
  [ fds  |-> [fd \in 0 .. MaxFd |-> CASE fd = 0 -> 1 [] fd \in {1, 2} -> 2 [] OTHER -> Closed],
    open |-> [o \in 1 .. MaxOpen |-> CASE o = 1 -> [file |-> Shell, pos |-> 0]
                                       [] o = 2 -> [file |-> ShellOut, pos |-> 0]
                                       [] OTHER -> [file |-> NoFile, pos |-> 0]],
    buf |-> EmptyBuf, originp |-> -1, save_fd0 |-> -1, inc |-> <<>>,
    curfile |-> 0, inpcnt |-> 0, cmdcnt |-> 0,
    readshell0 |-> TRUE, executing |-> FALSE, first_record |-> TRUE, provide_name |-> TRUE,
    oupState |-> 0, origoup |-> 1, errflag |-> FALSE, ret |-> "none" ]

(* getargs: option -r, and the arguments after the last option as file names. *)
GetArgs(x) ==
  [x EXCEPT !.inpcnt = Len(env.args), !.cmdcnt = FirstArg, !.readshell0 = ~env.fromSource]

(* arg2scb: one argument of the command line; the file names come last in it. *)
Arg2Scb(n) == env.args[n - FirstArg + 1]
Argc       == FirstArg + Len(env.args)

(* HOST(0): the arguments of the program, from the command count on. *)
HostArgs(x) == [i \in 1 .. Argc - x.cmdcnt |-> Arg2Scb(x.cmdcnt + i - 1)]

Init ==
  /\ env \in Commands
  /\ s = GetArgs(Globals)
  /\ stage = "start" /\ call = "none" /\ image = "none"
  /\ served = <<NoFile, 0>> /\ gone = 0 /\ cnind = 0 /\ included = {}

(* getsave's answer: the first file is a save file. *)
IsImage(x) == FileAt(x, 0) \in SaveFiles

(* A save file has been loaded: no more files, and the program goes on. *)
Reloaded(x) ==
  SwcInp([x EXCEPT !.buf = Empty(0, 0), !.inpcnt = 0, !.executing = TRUE, !.provide_name = FALSE])

(* main: the first file, then the -o file.  The restart of a program saved by -y *)
(* calls swcoup once more, and that of one saved by EXIT does not.               *)
Start ==
  /\ stage = "start"
  /\ \E opened, again \in BOOLEAN :
       LET x == SwcInp(s)
           y == SwcOup(x, opened)
           z == Reloaded(y)
       IN  IF x.ret = "exit" THEN Settle(x) /\ stage' = "stopped"
           ELSE IF IsImage(x) THEN Settle(IF again THEN SwcOup(z, TRUE) ELSE z) /\ stage' = "execute"
           ELSE Settle(y) /\ stage' = "compile"
  /\ UNCHANGED <<env, call, image, served, gone, cnind, included>>

-----------------------------------------------------------------------------
(* One turn of the loops of zysrd and zysin.                               *)

NameDue == call = "zysrd" /\ s.provide_name

ProvideName ==
  /\ NameDue
  /\ s' = [s EXCEPT !.provide_name = FALSE]
  /\ image' = "name" /\ call' = "none"
  /\ UNCHANGED <<env, stage, served, gone, cnind, included>>

(* A first record '#!': what follows the first name is for the program. *)
Script(x) ==
  [x EXCEPT !.first_record = FALSE, !.inpcnt = 1,
            !.cmdcnt = FirstArg + Len(env.args) - x.inpcnt + 1]

ReadRecord ==
  LET x == Ready(s)
      r == TextOf(Current(x)[1])[Current(x)[2]]
  IN  /\ call # "none" /\ ~NameDue /\ ~AtEof(x)
      /\ served' = Current(x)
      /\ gone' = IF Current(x)[1] \in Pipes THEN Current(x)[2] ELSE gone
      /\ IF call = "zysrd" /\ s.first_record /\ r = "#!"
           THEN s' = Script(Taken(x)) /\ call' = "shebang" /\ image' = "none"
           ELSE /\ s' = [Taken(x) EXCEPT !.first_record = @ /\ call # "zysrd"]
                /\ call' = "none" /\ image' = r
      /\ UNCHANGED <<env, stage, cnind, included>>

InInclude == call = "zysrd" /\ Nesting(s) > 0

(* At the end of a file: the next one, whose name the compiler is told. *)
EndOfFile ==
  LET x == Ready(s)
      y == SwcInp(x)
  IN  /\ call # "none" /\ ~NameDue /\ AtEof(x)
      /\ \/ /\ InInclude \/ y.ret = "eof"
            /\ Settle(IF InInclude THEN x ELSE y)
            /\ served' = <<NoFile, 0>> /\ image' = "eof" /\ call' = "none"
            /\ UNCHANGED stage
         \/ /\ ~InInclude /\ y.ret = "exit"
            /\ Settle(y) /\ stage' = "stopped"
            /\ call' = "none" /\ UNCHANGED <<served, image>>
         \/ /\ ~InInclude /\ y.ret = "file"
            /\ Settle(y)
            /\ IF call = "shebang" \/ (call = "zysrd" /\ ~s.executing)
                 THEN image' = "name" /\ call' = "none"
                 ELSE UNCHANGED <<image, call>>
            /\ UNCHANGED <<served, stage>>
      /\ UNCHANGED <<env, gone, cnind, included>>

-----------------------------------------------------------------------------
(* The compiler's use of it: readr, the -INCLUDE card and the END line.    *)

Quiet == call = "none"

Compiling == stage = "compile" \/ stage = "code"

(* readr asks for the next image; after a file name it asks again. *)
Readr ==
  /\ Compiling /\ Quiet /\ image \in {"none", "name", "line", "#!"}
  /\ call' = "zysrd" /\ image' = "none"
  /\ UNCHANGED <<env, s, stage, served, gone, cnind, included>>

(* readr at the end of an include. *)
EndInclude ==
  /\ Compiling /\ Quiet /\ image = "eof" /\ cnind > 0
  /\ s' = PopInclude(s)
  /\ cnind' = cnind - 1
  /\ stage' = IF stage = "code" /\ cnind = 1 THEN "execute" ELSE stage
  /\ image' = "none"
  /\ UNCHANGED <<env, call, served, gone, included>>

(* An error of the code compiled at execution time: the include is forgotten. *)
Forget ==
  /\ cnind' = 0
  /\ stage' = "execute"

(* A -INCLUDE card naming f, wherever it is read. *)
IncludeCard(f) ==
  LET x == PushInclude(s, f)
  IN  IF f \in included
        THEN UNCHANGED <<s, cnind, included, stage>>
      ELSE /\ included' = included \cup {f}
           /\ IF cnind + 1 > Depth THEN UNCHANGED s ELSE Settle(x)
           /\ IF (cnind + 1 > Depth \/ x.ret = "exit") /\ stage # "compile"
                THEN Forget
              ELSE /\ cnind' = cnind + 1
                   /\ stage' = IF stage = "compile" THEN stage ELSE "code"

CompileInclude ==
  /\ Compiling /\ Quiet /\ image \in Includes
  /\ IncludeCard(image)
  /\ image' = "none"
  /\ UNCHANGED <<env, call, served, gone>>

(* CODE() of a string with a -INCLUDE card. *)
CodeInclude ==
  /\ stage = "execute" /\ Quiet
  /\ \E f \in Includes : IncludeCard(f)
  /\ image' = "none"
  /\ UNCHANGED <<env, call, served, gone>>

CodeError ==
  /\ stage = "code" /\ Quiet
  /\ Forget
  /\ image' = "none"
  /\ UNCHANGED <<env, s, call, served, gone, included>>

(* The END line, or its absence: sysbx.  Without an END execution may be suppressed. *)
EndLine ==
  /\ stage = "compile" /\ Quiet
  /\ \/ image = "end"
     \/ image = "eof" /\ cnind = 0
  /\ Settle(SysBx(s))
  /\ stage' \in (IF image = "end" THEN {"execute"} ELSE {"execute", "stopped"})
  /\ cnind' = 0 /\ image' = "none"
  /\ UNCHANGED <<env, call, served, gone, included>>

-----------------------------------------------------------------------------
(* The program: INPUT, INPUT through channel 0, HOST(1), and its end.      *)

Input ==
  /\ stage = "execute" /\ Quiet
  /\ call' \in {"zysrd", "zysin"} /\ image' = "none"
  /\ UNCHANGED <<env, s, stage, served, gone, cnind, included>>

HostCommand ==
  /\ stage = "execute" /\ Quiet
  /\ s' = Save0(s)
  /\ stage' = "command" /\ image' = "none"
  /\ UNCHANGED <<env, call, served, gone, cnind, included>>

(* The command, which may read its input too, is over. *)
HostReturns ==
  /\ stage = "command"
  /\ \E n \in 0 .. 1 :
       LET o == s.fds[s.originp]
           p == Min({s.open[o].pos + n, Len(Text[Shell])})
       IN  s' = [Restore0([s EXCEPT !.open[o].pos = p]) EXCEPT !.save_fd0 = -1]
  /\ stage' = "execute"
  /\ UNCHANGED <<env, call, image, served, gone, cnind, included>>

(* sysax, after execution. *)
EndJob ==
  /\ stage = "execute" /\ Quiet
  /\ \E opened \in BOOLEAN : s' = SwcOup(s, opened)
  /\ stage' = "stopped" /\ image' = "none"
  /\ UNCHANGED <<env, call, served, gone, cnind, included>>

Next ==
  \/ Start
  \/ ProvideName \/ ReadRecord \/ EndOfFile
  \/ Readr \/ EndInclude \/ CompileInclude \/ CodeInclude \/ CodeError \/ EndLine
  \/ Input \/ HostCommand \/ HostReturns \/ EndJob

Spec == Init /\ [][Next]_vars

-----------------------------------------------------------------------------
TypeOK ==
  /\ stage \in {"start", "compile", "code", "execute", "command", "stopped"}
  /\ call \in {"none", "zysrd", "shebang", "zysin"}
  /\ cnind \in 0 .. Depth + Cardinality(Includes) /\ included \subseteq Includes
  /\ Nesting(s) <= Depth
  /\ s.buf.next <= s.buf.fill /\ s.buf.fill <= BufRecs
  /\ \A fd \in 0 .. MaxFd : s.fds[fd] # Closed => s.open[s.fds[fd]].file # NoFile
  /\ served[1] # NoFile => served[2] \in DOMAIN Text[served[1]]

(* The descriptors in use, each for its own purpose. *)
Held ==
  <<0, 1, 2, s.originp>> \o [i \in DOMAIN s.inc |-> s.inc[i].fd]
    \o (IF s.oupState = 1 /\ ~s.errflag THEN <<s.origoup>> ELSE <<>>)
    \o (IF stage = "command" THEN <<s.save_fd0>> ELSE <<>>)

(* While the program compiles or runs, the open descriptors are exactly those the code has a *)
(* use for, no two uses share one, and none is leaked by a switch, an include or a command   *)
(* (the close, dup and open pairs of swcinp, zysif, save0, restore0 and swcoup).             *)
DescriptorsExact ==
  stage \notin {"start", "stopped"} =>
    /\ {fd \in 0 .. MaxFd : IsOpen(s, fd)} = Range(Held)
    /\ Cardinality(Range(Held)) = Len(Held)

(* Lines go to the -o file while the source is compiled and to the shell's standard output   *)
(* while the compiled program runs (the three calls of swcoup), whatever files were opened   *)
(* on descriptors in between.                                                                *)
OutputFollowsPhase ==
  /\ stage = "compile" /\ env.withList /\ ~s.errflag => FileAt(s, 1) = Listing
  /\ stage \in {"execute", "code", "command"} /\ s.oupState # 1 => FileAt(s, 1) = ShellOut

(* The last argument that HOST(0) leaves out is the source file being compiled, so the program *)
(* is given exactly the arguments the compiler has not taken (swcinp, the '#!' record of zysrd, *)
(* and zyshs).  A script met after an empty file is the exception, and curfile > inpcnt tells   *)
(* it: zysrd counts one name taken when there were more.                                        *)
SourceIsCounted ==
  stage = "compile" /\ s.curfile <= s.inpcnt =>
    LET taken == Len(env.args) - Len(HostArgs(s))
        fd    == IF s.inc = <<>> THEN 0 ELSE s.inc[1].fd
    IN  /\ taken > 0
        /\ IF FileAt(s, fd) = Shell THEN env.args[taken] = Dash
           ELSE FileAt(s, fd)[1] = env.args[taken]

(* Where the file on descriptor 0 is: the record the next read will serve. *)
Where ==
  IF s.buf.next < s.buf.fill THEN s.buf.at + s.buf.next
  ELSE IF s.buf.offset + s.buf.fill # s.buf.curpos THEN s.buf.offset + s.buf.fill
  ELSE s.open[s.fds[0]].pos

PlaceOf(f, at) == [file |-> f, at |-> IF f \in Pipes \cup {NoFile} THEN 0 ELSE at]

Place ==
  [i \in DOMAIN s.inc |-> PlaceOf(FileAt(s, s.inc[i].fd), s.inc[i].pos)]
    \o << IF stage = "command" THEN PlaceOf(FileAt(s, s.save_fd0), 0)
          ELSE PlaceOf(FileAt(s, 0), Where) >>

Stream == INSTANCE InputStream WITH place <- Place, pipes <- Pipes, gone <- gone, served <- served

(* Whatever files, includes, code and commands came in between, each read serves the record  *)
(* after the last one served of the file on top, and end of file only at its end; a command  *)
(* of HOST(1) makes it start again (zysrd, zysin, swcinp, zysif, save0 and restore0).        *)
ServesTheStream == Stream!StreamSpec

(* The interface reads an include only while the runtime knows of one (sbl.min:2323: a call  *)
(* of sysif without a name marks the conclusion of the use of an include file).  It does not *)
(* hold: see Forget.                                                                         *)
InputFollowsRuntime == cnind = 0 => Nesting(s) = 0
=============================================================================
