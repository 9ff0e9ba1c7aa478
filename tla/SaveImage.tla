----------------------------- MODULE SaveImage -----------------------------
(***************************************************************************)
(* Writing and reloading a save file: zysxi, putsave, getsave, unreloc and *)
(* rereloc (sysxi.c), openaout, wrtaout, closeaout and rdaout (wrtaout.c), *)
(* compress and expand (compress.c).                                       *)
(*                                                                         *)
(* The program's memory is written to a temporary file section by section, *)
(* compressed when there is room for the tables; only when all went well   *)
(* is the old save file unlinked and the temporary one renamed.  A process *)
(* that finds a save file loads it instead of a source program.  Any write *)
(* or read may fail, so may the unlink and the rename, and the machine may *)
(* stop at any step.                                                       *)
(***************************************************************************)
EXTENDS Compress, FiniteSets

CONSTANTS
  Images,      (* What the program's sections hold at first,               *)
  Edits,       (* and what they may hold later on.                         *)
  Temps,       (* The names openaout may give a temporary file.            *)
  Target,      (* The name of the save file.                               *)
  Builds,      (* Releases: version and section sizes of the runtime.      *)
  Null,        (* No file, no header, no descriptor.                       *)
  BuffSize,    (* BUFF_SIZE: the codes a buffer holds.                     *)
  Ahead,       (* The codes that bit_buffer is ahead of the one returned.  *)
  Heaps,       (* What the heap may hold where expand's table goes.        *)
  DecodeLimit, (* 4000: the prefixes decode_string follows at most.        *)
  MaxFaults,   (* Bound: system calls that fail.                           *)
  MaxSaves,    (* Bound: saves.                                            *)
  MaxCrashes   (* Bound: times the machine stops.                          *)

Files == Temps \cup {Target}

(* What the memory of a program, the header of a save file and a file are. *)
Memories == [sections : Seq(Seq(Character)), functions : 0..1,
             channels : {"open", "closed"}, relative : BOOLEAN, extra : 0..1]
Headers  == [comp : BOOLEAN, build : Builds, sizes : Seq(Nat)]
Contents == [header : Headers \cup {Null}, units : Seq(Code),
             of : Memories \cup {Null}, lost : BOOLEAN]

ASSUME SaveImageAssumption ==
  /\ BuffSize \in Nat \ {0} /\ Ahead \in Nat
  /\ Heaps \subseteq [FirstCode..MaxValue -> Entry]
  /\ DecodeLimit \in Nat /\ MaxCode - FirstCode <= DecodeLimit
  /\ MaxFaults \in Nat /\ MaxSaves \in Nat /\ MaxCrashes \in Nat
  /\ Images \cup Edits \subseteq Seq(Seq(Character))
  /\ Target \notin Temps
  /\ Null \notin Files /\ Null \notin Headers /\ Null \notin Contents
  /\ Null \notin Memories

VARIABLES
  memory,    (* The program's sections and loaded functions; whether its   *)
             (* stack pointers are offsets (unreloc), whether its channels *)
             (* are open, and how much the heap was extended for tables.   *)
  disk,      (* The files: Null, or header and the units written after it. *)
  job,       (* The call in progress.                                      *)
  build,     (* The release that is running.                               *)
  faults, saves, crashes

vars == <<memory, disk, job, build, faults, saves, crashes>>

(* What the process does, and with which section, character and code.      *)
Quiet(at) == [at |-> at, fd |-> Null, temp |-> Null, err |-> FALSE, comp |-> FALSE,
              stay |-> FALSE, sec |-> 1, i |-> 1, coder |-> Started(0), buf |-> <<>>,
              out |-> <<>>, decoder |-> FirstRead(0), cause |-> "none", old |-> Null,
              misread |-> FALSE]

At(step) == job.at = step
Goto(step) == job' = [job EXCEPT !.at = step]

(* The sections of the file: each loaded function adds a byte of code.     *)
SectionsOf(m) == m.sections \o [k \in 1..m.functions |-> <<0>>]
Section == SectionsOf(memory)[job.sec]
LastSection == job.sec > Len(SectionsOf(memory))

(* The file under the save file's name. *)
Saving == disk[Target]
Header == Saving.header

(* An outcome of a system call: it works, or a fault is left to spend. *)
Outcome(ok) == /\ ok \/ faults < MaxFaults
               /\ faults' = IF ok THEN faults ELSE faults + 1

(***************************************************************************)
(* The program between saves: its memory changes, functions are loaded and *)
(* unloaded, channels are opened.                                          *)
(***************************************************************************)
Run(s, f) ==
  /\ At("running") /\ saves < MaxSaves
  /\ memory' = [memory EXCEPT !.sections = s, !.functions = f, !.channels = "open"]
  /\ memory' # memory
  /\ UNCHANGED <<disk, job, build, faults, saves, crashes>>

(* Mutant: the old file is removed before the new one is written. *)
BeginSaveUnlinked(stay) ==
  /\ At("running") /\ saves < MaxSaves
  /\ saves' = saves + 1
  /\ memory' = [memory EXCEPT !.channels = "closed"]
  /\ job' = [Quiet("open") EXCEPT !.stay = stay, !.old = disk[Target]]
  /\ disk' = [disk EXCEPT ![Target] = Null]
  /\ UNCHANGED <<build, faults, crashes>>

(* zysxi closes every channel before it opens the file; stay is IA = -4.   *)
BeginSave(stay) ==
  /\ At("running") /\ saves < MaxSaves
  /\ saves' = saves + 1
  /\ memory' = [memory EXCEPT !.channels = "closed"]
  /\ job' = [Quiet("open") EXCEPT !.stay = stay, !.old = disk[Target]]
  /\ UNCHANGED <<disk, build, faults, crashes>>

(* openaout tries names until one is not taken; whatever happens, putsave  *)
(* is called next, and closeaout removes the name that was tried last.     *)
OpenTemp(t, ok) ==
  /\ At("open") /\ disk[t] = Null
  /\ Outcome(ok)
  /\ disk' = IF ok THEN [disk EXCEPT ![t] = [header |-> Null, units |-> <<>>,
                                             of |-> memory, lost |-> FALSE]]
             ELSE disk
  /\ job' = [job EXCEPT !.at = "tables", !.temp = t, !.err = ~ok,
                        !.fd = IF ok THEN t ELSE Null]
  /\ UNCHANGED <<memory, build, saves, crashes>>

NoTempName(t) ==
  /\ At("open") /\ \A u \in Temps : disk[u] # Null
  /\ job' = [job EXCEPT !.at = "tables", !.temp = t, !.err = TRUE]
  /\ UNCHANGED <<memory, disk, build, faults, saves, crashes>>

(* unreloc, and docompress: the tables go in free heap, in an extension of *)
(* it, or there is no compression.                                         *)
Tables(room) ==
  /\ At("tables")
  /\ memory' = [memory EXCEPT !.relative = TRUE,
                              !.extra = IF room = "extended" THEN 1 ELSE 0]
  /\ job' = [job EXCEPT !.at = "header", !.comp = room # "none"]
  /\ UNCHANGED <<disk, build, faults, saves, crashes>>

(* wrtaout on the open file; on no file it fails. *)
Written(fd, units) ==
  [disk EXCEPT ![fd].units = @ \o units, ![fd].of = memory]

WriteHeader(ok) ==
  /\ At("header")
  /\ Outcome(ok)
  /\ IF ok /\ job.fd # Null
     THEN /\ disk' = [disk EXCEPT ![job.fd].header =
                        [comp |-> job.comp, build |-> build,
                         sizes |-> [k \in 1..Len(memory.sections) |->
                                      Len(memory.sections[k])]],
                                  ![job.fd].of = memory]
          /\ job' = [job EXCEPT !.at = "section"]
     ELSE /\ job' = [job EXCEPT !.at = "section", !.err = TRUE]
          /\ UNCHANGED disk
  /\ UNCHANGED <<memory, build, saves, crashes>>

(* A section that is not compressed is one write, whose error counts. *)
WriteSection(ok) ==
  /\ At("section") /\ ~LastSection /\ ~job.comp
  /\ Outcome(ok)
  /\ IF ok /\ job.fd # Null
     THEN /\ disk' = Written(job.fd, Section)
          /\ job' = [job EXCEPT !.sec = @ + 1]
     ELSE /\ job' = [job EXCEPT !.sec = @ + 1, !.err = TRUE]
          /\ UNCHANGED disk
  /\ UNCHANGED <<memory, build, saves, crashes>>

(* output_code: a full buffer is written first, and nobody looks at what   *)
(* wrtaout returns.                                                        *)
Flushes == Len(job.buf) >= BuffSize

OutputCode(code, ok, next) ==
  /\ Outcome(ok) /\ (Flushes \/ ok)
  /\ job' = [next EXCEPT !.buf = IF Flushes THEN <<code>> ELSE Append(job.buf, code)]
  /\ disk' = IF ~Flushes \/ job.fd = Null THEN disk
             ELSE IF ok THEN Written(job.fd, job.buf)
             ELSE [disk EXCEPT ![job.fd].lost = TRUE]
  /\ UNCHANGED <<memory, build, saves, crashes>>

(* compress: the first character, the others, the last code, the end code. *)
FirstChar ==
  /\ At("section") /\ ~LastSection /\ job.comp
  /\ job' = IF Section = <<>> THEN [job EXCEPT !.sec = @ + 1]
            ELSE [job EXCEPT !.at = "char", !.i = 2, !.coder = Started(Section[1])]
  /\ UNCHANGED <<memory, disk, build, faults, saves, crashes>>

CharMatched ==
  /\ At("char") /\ job.i <= Len(Section) /\ Extends(job.coder, Section[job.i])
  /\ job' = [job EXCEPT !.i = @ + 1, !.coder = Longer(@, Section[job.i])]
  /\ UNCHANGED <<memory, disk, build, faults, saves, crashes>>

CharUnmatched(ok) ==
  /\ At("char") /\ job.i <= Len(Section) /\ ~Extends(job.coder, Section[job.i])
  /\ OutputCode(job.coder.string, ok,
                [job EXCEPT !.i = @ + 1, !.coder = Restarted(@, Section[job.i])])

LastCode(ok) ==
  /\ At("char") /\ job.i > Len(Section)
  /\ OutputCode(job.coder.string, ok, [job EXCEPT !.at = "end"])

EndCode(ok) ==
  /\ At("end")
  /\ OutputCode(MaxValue, ok, [job EXCEPT !.at = "section", !.sec = @ + 1,
                                          !.coder = Started(0), !.i = 1])

(* docompress(0): one more code pushes the last bits out, the buffer is    *)
(* written, the tables are given back.                                     *)
Pad(ok) ==
  /\ At("section") /\ LastSection /\ job.comp
  /\ OutputCode(0, ok, [job EXCEPT !.at = "drain"])

Drain(ok) ==
  /\ At("drain")
  /\ Outcome(ok)
  /\ job' = [job EXCEPT !.at = "rereloc", !.buf = <<>>, !.comp = FALSE]
  /\ disk' = IF job.fd = Null THEN disk
             ELSE IF ok THEN Written(job.fd, job.buf)
             ELSE [disk EXCEPT ![job.fd].lost = TRUE]
  /\ memory' = [memory EXCEPT !.extra = 0]
  /\ UNCHANGED <<build, saves, crashes>>

NotCompressed ==
  /\ At("section") /\ LastSection /\ ~job.comp
  /\ Goto("rereloc")
  /\ UNCHANGED <<memory, disk, build, faults, saves, crashes>>

(* Mutant: the file replaces the old one whatever the writes did. *)
RerelocAnyway ==
  /\ At("rereloc")
  /\ memory' = [memory EXCEPT !.relative = FALSE]
  /\ Goto("unlink")
  /\ UNCHANGED <<disk, build, faults, saves, crashes>>

(* Mutant: the pointers are restored only after a save that worked. *)
RerelocIfSaved ==
  /\ At("rereloc")
  /\ memory' = [memory EXCEPT !.relative = job.err]
  /\ Goto(IF job.err THEN "discard" ELSE "unlink")
  /\ UNCHANGED <<disk, build, faults, saves, crashes>>

(* rereloc, whatever the writes did. *)
Rereloc ==
  /\ At("rereloc")
  /\ memory' = [memory EXCEPT !.relative = FALSE]
  /\ Goto(IF job.err THEN "discard" ELSE "unlink")
  /\ UNCHANGED <<disk, build, faults, saves, crashes>>

(* closeaout: replace the old file, or remove the temporary one.  Nobody   *)
(* looks at what unlink returns (somebody may have the old file open); a   *)
(* file that stays keeps rename from working.                              *)
Unlink(ok) ==
  /\ At("unlink")
  /\ Outcome(ok) /\ (~ok => Saving # Null)
  /\ disk' = IF ok THEN [disk EXCEPT ![Target] = Null] ELSE disk
  /\ Goto("rename")
  /\ UNCHANGED <<memory, build, saves, crashes>>

Rename ==
  /\ At("rename") /\ Saving = Null
  /\ disk' = [disk EXCEPT ![Target] = disk[job.temp], ![job.temp] = Null]
  /\ Goto("saved")
  /\ UNCHANGED <<memory, build, faults, saves, crashes>>

RenameFails ==
  /\ At("rename")
  /\ Saving = Null => faults < MaxFaults
  /\ faults' = IF Saving = Null THEN faults + 1 ELSE faults
  /\ job' = [job EXCEPT !.at = "discard", !.err = TRUE, !.cause = "rename"]
  /\ UNCHANGED <<memory, disk, build, saves, crashes>>

(* Mutant: the temporary file stays. *)
DiscardKept ==
  /\ At("discard")
  /\ job' = Quiet("running")
  /\ UNCHANGED <<memory, disk, build, faults, saves, crashes>>

(* The file has been closed and nobody else has it: this unlink works.     *)
Discard ==
  /\ At("discard")
  /\ disk' = [disk EXCEPT ![job.temp] = Null]
  /\ job' = Quiet("running")                                      (* EXIT_2 *)
  /\ UNCHANGED <<memory, build, faults, saves, crashes>>

(* The program goes on (IA = -4), or ends through zysej. *)
Saved ==
  /\ At("saved")
  /\ job' = Quiet(IF job.stay THEN "running" ELSE "stopped")
  /\ UNCHANGED <<memory, disk, build, faults, saves, crashes>>

(* doexec: the shell takes the place of the process, or cannot. *)
DoExec(ok) == job' = Quiet(IF ok THEN "stopped" ELSE "running")

(* EXIT of a command: zysxi closes the channels, and they stay closed if   *)
(* the command cannot be run.                                              *)
Chain(ok) ==
  /\ At("running")
  /\ Outcome(ok)
  /\ memory' = [memory EXCEPT !.channels = "closed"]
  /\ DoExec(ok)
  /\ UNCHANGED <<disk, build, saves, crashes>>

(* zysej: the program ends. *)
EndProgram ==
  /\ At("running")
  /\ job' = Quiet("stopped")
  /\ UNCHANGED <<memory, disk, build, faults, saves, crashes>>

(* Power fails, or the process is killed. *)
Crash ==
  /\ ~At("stopped") /\ crashes < MaxCrashes
  /\ crashes' = crashes + 1
  /\ job' = Quiet("stopped")
  /\ UNCHANGED <<memory, disk, build, faults, saves>>
(***************************************************************************)
(* A new process, of any release: getsave looks for a save file and loads  *)
(* it into memory that it takes first.                                     *)
(***************************************************************************)
Blank == [sections |-> <<>>, functions |-> 0, channels |-> "closed",
          relative |-> FALSE, extra |-> 0]

Start(b) ==
  /\ At("stopped")
  /\ build' = b
  /\ memory' = Blank
  /\ job' = Quiet(IF disk[Target] = Null THEN "running" ELSE "peek")
  /\ UNCHANGED <<disk, faults, saves, crashes>>

Fail(cause) == job' = [job EXCEPT !.at = "failed", !.cause = cause]

(* The header tells whether this is a save file, and of this release. *)
CheckHeader(ok) ==
  /\ At("peek")
  /\ Outcome(ok)
  /\ CASE ~ok                     -> Fail("fault")
       [] ok /\ Header = Null      -> Fail("not a save file")
       [] ok /\ Header # Null      -> IF Header.build # build THEN Fail("version")
                                     ELSE Goto("memory")
  /\ UNCHANGED <<memory, disk, build, saves, crashes>>

(* brk and sbrk: the heap the file needs. *)
GetMemory(ok) ==
  /\ At("memory")
  /\ Outcome(ok)
  /\ IF ok THEN Goto("expansion") ELSE Fail("fault")
  /\ UNCHANGED <<memory, disk, build, saves, crashes>>

(* doexpand: for a compressed file, tables in the free heap or in an       *)
(* extension of it, which may be refused.                                  *)
Expansion(extended, ok) ==
  /\ At("expansion") /\ (extended \/ ~ok => Header.comp) /\ (~ok => extended)
  /\ Outcome(ok)
  /\ IF ok THEN Goto("load") ELSE Fail("fault")
  /\ memory' = [memory EXCEPT !.extra = IF extended /\ ok THEN 1 ELSE 0]
  /\ UNCHANGED <<disk, build, saves, crashes>>

AllLoaded == job.sec > Len(Header.sizes)
Wanted == Header.sizes[job.sec]
Unit(i) == IF i <= Len(Saving.units) THEN Saving.units[i] ELSE 0

(* rdaout: the section must be there in full.  An empty one is not read.   *)
ReadSection(ok) ==
  /\ At("load") /\ ~AllLoaded /\ (~Header.comp \/ Wanted = 0)
  /\ Outcome(ok)
  /\ CASE ~ok -> Fail("fault")
       [] ok /\ job.i + Wanted - 1 > Len(Saving.units) -> Fail("read")
       [] OTHER -> job' = [job EXCEPT !.sec = @ + 1, !.i = @ + Wanted,
                             !.out = Append(@, SubSeq(Saving.units, job.i, job.i + Wanted - 1))]
  /\ UNCHANGED <<memory, disk, build, saves, crashes>>

(* input_code reads the file when the code Ahead places on is the first of *)
(* a buffer, and for every code near the end.  When that read fails it     *)
(* returns MAX_VALUE, as if a section ended here; nothing is consumed, and *)
(* the next call reads again.                                              *)
Fills(i) == i = 1 \/ (i + Ahead - 1) % BuffSize = 0 \/ i + Ahead > Len(Saving.units)

InputCode(ok)  == IF ok THEN Unit(job.i) ELSE MaxValue
InputPlace(ok) == IF ok THEN job.i + 1 ELSE job.i

(* expand: the first code is a character.  If it is none, the table is     *)
(* looked up before anything is put there.                                 *)
FirstDecoder(code, heap) ==
  IF code < FirstCode THEN FirstRead(code) ELSE [FirstRead(code) EXCEPT !.table = heap]

ReadFirst(ok, heap) ==
  /\ At("load") /\ ~AllLoaded /\ Header.comp /\ Wanted > 0
  /\ Outcome(ok) /\ (~ok => Fills(job.i))
  /\ job' = [job EXCEPT !.at = "codes", !.i = InputPlace(ok),
                        !.decoder = FirstDecoder(InputCode(ok), heap),
                        !.out = Append(@, <<InputCode(ok) % FirstCode>>),
                        !.misread = job.misread \/ ~ok]
  /\ UNCHANGED <<memory, disk, build, saves, crashes>>

(* Past the end of the file input_code returns zeros for ever, and expand  *)
(* stores them for ever.                                                   *)
ReadCode ==
  LET code == Unit(job.i)
      string == Decoded(job.decoder, code, DecodeLimit) IN
  /\ At("codes") /\ code # MaxValue
  /\ IF job.i > Len(Saving.units) /\ Len(job.out[job.sec]) >= Wanted THEN Fail("overrun")
     ELSE IF ~Decodable(job.decoder.table, Looked(job.decoder, code), DecodeLimit)
     THEN Fail("fatal")
     ELSE job' = [job EXCEPT !.i = @ + 1, !.decoder = Read(@, code, string),
                             !.out[job.sec] = @ \o string]
  /\ UNCHANGED <<memory, disk, build, faults, saves, crashes>>

(* The end code, or a read that failed: expand tells them apart only when  *)
(* characters are missing.                                                 *)
ReadEnd(ok) ==
  /\ At("codes") /\ InputCode(ok) = MaxValue
  /\ Outcome(ok) /\ (~ok => Fills(job.i))
  /\ IF Len(job.out[job.sec]) # Wanted THEN Fail(IF ok THEN "read" ELSE "fault")
     ELSE job' = [job EXCEPT !.at = "load", !.i = InputPlace(ok), !.sec = @ + 1,
                             !.misread = job.misread \/ ~ok]
  /\ UNCHANGED <<memory, disk, build, saves, crashes>>

(* nextef finds the functions that were loaded when the file was written,  *)
(* and cannot load them.                                                   *)
FindFunctions ==
  /\ At("load") /\ AllLoaded
  /\ IF Saving.of.functions > 0 THEN Fail("functions") ELSE Goto("restart")
  /\ memory' = [memory EXCEPT !.extra = 0]
  /\ UNCHANGED <<disk, build, faults, saves, crashes>>

(* The restart code relocates what points into the stack and goes on where *)
(* the saved program was.                                                  *)
Restart ==
  /\ At("restart")
  /\ memory' = [Blank EXCEPT !.sections = job.out, !.relative = ~Saving.of.relative,
                             !.channels = Saving.of.channels]
  /\ job' = Quiet("running")
  /\ UNCHANGED <<disk, build, faults, saves, crashes>>

LoadFailed ==
  /\ At("failed")
  /\ job' = Quiet("stopped")
  /\ UNCHANGED <<memory, disk, build, faults, saves, crashes>>

(* A file that another process has under a temporary name; at first such   *)
(* files have none of the names or all.                                    *)
Foreign == [header |-> Null, units |-> <<>>, of |-> Null, lost |-> FALSE]

Init ==
  /\ \E s \in Images : memory = [Blank EXCEPT !.sections = s, !.channels = "open"]
  /\ \E taken \in {{}, Temps} : disk = [f \in Files |-> IF f \in taken THEN Foreign ELSE Null]
  /\ job = Quiet("running")
  /\ build \in Builds
  /\ faults = 0 /\ saves = 0 /\ crashes = 0

Next ==
  \/ \E s \in Edits, f \in 0..1 : Run(s, f)
  \/ \E stay \in BOOLEAN : BeginSave(stay)
  \/ \E t \in Temps : NoTempName(t) \/ \E ok \in BOOLEAN : OpenTemp(t, ok)
  \/ \E room \in {"free", "extended", "none"} : Tables(room)
  \/ \E ok \in BOOLEAN :
       \/ WriteHeader(ok) \/ WriteSection(ok) \/ CharUnmatched(ok) \/ LastCode(ok)
       \/ EndCode(ok) \/ Pad(ok) \/ Drain(ok) \/ Unlink(ok)
       \/ CheckHeader(ok) \/ GetMemory(ok) \/ ReadSection(ok) \/ Chain(ok)
       \/ \E extended \in BOOLEAN : Expansion(extended, ok)
       \/ \E heap \in Heaps : ReadFirst(ok, heap)
       \/ ReadEnd(ok)
  \/ FirstChar \/ CharMatched \/ NotCompressed \/ Rereloc \/ Rename \/ RenameFails
  \/ Discard \/ Saved \/ EndProgram \/ Crash \/ \E b \in Builds : Start(b)
  \/ ReadCode \/ FindFunctions \/ Restart \/ LoadFailed

Spec == Init /\ [][Next]_vars

-----------------------------------------------------------------------------
Steps == {"running", "open", "tables", "header", "section", "char", "end", "drain",
          "rereloc", "unlink", "rename", "discard", "saved", "stopped", "peek",
          "memory", "expansion", "load", "codes", "restart", "failed"}

Causes == {"none", "rename", "fault", "not a save file", "version", "read", "overrun",
           "fatal", "functions"}

Jobs == [at : Steps, fd : Temps \cup {Null}, temp : Temps \cup {Null}, err : BOOLEAN,
         comp : BOOLEAN, stay : BOOLEAN, sec : Nat \ {0}, i : Nat \ {0},
         coder : Coder, buf : Seq(Code), out : Seq(Seq(Character)), decoder : Decoder,
         cause : Causes, old : Contents \cup {Null}, misread : BOOLEAN]

(* Type correctness. *)
TypeOK ==
  /\ memory \in Memories /\ disk \in [Files -> Contents \cup {Null}] /\ job \in Jobs
  /\ Len(job.buf) <= BuffSize
  /\ build \in Builds /\ faults \in 0..MaxFaults
  /\ saves \in 0..MaxSaves /\ crashes \in 0..MaxCrashes

(* What a process restarts with is what some process of the same release   *)
(* saved, section by section, whichever way the table filled up, unless a  *)
(* write or a read of compressed data failed unnoticed.                    *)
LoadedIsSaved ==
  At("restart") => /\ job.out = Saving.of.sections \/ Saving.lost \/ job.misread
                   /\ Saving.header.build = build
                   /\ Saving.of.functions = 0

(* A file under the save file's name loads, unless a system call fails,    *)
(* noticed or not, the release is another or functions were loaded: no     *)
(* crash leaves half a file there.                                         *)
WholeFileLoads ==
  At("failed") => \/ job.cause \in {"fault", "version", "functions"}
                  \/ Saving.lost \/ job.misread

(* While an old file is being replaced it is there as it was, or the new   *)
(* one is, with its header and of the memory that is being saved, under    *)
(* one of its names: whatever fails, except that a rename that fails after *)
(* the unlink has worked leaves neither.                                   *)
NewFile(f) ==
  /\ f # Null /\ disk[f] # Null
  /\ disk[f].header # Null /\ disk[f].of # Null
  /\ disk[f].of.sections = memory.sections

OneCopySurvives ==
  job.old # Null => \/ Saving = job.old
                    \/ NewFile(Target) \/ NewFile(job.temp)
                    \/ Saving = Null /\ job.cause = "rename"

(* Only a crash leaves a temporary file of this program behind. *)
TempsRemoved ==
  job.at \in {"running", "stopped"} =>
    Cardinality({t \in Temps : disk[t] \notin {Null, Foreign}}) <= crashes

(* The program never runs with offsets for pointers, nor with the heap     *)
(* still extended for the tables; what is on disk has offsets in it, and   *)
(* no open channel.                                                        *)
PointersRestored ==
  /\ At("running") => ~memory.relative /\ memory.extra = 0
  /\ disk[Target] # Null => /\ disk[Target].of.relative
                            /\ disk[Target].of.channels = "closed"

(* A save that reports success has written everything: what wrtaout.c:72   *)
(* and compress.c:371 promise to report (it does not hold).                *)
SuccessIsWhole == At("saved") => ~disk[Target].lost

(* A program that is restarted was read without an error, or at least as   *)
(* it was saved: expand promises to report one (compress.c, above expand). *)
(* It does not hold.                                                       *)
ReadErrorReported ==
  At("restart") /\ job.misread => job.out = Saving.of.sections
=============================================================================
