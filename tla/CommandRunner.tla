---------------------------- MODULE CommandRunner ----------------------------
(***************************************************************************)
(* natsSys_RunCommand, utils/src/unix/sys.c: a child process whose output  *)
(* the caller drains from one pipe, and which reports over a second one    *)
(* that it could not be what it should.                                    *)
(***************************************************************************)
EXTENDS Integers, FiniteSets

CONSTANTS
  PipeRoom,      \* reads that fill the pipe of the output
  MaxOutput      \* reads that the output takes

VARIABLES
  run,           \* the caller: [at, st, kept (reads that are in the buffer)]
  child,         \* [st, errno, total and left: the reads it writes and has still to write, how, code]
  pipe,          \* reads that are in the pipe
  ends           \* the ends of pipes that the caller has open

runVars == <<run, child, pipe, ends>>

NotRunning == [at |-> "idle", st |-> "OK", kept |-> 0]
NoChild == [st |-> "none", errno |-> "0", total |-> 0, left |-> 0, how |-> "exit", code |-> 0]
RunInit == run = NotRunning /\ child = NoChild /\ pipe = 0 /\ ends = {}

Start == run.at = "idle" /\ run' = [NotRunning EXCEPT !.at = "fork"] /\ UNCHANGED <<child, pipe, ends>>

\* A pipe, the buffer or the process cannot be made.
ForkFails ==
  /\ run.at = "fork" /\ UNCHANGED <<child, pipe, ends>>
  /\ \E st \in {"ERR", "NO_MEMORY"} : run' = [run EXCEPT !.at = "done", !.st = st]
\* The caller closes the ends that the child writes to.
Fork ==
  /\ run.at = "fork" /\ run' = [run EXCEPT !.at = "drain"] /\ ends' = {"outRead", "errRead"}
  /\ pipe' = 0
  /\ \E n \in 0..MaxOutput : child' = [NoChild EXCEPT !.st = "forked", !.total = n, !.left = n]

\* Reads the output before it waits for anything else.
Keep ==
  /\ run.at = "drain" /\ pipe > 0 /\ pipe' = pipe - 1
  /\ run' = [run EXCEPT !.kept = @ + 1] /\ UNCHANGED <<child, ends>>
KeepFails ==
  /\ run.at = "drain" /\ pipe > 0 /\ pipe' = pipe - 1
  /\ run' = [run EXCEPT !.at = "errno", !.st = "NO_MEMORY"] /\ UNCHANGED <<child, ends>>
ReadFails ==
  /\ run.at = "drain" /\ run' = [run EXCEPT !.at = "errno", !.st = "ERR"]
  /\ UNCHANGED <<child, pipe, ends>>
EndOfOutput ==
  /\ run.at = "drain" /\ pipe = 0 /\ child.st = "exited"
  /\ run' = [run EXCEPT !.at = "errno"] /\ UNCHANGED <<child, pipe, ends>>

\* Ends when the child has written its errno, or is what it should be.
ReadErrno ==
  /\ run.at = "errno" /\ child.st # "forked"
  /\ run' = [run EXCEPT !.at = "wait"] /\ UNCHANGED <<child, pipe, ends>>

\* What became of the child, if its output is kept.
ChildStatus(reaped) ==
  IF child.errno # "0" THEN IF child.errno = "ENOENT" THEN "NOT_FOUND" ELSE "ERR"
  ELSE IF ~reaped \/ child.how # "exit" THEN "ERR" ELSE "OK"
Wait ==
  /\ run.at = "wait" /\ child.st = "exited" /\ UNCHANGED <<child, pipe, ends>>
  /\ \E reaped \in BOOLEAN :
       run' = [run EXCEPT !.at = "copy", !.st = IF @ = "OK" THEN ChildStatus(reaped) ELSE @]

\* The copy of the output, or an error; the pipes are closed.
Copy ==
  /\ run.at = "copy" /\ ends' = {} /\ pipe' = 0 /\ child' = child
  /\ \E st \in {run.st, IF run.st = "OK" THEN "NO_MEMORY" ELSE run.st} :
       run' = [run EXCEPT !.at = "done", !.st = st]

RunStep == ForkFails \/ Fork \/ Keep \/ KeepFails \/ EndOfOutput \/ ReadErrno \/ Wait \/ Copy

-----------------------------------------------------------------------------
(* The child: its output and its end.                                      *)

Exec ==
  /\ child.st = "forked" /\ UNCHANGED <<run, pipe, ends>>
  /\ \/ child' = [child EXCEPT !.st = "runs"]
     \/ \E e \in {"ENOENT", "EACCES"} :
          child' = [child EXCEPT !.st = "exited", !.errno = e, !.left = 0, !.code = 127]
Output ==
  /\ child.st = "runs" /\ child.left > 0 /\ pipe < PipeRoom
  /\ child' = [child EXCEPT !.left = @ - 1] /\ pipe' = pipe + 1 /\ UNCHANGED <<run, ends>>
Exit ==
  /\ child.st = "runs" /\ child.left = 0 /\ UNCHANGED <<run, pipe, ends>>
  /\ \E code \in {0, 1} : child' = [child EXCEPT !.st = "exited", !.code = code]
Killed ==
  /\ child.st \in {"forked", "runs"} /\ UNCHANGED <<run, pipe, ends>>
  /\ child' = [child EXCEPT !.st = "exited", !.how = "signal"]

ChildWorks == Exec \/ Output \/ Exit
=============================================================================
