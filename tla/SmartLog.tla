------------------------------- MODULE SmartLog -------------------------------
(***************************************************************************)
(* CSmartLog (libcomm_utils/src/log/smart_log.cpp) over CLiteFile          *)
(* (utils/file.cpp): a log goes on in a new file every Interval seconds.   *)
(* A mutex serialises the change of files and not the writing, so the last *)
(* file stays open for the traces that are still on their way to it.       *)
(*                                                                         *)
(* The logs are those of one directory and one prefix, as the endpoints of *)
(* an acceptor have them, and a file is named after the second it is made  *)
(* in.  The same descriptors serve the rest of the process.  Traces below  *)
(* the level, and the console, are left out.                               *)
(***************************************************************************)
EXTENDS Integers, FiniteSets, FiniteSetsExt

CONSTANTS
  Logs, Tracers,
  Interval,   (* m_i32IntervalInSeconds                                    *)
  MaxTime,    (* bound on the clock                                        *)
  Fds,        (* the descriptors of the process, numbers                   *)
  None        (* nobody, nothing                                           *)

ASSUME LogAssumption == Interval \in Nat /\ MaxTime \in Nat /\ Fds \subseteq Nat

VARIABLES
  file,     (* m_LogFile of each log: a descriptor, -1 when closed         *)
  last,     (* m_LastLogFile                                               *)
  start,    (* m_tmLogFileStart                                            *)
  lk,       (* m_lk: the tracer that holds it                              *)
  tracer,   (* where each trace_log is: [pc, log, fd, missed]              *)
  clock,    (* time(NULL)                                                  *)
  fds,      (* what each descriptor is open for                            *)
  dir,      (* the directory of the day exists                             *)
  names,    (* the seconds for which a file exists                         *)
  died      (* the CMN_ASSERT(false) the process ended at                  *)

logVars == <<file, last, start, lk, tracer, clock, fds, dir, names, died>>

Out == [pc |-> "out", log |-> None, fd |-> -1, missed |-> 0]

(* The constructor, and init().                                            *)
LogInit ==
  /\ file = [l \in Logs |-> -1] /\ last = [l \in Logs |-> -1]
  /\ start = [l \in Logs |-> 0]
  /\ lk = [l \in Logs |-> None]
  /\ tracer = [t \in Tracers |-> Out]
  /\ clock = 1
  /\ fds = [n \in Fds |-> None]
  /\ dir = FALSE /\ names = {}
  /\ died = "no"

Alive == died = "no"

-----------------------------------------------------------------------------
(* CLiteFile                                                               *)

IsOpen(l) == file[l] >= 0

(* open() takes the lowest free descriptor.                                *)
FreeFds == {n \in Fds : fds[n] = None}
OpenFor(user) == fds' = [fds EXCEPT ![Min(FreeFds)] = user]
Close(closed) == fds' = [n \in Fds |-> IF n \in closed THEN None ELSE fds[n]]

-----------------------------------------------------------------------------
(* trace_log and check_log_file                                            *)

UpToDate(l) == IsOpen(l) /\ (Interval = 0 \/ clock < start[l] + Interval)

GoOn(t, pc) == tracer' = [tracer EXCEPT ![t].pc = pc]

(* The test without the mutex.  A trace that finds the files being changed *)
(* may get the last one.                                                   *)
TraceLog(t, l) ==
  /\ Alive /\ tracer[t] = Out
  /\ tracer' = [tracer EXCEPT ![t] =
                  [Out EXCEPT !.pc = IF UpToDate(l) THEN "set" ELSE "lock", !.log = l,
                              !.missed = IF lk[l] = None THEN 0 ELSE 1]]
  /\ UNCHANGED <<file, last, start, lk, clock, fds, dir, names, died>>

(* The test under the mutex: the file was changed while it was waited for. *)
FileIsNew(t) ==
  /\ Alive /\ tracer[t].pc = "lock"
  /\ LET l == tracer[t].log IN lk[l] = None /\ UpToDate(l)
  /\ tracer' = [tracer EXCEPT ![t].pc = "set", ![t].missed = 0]
  /\ UNCHANGED <<file, last, start, lk, clock, fds, dir, names, died>>

(* Mutation of KeptOpen: the file is closed, as close(true) does.          *)
KeepsNone(l) == -1

(* close(false): the file before the last one is closed, and the file      *)
(* becomes the last one.                                                   *)
KeptOpen(l) == file[l]

CloseLast(t) ==
  /\ Alive /\ tracer[t].pc = "lock"
  /\ LET l == tracer[t].log
     IN /\ lk[l] = None /\ ~ UpToDate(l)
        /\ lk' = [lk EXCEPT ![l] = t]
        /\ last' = [last EXCEPT ![l] = KeptOpen(l)]
        /\ Close({last[l], file[l]} \ {KeptOpen(l)})
        /\ start' = [start EXCEPT ![l] = clock]
        /\ tracer' = [s \in Tracers |->
             CASE s = t -> [tracer[t] EXCEPT !.pc = "dir", !.missed = 0]
               [] s # t /\ tracer[s].log = l -> [tracer[s] EXCEPT !.missed = @ + 1]
               [] OTHER -> tracer[s]]
  /\ UNCHANGED <<file, clock, dir, names, died>>

(* create_recursive_dir_ex: access() says whether the directory exists,    *)
FindDir(t) ==
  /\ Alive /\ tracer[t].pc = "dir"
  /\ GoOn(t, IF dir THEN "create" ELSE "mkdir")
  /\ UNCHANGED <<file, last, start, lk, clock, fds, dir, names, died>>

(* and mkdir() fails when another log has made it meanwhile.               *)
MakeDir(t) ==
  /\ Alive /\ tracer[t].pc = "mkdir"
  /\ dir' = TRUE
  /\ died' = IF dir THEN "mkdir" ELSE died
  /\ GoOn(t, "create")
  /\ UNCHANGED <<file, last, start, lk, clock, fds, names>>

(* create(): open(O_CREAT | O_EXCL) of a name that holds the second.       *)
CreateFile(t) ==
  /\ Alive /\ tracer[t].pc = "create"
  /\ LET l == tracer[t].log
     IN /\ start[l] \notin names /\ FreeFds # {}
        /\ names' = names \cup {start[l]}
        /\ OpenFor(l)
        /\ file' = [file EXCEPT ![l] = Min(FreeFds)]
        /\ lk' = [lk EXCEPT ![l] = None]
  /\ GoOn(t, "set")
  /\ UNCHANGED <<last, start, clock, dir, died>>

(* The name is taken, or the process has no descriptor left.               *)
CreateFails(t) ==
  /\ Alive /\ tracer[t].pc = "create"
  /\ start[tracer[t].log] \in names \/ FreeFds = {}
  /\ died' = "create"
  /\ UNCHANGED <<file, last, start, lk, tracer, clock, fds, dir, names>>

(* CLiteFile::set reads the descriptor,                                    *)
SetFile(t) ==
  /\ Alive /\ tracer[t].pc = "set"
  /\ tracer' = [tracer EXCEPT ![t].pc = "write", ![t].fd = file[tracer[t].log]]
  /\ UNCHANGED <<file, last, start, lk, clock, fds, dir, names, died>>

(* and writes to it.                                                       *)
WriteFile(t) ==
  /\ Alive /\ tracer[t].pc = "write"
  /\ tracer' = [tracer EXCEPT ![t] = Out]
  /\ UNCHANGED <<file, last, start, lk, clock, fds, dir, names, died>>

(* The destructor: close(true), when nobody traces to the log any more.    *)
(* The log of another object takes its place.                              *)
DestroyLog(l) ==
  /\ Alive /\ IsOpen(l) /\ lk[l] = None
  /\ \A t \in Tracers : tracer[t].log # l
  /\ Close({last[l], file[l]})
  /\ file' = [file EXCEPT ![l] = -1]
  /\ last' = [last EXCEPT ![l] = -1]
  /\ start' = [start EXCEPT ![l] = 0]
  /\ UNCHANGED <<lk, tracer, clock, dir, names, died>>

-----------------------------------------------------------------------------
(* The clock, and what the rest of the process does with descriptors.      *)

Tick ==
  /\ Alive /\ clock < MaxTime
  /\ clock' = clock + 1
  /\ UNCHANGED <<file, last, start, lk, tracer, fds, dir, names, died>>

OthersOpen ==
  /\ Alive /\ FreeFds # {}
  /\ OpenFor("others")
  /\ UNCHANGED <<file, last, start, lk, tracer, clock, dir, names, died>>

LogNext ==
  \/ \E t \in Tracers :
       \/ \E l \in Logs : TraceLog(t, l)
       \/ FileIsNew(t) \/ CloseLast(t)
       \/ FindDir(t) \/ MakeDir(t) \/ CreateFile(t) \/ CreateFails(t)
       \/ SetFile(t) \/ WriteFile(t)
  \/ \E l \in Logs : DestroyLog(l)
  \/ Tick
  \/ OthersOpen

-----------------------------------------------------------------------------
(* A trace that has missed one change of files is still written to a file  *)
(* of its log, never to a descriptor that was closed and is another's now; *)
(* and a log has no file open but its last two.                            *)
TraceHitsItsLog ==
  Alive =>
    /\ \A t \in Tracers :
         tracer[t].pc = "write" /\ tracer[t].missed <= 1 => fds[tracer[t].fd] = tracer[t].log
    /\ \A l \in Logs : {n \in Fds : fds[n] = l} = {file[l], last[l]} \ {-1}

(* What the source asserts (CMN_ASSERT(false) in check_log_file) and its   *)
(* code does not keep: a log can always go on in a new file.               *)
LogGoesOn == Alive
=============================================================================
