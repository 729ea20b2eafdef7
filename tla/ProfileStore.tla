---------------------------- MODULE ProfileStore ----------------------------
(***************************************************************************)
(* The connection profiles on the server: Profiles and SaveProfiles of     *)
(* system_handler.go over one file.  Requests are goroutines, a RWMutex    *)
(* keeps readers and a writer apart, and a save truncates the file before  *)
(* it writes it: what ends in between leaves a torn file.                  *)
(***************************************************************************)
CONSTANTS
  Handlers,     \* the requests the server may have at one time
  Nobody,       \* no writer
  Lists,        \* lists of profiles
  Defaults,     \* the list that stands for a missing file
  NoFile, Torn, \* what the file may be instead of a list
  Error         \* the reply 500

ASSUME StoreAssumption ==
  /\ Nobody \notin Handlers
  /\ Defaults \in Lists
  /\ NoFile # Torn
  /\ {NoFile, Torn, Error} \cap Lists = {}

VARIABLES
  file,         \* connections.json
  readers,      \* who holds the lock for reading
  writer,       \* who holds it for writing
  job,          \* each request: its place in the code, its list, its reply
  interrupted   \* history: the last write ended before its end

storeVars == <<file, readers, writer, job, interrupted>>

Places == {"idle", "waiting", "reading", "opening", "writing", "done"}

Job == [pc : Places, op : {"load", "save"}, list : Lists,
        reply : Lists \cup {Error}]

StoreTypeOK ==
  /\ file \in Lists \cup {NoFile, Torn}
  /\ readers \subseteq Handlers
  /\ writer \in Handlers \cup {Nobody}
  /\ job \in [Handlers -> Job]
  /\ interrupted \in BOOLEAN

StoreInit ==
  /\ file \in Lists \cup {NoFile}
  /\ readers = {}
  /\ writer = Nobody
  /\ job = [h \in Handlers |->
              [pc |-> "idle", op |-> "load", list |-> Defaults, reply |-> Error]]
  /\ interrupted = FALSE

-----------------------------------------------------------------------------
\* A request comes in.
Submit(h, op, list) ==
  /\ job[h].pc = "idle"
  /\ job' = [job EXCEPT ![h] = [pc |-> "waiting", op |-> op, list |-> list,
                                reply |-> Error]]
  /\ UNCHANGED <<file, readers, writer, interrupted>>

\* A slip: Profiles reads without RLock.
AcquireUnlocked(h) ==
  /\ job[h].pc = "waiting"
  /\ IF job[h].op = "load"
     THEN /\ readers' = readers \cup {h}
          /\ job' = [job EXCEPT ![h].pc = "reading"]
          /\ UNCHANGED writer
     ELSE /\ writer = Nobody
          /\ readers = {}
          /\ writer' = h
          /\ job' = [job EXCEPT ![h].pc = "opening"]
          /\ UNCHANGED readers
  /\ UNCHANGED <<file, interrupted>>

\* RLock, or Lock.
Acquire(h) ==
  /\ job[h].pc = "waiting"
  /\ writer = Nobody
  /\ IF job[h].op = "load"
     THEN /\ readers' = readers \cup {h}
          /\ job' = [job EXCEPT ![h].pc = "reading"]
          /\ UNCHANGED writer
     ELSE /\ readers = {}
          /\ writer' = h
          /\ job' = [job EXCEPT ![h].pc = "opening"]
          /\ UNCHANGED readers
  /\ UNCHANGED <<file, interrupted>>

\* A missing file stands for the defaults; a torn one does not parse.
Contents ==
  IF file = NoFile THEN Defaults ELSE IF file = Torn THEN Error ELSE file

Read(h) ==
  /\ job[h].pc = "reading"
  /\ job' = [job EXCEPT ![h].pc = "done", ![h].reply = Contents]
  /\ readers' = readers \ {h}
  /\ UNCHANGED <<file, writer, interrupted>>

\* os.WriteFile opens the file with O_TRUNC ...
Truncate(h) ==
  /\ job[h].pc = "opening"
  /\ file' = Torn
  /\ job' = [job EXCEPT ![h].pc = "writing"]
  /\ UNCHANGED <<readers, writer, interrupted>>

\* ... and writes it; the reply of a save that succeeds is its list.
WriteOut(h) ==
  /\ job[h].pc = "writing"
  /\ file' = job[h].list
  /\ job' = [job EXCEPT ![h].pc = "done", ![h].reply = job[h].list]
  /\ writer' = Nobody
  /\ interrupted' = FALSE
  /\ UNCHANGED readers

\* The file cannot be opened, or not be written to the end.
WriteFails(h) ==
  /\ job[h].pc \in {"opening", "writing"}
  /\ job' = [job EXCEPT ![h].pc = "done", ![h].reply = Error]
  /\ writer' = Nobody
  /\ interrupted' = (interrupted \/ job[h].pc = "writing")
  /\ UNCHANGED <<file, readers>>

\* The server ends and is started again: the file stays, requests fail.
Crash ==
  /\ job' = [h \in Handlers |->
               IF job[h].pc = "idle" THEN job[h]
               ELSE [job[h] EXCEPT !.pc = "done", !.reply = Error]]
  /\ readers' = {}
  /\ writer' = Nobody
  /\ interrupted' = (file = Torn)
  /\ UNCHANGED file

\* The answer leaves.
Finish(h) ==
  /\ job[h].pc = "done"
  /\ job' = [job EXCEPT ![h].pc = "idle"]
  /\ UNCHANGED <<file, readers, writer, interrupted>>

Work(h) == Acquire(h) \/ Read(h) \/ Truncate(h) \/ WriteOut(h)

StoreNext ==
  \/ \E h \in Handlers :
       \/ \E op \in {"load", "save"}, list \in Lists : Submit(h, op, list)
       \/ Work(h)
       \/ WriteFails(h)
       \/ Finish(h)
  \/ Crash

StoreSpec == StoreInit /\ [][StoreNext]_storeVars

-----------------------------------------------------------------------------
\* Nobody reads a file that is being written: a list that cannot be loaded is
\* one whose last write did not come to its end.
LoadsAreWhole ==
  \A h \in Handlers : job[h].pc = "reading" /\ file = Torn => interrupted
=============================================================================
