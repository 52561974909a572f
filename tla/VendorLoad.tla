------------------------------ MODULE VendorLoad ------------------------------
(***************************************************************************)
(* load_sm75_backend (mixllm/sm75_backend.py): processes that share one    *)
(* installation unpack the vendored CUTLASS headers beside it when the     *)
(* .ready marker is missing or older than the archive, then let            *)
(* torch.utils.cpp_extension build and load the operator.                  *)
(*                                                                         *)
(* A process may die anywhere; what it wrote stays.  An archive is known   *)
(* by the order it was installed in, and a modification time by the newest *)
(* archive there was at that moment.                                       *)
(*                                                                         *)
(* torch is external: the first load() of a process takes a lock file or   *)
(* waits for it to disappear; the one with the lock runs ninja, which      *)
(* rebuilds what is older than the headers; then the library that is there *)
(* is loaded.  Whatever load() raises, load_sm75_backend runs ninja once   *)
(* more, without the lock, in the first build directory it finds, and      *)
(* raises.                                                                 *)
(***************************************************************************)
EXTENDS Naturals, FiniteSets

CONSTANTS
  Process,      \* processes that load the operator
  File,         \* the headers in the archive
  Limits,       \* how many loads may run at the same time
  MaxVersion,   \* bound: archives installed one after another
  MaxCrashes,   \* bound: processes that die
  None,         \* no marker, file, library or lock
  Torn,         \* a header or library opened for writing and not complete
  Abandoned     \* a lock file whose process died

Version == 1 .. MaxVersion

ASSUME BoundsAssumption ==
  MaxVersion \in Nat \ {0} /\ MaxCrashes \in Nat /\ IsFiniteSet(Process)
ASSUME FileAssumption == File # {} /\ None \notin File
ASSUME ValuesAssumption ==
  /\ None \notin Nat /\ Torn \notin Nat /\ None # Torn
  /\ None \notin Process /\ Abandoned \notin Process /\ None # Abandoned
  /\ {None, Torn} \cap [File -> Version] = {}

VARIABLES
  limit,    \* loads that may run at the same time in this installation
  blob,     \* the archive that is installed
  marker,   \* modification time of .ready
  tree,     \* the unpacked headers
  library,  \* the headers the built operator was compiled from
  dirty,    \* a header is newer than the library ninja last finished
  writer,   \* the process whose linker created the file of the library
  crashes,  \* processes that died so far
  lock,     \* the build lock of torch
  pc,       \* where each process is in load_sm75_backend
  payload,  \* the archive a process has read into memory
  todo,     \* files it has not unpacked
  at,       \* the file it has open for writing
  seen,     \* headers its compiler has read
  tried     \* torch has handled this extension in the process before

built == <<library, dirty, writer>>
disk  == <<blob, marker, tree, built>>
local == <<payload, todo, at, seen, tried>>
env   == <<limit, crashes>>
vars  == <<env, disk, lock, pc, local>>

AtRest    == {"out", "failed", "loaded"}
Unpacking == {"extract", "write", "mark"}
Ninja     == {"ninja", "compile", "save"}
Working   == {"check", "read", "acquire", "wait", "link", "diagnose"}
               \cup Unpacking \cup Ninja

Loading == {p \in Process : pc[p] \in Working}
Whole(t, v) == t = [f \in File |-> v]

Init ==
  /\ limit \in Limits
  /\ crashes = 0
  /\ blob = 1
  /\ marker = None
  /\ tree = [f \in File |-> None]
  /\ library = None
  /\ dirty = TRUE
  /\ writer = None
  /\ lock = None
  /\ pc = [p \in Process |-> "out"]
  /\ payload = [p \in Process |-> None]
  /\ todo = [p \in Process |-> {}]
  /\ at = [p \in Process |-> None]
  /\ seen = [p \in Process |-> <<>>]
  /\ tried = [p \in Process |-> FALSE]

Goto(p, place) == pc' = [pc EXCEPT ![p] = place]

(***************************************************************************)
(* The environment                                                         *)
(***************************************************************************)
\* A new archive replaces the old one while nothing is loading.
Publish ==
  /\ Loading = {}
  /\ blob < MaxVersion
  /\ blob' = blob + 1
  /\ UNCHANGED <<env, marker, tree, built, lock, pc, local>>

\* A process dies, whatever it was doing; the next one starts with nothing
\* loaded.
Crash(p) ==
  /\ pc[p] # "out"
  /\ crashes < MaxCrashes
  /\ crashes' = crashes + 1
  /\ Goto(p, "out")
  /\ lock' = IF lock = p THEN Abandoned ELSE lock
  /\ payload' = [payload EXCEPT ![p] = None]
  /\ todo' = [todo EXCEPT ![p] = {}]
  /\ at' = [at EXCEPT ![p] = None]
  /\ seen' = [seen EXCEPT ![p] = <<>>]
  /\ tried' = [tried EXCEPT ![p] = FALSE]
  /\ writer' = IF writer = p THEN None ELSE writer
  /\ UNCHANGED <<limit, blob, marker, tree, library, dirty>>

(***************************************************************************)
(* Unpacking                                                               *)
(***************************************************************************)
\* A call in a process that has not loaded the operator: the first, or one
\* after a call that raised.
Call(p) ==
  /\ pc[p] \in {"out", "failed"}
  /\ Cardinality(Loading) < limit
  /\ Goto(p, "check")
  /\ UNCHANGED <<env, disk, lock, local>>

Fresh == marker # None /\ marker >= blob

CheckThatItExists(p) ==
  /\ pc[p] = "check"
  /\ Goto(p, IF marker # None THEN "acquire" ELSE "read")
  /\ UNCHANGED <<env, disk, lock, local>>

Check(p) ==
  /\ pc[p] = "check"
  /\ Goto(p, IF Fresh THEN "acquire" ELSE "read")
  /\ UNCHANGED <<env, disk, lock, local>>

ReadAndMark(p) ==
  /\ pc[p] = "read"
  /\ marker' = blob
  /\ payload' = [payload EXCEPT ![p] = blob]
  /\ todo' = [todo EXCEPT ![p] = File]
  /\ Goto(p, "extract")
  /\ UNCHANGED <<env, blob, tree, built, lock, at, seen, tried>>

\* The archive is read and decoded at once.
Read(p) ==
  /\ pc[p] = "read"
  /\ payload' = [payload EXCEPT ![p] = blob]
  /\ todo' = [todo EXCEPT ![p] = File]
  /\ Goto(p, "extract")
  /\ UNCHANGED <<env, disk, lock, at, seen, tried>>

\* extractall opens each file for writing, which empties it, and fills it.
Open(p, f) ==
  /\ pc[p] = "extract"
  /\ f \in todo[p]
  /\ tree' = [tree EXCEPT ![f] = Torn]
  /\ dirty' = TRUE
  /\ todo' = [todo EXCEPT ![p] = @ \ {f}]
  /\ at' = [at EXCEPT ![p] = f]
  /\ Goto(p, "write")
  /\ UNCHANGED <<env, blob, marker, library, writer, lock, payload, seen, tried>>

\* A file that another process has emptied meanwhile has holes until that
\* process is done.
Close(p) ==
  /\ pc[p] = "write"
  /\ tree' = [tree EXCEPT ![at[p]] = IF \E q \in Process \ {p} : at[q] = at[p]
                                       THEN Torn ELSE payload[p]]
  /\ dirty' = TRUE
  /\ at' = [at EXCEPT ![p] = None]
  /\ Goto(p, IF todo[p] = {} THEN "mark" ELSE "extract")
  /\ UNCHANGED <<env, blob, marker, library, writer, lock, payload, todo, seen,
                 tried>>

\* A full disk, an unreadable archive or a build directory that cannot be made
\* raises, and leaves what was unpacked.
PrepareFails(p) ==
  /\ pc[p] \in {"read", "acquire"} \cup Unpacking
  /\ payload' = [payload EXCEPT ![p] = None]
  /\ todo' = [todo EXCEPT ![p] = {}]
  /\ at' = [at EXCEPT ![p] = None]
  /\ Goto(p, "failed")
  /\ UNCHANGED <<env, disk, lock, seen, tried>>

Mark(p) ==
  /\ pc[p] = "mark"
  /\ marker' = blob
  /\ payload' = [payload EXCEPT ![p] = None]
  /\ Goto(p, "acquire")
  /\ UNCHANGED <<env, blob, tree, built, lock, todo, at, seen, tried>>

(***************************************************************************)
(* torch.utils.cpp_extension.load                                          *)
(***************************************************************************)
\* Only the first call in a process looks at the lock: with it, it builds;
\* without, it waits and does not build afterwards.
Acquire(p) ==
  /\ pc[p] = "acquire"
  /\ \/ tried[p] /\ Goto(p, "link") /\ UNCHANGED lock
     \/ ~tried[p] /\ lock # None /\ Goto(p, "wait") /\ UNCHANGED lock
     \/ ~tried[p] /\ lock = None /\ Goto(p, "ninja") /\ lock' = p
  /\ tried' = [tried EXCEPT ![p] = TRUE]
  /\ UNCHANGED <<env, disk, payload, todo, at, seen>>

Wait(p) ==
  /\ pc[p] = "wait"
  /\ lock = None
  /\ Goto(p, "link")
  /\ UNCHANGED <<env, disk, lock, local>>

\* load() returns with a whole library.
Link(p) ==
  /\ pc[p] = "link"
  /\ library \notin {None, Torn}
  /\ Goto(p, "loaded")
  /\ UNCHANGED <<env, disk, lock, local>>

\* No library, half of one, or one that this process cannot load.
LinkFails(p) ==
  /\ pc[p] = "link"
  /\ Goto(p, "diagnose")
  /\ UNCHANGED <<env, disk, lock, local>>

\* The first build directory found is another's, or there is none or no ninja;
\* or it is the operator's, and ninja runs there whoever has the lock.
Diagnose(p) ==
  /\ pc[p] = "diagnose"
  /\ \E place \in {"failed", "ninja"} : Goto(p, place)
  /\ UNCHANGED <<env, disk, lock, local>>

(***************************************************************************)
(* ninja, with torch's lock (lock = p) or without it                       *)
(***************************************************************************)
\* The library is there: torch goes on to load it, the diagnosis raises.
Done(p) ==
  /\ seen' = [seen EXCEPT ![p] = <<>>]
  /\ IF lock = p THEN lock' = None /\ Goto(p, "link")
                 ELSE UNCHANGED lock /\ Goto(p, "failed")

NothingToDo(p) ==
  /\ pc[p] = "ninja"
  /\ ~dirty /\ library # None
  /\ Done(p)
  /\ UNCHANGED <<env, disk, payload, todo, at, tried>>

Rebuild(p) ==
  /\ pc[p] = "ninja"
  /\ dirty \/ library = None
  /\ Goto(p, "compile")
  /\ UNCHANGED <<env, disk, lock, local>>

\* The compiler reads the headers one after another; half of one may compile.
Compile(p, f) ==
  /\ pc[p] = "compile"
  /\ f \in File \ DOMAIN seen[p]
  /\ tree[f] # None
  /\ seen' = [seen EXCEPT ![p] = [g \in DOMAIN @ \cup {f} |->
                                    IF g = f THEN tree[f] ELSE @[g]]]
  /\ UNCHANGED <<env, disk, lock, pc, payload, todo, at, tried>>

\* The linker removes the library and creates a new file of that name, even
\* where another linker is still writing to the old one.
CreateLibrary(p) ==
  /\ pc[p] = "compile"
  /\ DOMAIN seen[p] = File
  /\ library' = Torn
  /\ writer' = p
  /\ Goto(p, "save")
  /\ UNCHANGED <<env, blob, marker, tree, dirty, lock, local>>

\* What a linker wrote counts if its file still has the name.
SaveLibrary(p) ==
  /\ pc[p] = "save"
  /\ IF writer = p THEN library' = seen[p] /\ writer' = None
                   ELSE UNCHANGED <<library, writer>>
  /\ dirty' = FALSE
  /\ Done(p)
  /\ UNCHANGED <<env, blob, marker, tree, payload, todo, at, tried>>

BuildFailsKeepingLock(p) ==
  /\ pc[p] \in Ninja
  /\ seen' = [seen EXCEPT ![p] = <<>>]
  /\ Goto(p, "failed")
  /\ UNCHANGED <<env, disk, lock, payload, todo, at, tried>>

\* A missing or incomplete header, or any other reason.  A linker that fails
\* removes the library by its name, unless it is killed; before that, the
\* library that was there stays.  torch releases its lock.
BuildFails(p) ==
  /\ pc[p] \in Ninja
  /\ \/ pc[p] = "save" /\ library' = None /\ writer' = None
     \/ UNCHANGED library /\ writer' = IF writer = p THEN None ELSE writer
  /\ seen' = [seen EXCEPT ![p] = <<>>]
  /\ IF lock = p THEN lock' = None /\ Goto(p, "diagnose")
                 ELSE UNCHANGED lock /\ Goto(p, "failed")
  /\ UNCHANGED <<env, blob, marker, tree, dirty, payload, todo, at, tried>>

Step(p) ==
  \/ Check(p) \/ Read(p) \/ Close(p) \/ Mark(p) \/ PrepareFails(p)
  \/ \E f \in File : Open(p, f) \/ Compile(p, f)
  \/ Acquire(p) \/ Wait(p) \/ Link(p) \/ LinkFails(p) \/ Diagnose(p)
  \/ NothingToDo(p) \/ Rebuild(p) \/ CreateLibrary(p) \/ SaveLibrary(p)
  \/ BuildFails(p)

Next ==
  \/ Publish
  \/ \E p \in Process : Call(p) \/ Crash(p) \/ Step(p)

\* A process that is scheduled and not waiting goes on.
Spec == Init /\ [][Next]_vars /\ \A p \in Process : WF_vars(Step(p))

(***************************************************************************)
(* Properties                                                              *)
(***************************************************************************)

\* With one load at a time, a marker that is up to date stands for the whole
\* current archive: no crash or error between two files leaves a marker that
\* says so of half an archive or of the previous one.
MarkedTreeWhole == limit = 1 /\ Fresh => Whole(tree, blob)

\* No header of an earlier archive is in the library.
NothingOlder(l) == l \notin {None, Torn} => \A f \in File : l[f] \in {blob, Torn}

\* However many loads overlap, die, fail or rebuild outside the lock, torch
\* never takes for up to date a library with a header of an earlier archive,
\* though it may find none or half of one, or one compiled from a header that
\* another process was rewriting.  With one load at a time, what it built or
\* found is the whole operator of the archive that is installed.
BuiltFromCurrent ==
  [][\A p \in Process :
       pc[p] \in Ninja /\ pc'[p] = "link" =>
         /\ NothingOlder(library')
         /\ limit = 1 => Whole(library', blob)]_vars

\* Every call returns, raises or dies with its process, unless a process died
\* while it held the build lock.
CallEnds ==
  \A p \in Process :
    pc[p] \in Working ~> pc[p] \in AtRest \/ lock = Abandoned
===============================================================================
