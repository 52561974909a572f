--------------------------- MODULE VendorLoad_proofs ---------------------------
(***************************************************************************)
(* What the installation directory holds while any number of processes     *)
(* unpack, build, fail and die: a marker that is up to date means that     *)
(* every header is the current one or is being rewritten, so whatever a    *)
(* compiler reads is no older, and neither is a library that is not older  *)
(* than the headers.  Where loads run one at a time, nothing is half       *)
(* written when it is used.                                                *)
(***************************************************************************)
EXTENDS VendorLoad, FiniteSetTheorems, TLAPS

Past == {"acquire", "wait", "link", "diagnose"} \cup Ninja

Types ==
  /\ blob \in Version
  /\ marker \in Nat \cup {None}
  /\ marker # None => marker <= blob
  /\ tree \in [File -> Nat \cup {None, Torn}]
  /\ pc \in [Process -> AtRest \cup Working]
  /\ payload \in [Process -> Nat \cup {None}]
  /\ todo \in [Process -> SUBSET File]
  /\ at \in [Process -> File \cup {None}]
  /\ DOMAIN seen = Process

\* A library that counts as up to date has no header of an earlier archive.
LibraryCurrent == dirty \/ NothingOlder(library)

\* What a process has unpacked so far is current, or open in another process.
Unpacked(p) ==
  /\ payload[p] = blob
  /\ \A f \in File \ todo[p] : tree[f] \in {blob, Torn}
  /\ todo[p] # File => LibraryCurrent

UnpackingInv ==
  \A p \in Process :
    /\ pc[p] \in Unpacking => Unpacked(p)
    /\ pc[p] = "write" => at[p] \in File \ todo[p]
    /\ pc[p] # "write" => at[p] = None
    /\ pc[p] = "mark" => todo[p] = {}

FreshInv ==
  Fresh => LibraryCurrent /\ \A f \in File : tree[f] \in {blob, Torn}

PastInv == \A p \in Process : pc[p] \in Past => Fresh

\* What a compiler has read is current or was being rewritten; once a linker
\* has removed the library, nothing older comes back.
NinjaAt(p) ==
  /\ pc[p] \in Ninja => \A f \in DOMAIN seen[p] : seen[p][f] \in {blob, Torn}
  /\ pc[p] = "save" => DOMAIN seen[p] = File /\ NothingOlder(library)
  /\ pc[p] \notin Ninja => seen[p] = <<>>

NinjaInv == \A p \in Process : NinjaAt(p)

Inv == Types /\ UnpackingInv /\ FreshInv /\ PastInv /\ NinjaInv

LEMMA InvInit == Init => Inv
<1> SUFFICES ASSUME Init PROVE Inv
  OBVIOUS
<1>1. Types
  BY BoundsAssumption, ValuesAssumption DEF Init, Types, AtRest, Version
<1>2. UnpackingInv /\ PastInv /\ NinjaInv
  BY DEF Init, UnpackingInv, PastInv, NinjaInv, NinjaAt, Unpacking, Past, Ninja
<1>3. FreshInv
  BY DEF Init, FreshInv, Fresh
<1> QED
  BY <1>1, <1>2, <1>3 DEF Inv

\* A step of one process leaves what the other compilers have read.
LEMMA NinjaStep ==
  ASSUME NinjaInv, NEW p \in Process, blob' = blob,
         \A q \in Process \ {p} : pc'[q] = pc[q] /\ seen'[q] = seen[q],
         NothingOlder(library) => NothingOlder(library)',
         NinjaAt(p)'
  PROVE  NinjaInv'
<1> SUFFICES ASSUME NEW q \in Process PROVE NinjaAt(q)'
  BY DEF NinjaInv
<1>1. CASE q = p
  BY <1>1
<1>2. CASE q # p
  <2>1. pc'[q] = pc[q] /\ seen'[q] = seen[q]
    BY <1>2
  <2>2. NinjaAt(q)
    BY DEF NinjaInv
  <2> QED
    BY <2>1, <2>2 DEF NinjaAt
<1> QED
  BY <1>1, <1>2

\* Steps that change no header leave a process where the invariant lets it be.
LEMMA InvMove ==
  ASSUME Inv, NEW p \in Process, NEW place \in AtRest \cup Working,
         Goto(p, place), UNCHANGED <<blob, marker, tree>>,
         LibraryCurrent => LibraryCurrent',
         NothingOlder(library) => NothingOlder(library)',
         payload' \in [Process -> Nat \cup {None}],
         todo' \in [Process -> SUBSET File],
         at' \in [Process -> File \cup {None}],
         DOMAIN seen' = Process,
         \A q \in Process \ {p} : /\ payload'[q] = payload[q]
                                  /\ todo'[q] = todo[q]
                                  /\ at'[q] = at[q]
                                  /\ seen'[q] = seen[q],
         place \in Unpacking => place = "extract" /\ Unpacked(p)',
         at'[p] = None,
         place \in Past => Fresh,
         NinjaAt(p)'
  PROVE  Inv'
<1> USE DEF Inv
<1>1. Types'
  BY DEF Types, Goto
<1>2. /\ pc'[p] = place
      /\ \A q \in Process \ {p} : pc'[q] = pc[q]
  BY DEF Types, Goto
<1>3. Fresh' = Fresh
  BY DEF Fresh
<1>4. UnpackingInv'
  <2> SUFFICES ASSUME NEW q \in Process
               PROVE  /\ pc'[q] \in Unpacking => Unpacked(q)'
                      /\ pc'[q] = "write" => at'[q] \in File \ todo'[q]
                      /\ pc'[q] # "write" => at'[q] = None
                      /\ pc'[q] = "mark" => todo'[q] = {}
    BY DEF UnpackingInv
  <2>1. CASE q = p
    BY <1>2, <2>1 DEF Unpacking
  <2>2. CASE q # p
    BY <1>2, <2>2 DEF UnpackingInv, Unpacked
  <2> QED
    BY <2>1, <2>2
<1>5. FreshInv'
  BY <1>3 DEF FreshInv
<1>6. PastInv'
  BY <1>2, <1>3 DEF PastInv
<1>7. NinjaInv'
  BY <1>2, NinjaStep
<1> QED
  BY <1>1, <1>4, <1>5, <1>6, <1>7

\* The same for the steps that change no file and open nothing, and leave the
\* process outside ninja or in the same part of it.
LEMMA InvWalk ==
  ASSUME Inv, NEW p \in Process, NEW place \in AtRest \cup Working,
         Goto(p, place), UNCHANGED <<disk, payload, todo, at, seen>>,
         pc[p] # "write", place \notin Unpacking,
         place \in Past => Fresh,
         place \in Ninja => place # "save" /\ (pc[p] \in Ninja \/ seen[p] = <<>>),
         place \notin Ninja => pc[p] \notin Ninja
  PROVE  Inv'
<1>1. pc'[p] = place /\ at[p] = None /\ NinjaAt(p)
  BY DEF Inv, Types, Goto, UnpackingInv, NinjaInv
<1>2. UNCHANGED <<blob, marker, tree, library, dirty>>
  BY DEF disk, built
<1>3. /\ LibraryCurrent => LibraryCurrent'
      /\ NothingOlder(library) => NothingOlder(library)'
  BY <1>2 DEF LibraryCurrent, NothingOlder
<1>4. NinjaAt(p)'
  <2>1. pc'[p] # "save" /\ seen' = seen /\ blob' = blob
    BY <1>1 DEF disk, Ninja
  <2>2. CASE place \in Ninja
    <3>1. \A f \in DOMAIN seen[p] : seen[p][f] \in {blob, Torn}
      BY <1>1, <2>2 DEF NinjaAt
    <3> QED
      BY <1>1, <2>1, <2>2, <3>1 DEF NinjaAt
  <2>3. CASE place \notin Ninja
    BY <1>1, <2>1, <2>3 DEF NinjaAt
  <2> QED
    BY <2>2, <2>3
<1>5. UNCHANGED <<payload, todo, at, seen>>
  OBVIOUS
<1>6. /\ payload' \in [Process -> Nat \cup {None}]
      /\ todo' \in [Process -> SUBSET File]
      /\ at' \in [Process -> File \cup {None}]
      /\ DOMAIN seen' = Process
  BY <1>5 DEF Inv, Types
<1> QED
  BY <1>1, <1>2, <1>3, <1>4, <1>5, <1>6, InvMove

\* The same for the end of ninja.
LEMMA InvStop ==
  ASSUME Inv, NEW p \in Process, NEW place \in {"link", "diagnose", "failed"},
         pc[p] \in Ninja, Goto(p, place),
         seen' = [seen EXCEPT ![p] = <<>>],
         UNCHANGED <<blob, marker, tree, payload, todo, at>>,
         LibraryCurrent => LibraryCurrent',
         NothingOlder(library) => NothingOlder(library)'
  PROVE  Inv'
<1>1. pc'[p] = place /\ at'[p] = None /\ Fresh
  BY DEF Inv, Types, Goto, UnpackingInv, PastInv, Past, Ninja
<1>2. /\ place \in AtRest \cup Working
      /\ place \notin Unpacking /\ place \notin Ninja
  BY DEF AtRest, Working, Unpacking, Ninja
<1>3. /\ seen'[p] = <<>> /\ DOMAIN seen' = Process
      /\ \A q \in Process \ {p} : seen'[q] = seen[q]
  BY DEF Inv, Types
<1>4. NinjaAt(p)'
  BY <1>1, <1>2, <1>3 DEF NinjaAt, Ninja
<1>5. /\ payload' \in [Process -> Nat \cup {None}]
      /\ todo' \in [Process -> SUBSET File]
      /\ at' \in [Process -> File \cup {None}]
  BY DEF Inv, Types
<1> QED
  BY <1>1, <1>2, <1>3, <1>4, <1>5, InvMove

LEMMA PublishStep == ASSUME Inv, Publish PROVE Inv'
<1> USE DEF Inv
<1>1. ~Fresh'
  BY BoundsAssumption, ValuesAssumption DEF Publish, Fresh, Types, Version
<1>2. \A p \in Process : pc[p] \notin Working /\ pc'[p] = pc[p]
  BY DEF Publish, Loading
<1>3. Types'
  BY BoundsAssumption, ValuesAssumption DEF Publish, Types, Version, local
<1>4. UNCHANGED <<pc, at, seen>>
  BY DEF Publish, local
<1>5. UnpackingInv' /\ PastInv'
  BY <1>2, <1>4 DEF UnpackingInv, PastInv, Working, Unpacking, Past
<1>6. NinjaInv'
  BY <1>2, <1>4 DEF NinjaInv, NinjaAt, Working, Ninja
<1> QED
  BY <1>1, <1>3, <1>5, <1>6 DEF FreshInv

LEMMA CrashStep == ASSUME Inv, NEW p \in Process, Crash(p) PROVE Inv'
<1>1. /\ Goto(p, "out") /\ UNCHANGED <<blob, marker, tree, library, dirty>>
      /\ at'[p] = None /\ seen'[p] = <<>> /\ pc'[p] = "out"
  BY DEF Crash, Goto, Inv, Types
<1>2. NinjaAt(p)'
  BY <1>1 DEF NinjaAt, Ninja
<1>3. /\ LibraryCurrent => LibraryCurrent'
      /\ NothingOlder(library) => NothingOlder(library)'
  BY <1>1 DEF LibraryCurrent, NothingOlder
<1>4. /\ payload' \in [Process -> Nat \cup {None}]
      /\ todo' \in [Process -> SUBSET File]
      /\ at' \in [Process -> File \cup {None}]
      /\ DOMAIN seen' = Process
      /\ \A q \in Process \ {p} : /\ payload'[q] = payload[q]
                                  /\ todo'[q] = todo[q]
                                  /\ at'[q] = at[q]
                                  /\ seen'[q] = seen[q]
  BY DEF Crash, Inv, Types
<1>5. "out" \in AtRest /\ "out" \notin Unpacking /\ "out" \notin Past
  BY DEF AtRest, Unpacking, Past, Ninja
<1> QED
  BY <1>1, <1>2, <1>3, <1>4, <1>5, InvMove

LEMMA CallStep == ASSUME Inv, NEW p \in Process, Call(p) PROVE Inv'
<1>1. Goto(p, "check") /\ UNCHANGED <<disk, payload, todo, at, seen>>
  BY DEF Call, local
<1>2. "check" \in Working /\ "check" \notin Unpacking \cup Past \cup Ninja
  BY DEF Working, Unpacking, Past, Ninja
<1>3. pc[p] # "write" /\ pc[p] \notin Ninja
  BY DEF Call, Ninja
<1> QED
  BY <1>1, <1>2, <1>3, InvWalk

LEMMA CheckStep == ASSUME Inv, NEW p \in Process, Check(p) PROVE Inv'
<1> DEFINE place == IF Fresh THEN "acquire" ELSE "read"
<1>1. Goto(p, place) /\ UNCHANGED <<disk, payload, todo, at, seen>>
  BY DEF Check, local
<1>2. /\ place \in Working /\ place \notin Unpacking \cup Ninja
      /\ place \in Past => Fresh
  BY DEF Working, Unpacking, Past, Ninja
<1>3. pc[p] # "write" /\ pc[p] \notin Ninja
  BY DEF Check, Ninja
<1> HIDE DEF place
<1> QED
  BY <1>1, <1>2, <1>3, InvWalk

LEMMA ReadStep == ASSUME Inv, NEW p \in Process, Read(p) PROVE Inv'
<1>1. /\ Goto(p, "extract") /\ UNCHANGED <<disk, at, seen>>
      /\ pc[p] = "read" /\ pc'[p] = "extract"
  BY DEF Read, Goto, Inv, Types
<1>2. UNCHANGED <<blob, marker, tree, library, dirty>>
  BY <1>1 DEF disk, built
<1>3. /\ LibraryCurrent => LibraryCurrent'
      /\ NothingOlder(library) => NothingOlder(library)'
  BY <1>2 DEF LibraryCurrent, NothingOlder
<1>4. /\ payload' \in [Process -> Nat \cup {None}]
      /\ todo' \in [Process -> SUBSET File]
      /\ payload'[p] = blob /\ todo'[p] = File
      /\ \A q \in Process \ {p} : payload'[q] = payload[q] /\ todo'[q] = todo[q]
  BY DEF Read, Inv, Types, Version
<1>5. Unpacked(p)'
  BY <1>2, <1>4 DEF Unpacked
<1>6. at'[p] = None /\ at' \in [Process -> File \cup {None}]
  BY <1>1 DEF Inv, Types, UnpackingInv
<1>7. NinjaAt(p)'
  BY <1>1 DEF Inv, NinjaInv, NinjaAt, Ninja
<1>8. "extract" \in Working /\ "extract" \notin Past
  BY DEF Working, Unpacking, Past, Ninja
<1>9. DOMAIN seen' = Process /\ \A q \in Process : at'[q] = at[q] /\ seen'[q] = seen[q]
  BY <1>1 DEF Inv, Types
<1> QED
  BY <1>1, <1>2, <1>3, <1>4, <1>5, <1>6, <1>7, <1>8, <1>9, InvMove

LEMMA PrepareFailsStep ==
  ASSUME Inv, NEW p \in Process, PrepareFails(p) PROVE Inv'
<1>1. /\ Goto(p, "failed") /\ UNCHANGED <<disk, seen>>
      /\ pc'[p] = "failed" /\ at'[p] = None /\ pc[p] \notin Ninja
  BY DEF PrepareFails, Goto, Inv, Types, Ninja, Unpacking
<1>2. UNCHANGED <<blob, marker, tree, library, dirty>>
  BY <1>1 DEF disk, built
<1>3. /\ LibraryCurrent => LibraryCurrent'
      /\ NothingOlder(library) => NothingOlder(library)'
  BY <1>2 DEF LibraryCurrent, NothingOlder
<1>4. /\ payload' \in [Process -> Nat \cup {None}]
      /\ todo' \in [Process -> SUBSET File]
      /\ at' \in [Process -> File \cup {None}]
      /\ DOMAIN seen' = Process
      /\ \A q \in Process \ {p} : /\ payload'[q] = payload[q]
                                  /\ todo'[q] = todo[q]
                                  /\ at'[q] = at[q]
                                  /\ seen'[q] = seen[q]
  BY DEF PrepareFails, Inv, Types
<1>5. NinjaAt(p)'
  BY <1>1 DEF Inv, NinjaInv, NinjaAt, Ninja
<1>6. "failed" \in AtRest /\ "failed" \notin Unpacking /\ "failed" \notin Past
  BY DEF AtRest, Unpacking, Past, Ninja
<1> QED
  BY <1>1, <1>2, <1>3, <1>4, <1>5, <1>6, InvMove

LEMMA AcquireStep == ASSUME Inv, NEW p \in Process, Acquire(p) PROVE Inv'
<1>1. PICK place \in {"link", "wait", "ninja"} : Goto(p, place)
  BY DEF Acquire
<1>2. UNCHANGED <<disk, payload, todo, at, seen>> /\ pc[p] = "acquire"
  BY DEF Acquire
<1>3. Fresh /\ pc[p] \notin Ninja /\ seen[p] = <<>>
  BY <1>2 DEF Inv, PastInv, Past, NinjaInv, NinjaAt, Ninja
<1>4. place \in Working /\ place \notin Unpacking /\ place # "save"
  BY DEF Working, Unpacking, Ninja
<1> QED
  BY <1>1, <1>2, <1>3, <1>4, InvWalk

\* Waiting, loading the library and the way to the diagnosis move a process
\* that is past the check.
LEMMA WalkSteps ==
  ASSUME Inv, NEW p \in Process,
         Wait(p) \/ Link(p) \/ LinkFails(p) \/ Diagnose(p)
  PROVE  Inv'
<1>1. PICK place \in {"link", "loaded", "diagnose", "failed", "ninja"} :
        Goto(p, place)
  BY DEF Wait, Link, LinkFails, Diagnose
<1>2. /\ UNCHANGED <<disk, payload, todo, at, seen>>
      /\ pc[p] \in {"wait", "link", "diagnose"}
  BY DEF Wait, Link, LinkFails, Diagnose, local
<1>3. Fresh /\ pc[p] \notin Ninja /\ seen[p] = <<>>
  BY <1>2 DEF Inv, PastInv, Past, NinjaInv, NinjaAt, Ninja
<1>4. /\ place \in AtRest \cup Working /\ place \notin Unpacking
      /\ place # "save"
  BY DEF AtRest, Working, Unpacking, Ninja
<1> QED
  BY <1>1, <1>2, <1>3, <1>4, InvWalk

LEMMA RebuildStep == ASSUME Inv, NEW p \in Process, Rebuild(p) PROVE Inv'
<1>1. /\ Goto(p, "compile") /\ UNCHANGED <<disk, payload, todo, at, seen>>
      /\ pc[p] = "ninja"
  BY DEF Rebuild, local
<1>2. Fresh /\ pc[p] \in Ninja
  BY <1>1 DEF Inv, PastInv, Past, Ninja
<1>3. "compile" \in Working /\ "compile" \in Ninja /\ "compile" \notin Unpacking
  BY DEF Working, Unpacking, Ninja
<1> QED
  BY <1>1, <1>2, <1>3, InvWalk

LEMMA CompileStep ==
  ASSUME Inv, NEW p \in Process, NEW f \in File, Compile(p, f) PROVE Inv'
<1> USE DEF Inv, Compile
<1>1. tree[f] \in {blob, Torn}
  BY DEF PastInv, Past, Ninja, FreshInv
<1>2. /\ \A q \in Process \ {p} : seen'[q] = seen[q]
      /\ seen'[p] = [g \in DOMAIN seen[p] \cup {f} |->
                       IF g = f THEN tree[f] ELSE seen[p][g]]
      /\ DOMAIN seen' = Process
      /\ pc[p] = "compile" /\ pc' = pc
      /\ UNCHANGED <<blob, marker, tree, library, dirty, payload, todo, at>>
  BY DEF Types, disk, built
<1>3. \A g \in DOMAIN seen[p] : seen[p][g] \in {blob, Torn}
  BY DEF NinjaInv, NinjaAt, Ninja
<1>4. \A g \in DOMAIN seen'[p] : seen'[p][g] \in {blob, Torn}
  BY <1>1, <1>2, <1>3
<1>5. NinjaAt(p)'
  BY <1>2, <1>4 DEF NinjaAt, Ninja
<1>6. Types' /\ UnpackingInv' /\ FreshInv' /\ PastInv'
  BY <1>2 DEF Types, UnpackingInv, Unpacked, FreshInv, Fresh, LibraryCurrent,
              NothingOlder, PastInv
<1>7. NinjaInv'
  BY <1>2, <1>5, NinjaStep DEF NothingOlder
<1> QED
  BY <1>6, <1>7

LEMMA CreateLibraryStep ==
  ASSUME Inv, NEW p \in Process, CreateLibrary(p) PROVE Inv'
<1>1. /\ Goto(p, "save") /\ pc[p] = "compile" /\ pc'[p] = "save"
      /\ DOMAIN seen[p] = File /\ library' = Torn
      /\ UNCHANGED <<blob, marker, tree, dirty, payload, todo, at, seen>>
  BY DEF CreateLibrary, local, Goto, Inv, Types
<1>2. NothingOlder(library)' /\ LibraryCurrent'
  BY <1>1 DEF NothingOlder, LibraryCurrent
<1>3. NinjaAt(p)'
  BY <1>1, <1>2 DEF Inv, NinjaInv, NinjaAt, Ninja
<1>4. "save" \in Working /\ "save" \notin Unpacking /\ Fresh /\ at'[p] = None
  BY <1>1 DEF Working, Unpacking, Ninja, Inv, PastInv, Past, UnpackingInv
<1>5. /\ payload' \in [Process -> Nat \cup {None}]
      /\ todo' \in [Process -> SUBSET File]
      /\ at' \in [Process -> File \cup {None}]
      /\ DOMAIN seen' = Process
  BY <1>1 DEF Inv, Types
<1> QED
  BY <1>1, <1>2, <1>3, <1>4, <1>5, InvMove

LEMMA BuildFailsStep ==
  ASSUME Inv, NEW p \in Process, BuildFails(p) PROVE Inv'
<1>1. PICK place \in {"diagnose", "failed"} : Goto(p, place)
  BY DEF BuildFails
<1>2. /\ library' \in {library, None}
      /\ UNCHANGED <<blob, marker, tree, dirty, payload, todo, at>>
      /\ seen' = [seen EXCEPT ![p] = <<>>] /\ pc[p] \in Ninja
  BY DEF BuildFails
<1>3. /\ LibraryCurrent => LibraryCurrent'
      /\ NothingOlder(library) => NothingOlder(library)'
  BY <1>2 DEF LibraryCurrent, NothingOlder
<1> QED
  BY <1>1, <1>2, <1>3, InvStop

\* What ninja leaves when it ends well has nothing of an earlier archive.
LEMMA DoneCurrent ==
  ASSUME Inv, NEW p \in Process, NothingToDo(p) \/ SaveLibrary(p)
  PROVE  NothingOlder(library')
<1>1. CASE NothingToDo(p)
  <2>1. Fresh /\ ~dirty /\ library' = library
    BY <1>1 DEF NothingToDo, Inv, PastInv, Past, Ninja, disk, built
  <2> QED
    BY <2>1 DEF Inv, FreshInv, LibraryCurrent
<1>2. CASE SaveLibrary(p)
  <2>1. library' \in {library, seen[p]} /\ pc[p] = "save"
    BY <1>2 DEF SaveLibrary
  <2>2. NothingOlder(library) /\ NothingOlder(seen[p])
    BY <2>1 DEF Inv, NinjaInv, NinjaAt, NothingOlder, Ninja
  <2> QED
    BY <2>1, <2>2
<1> QED
  BY <1>1, <1>2

LEMMA DoneStep ==
  ASSUME Inv, NEW p \in Process, NothingToDo(p) \/ SaveLibrary(p) PROVE Inv'
<1>1. PICK place \in {"link", "failed"} : Goto(p, place)
  BY DEF NothingToDo, SaveLibrary, Done
<1>2. /\ UNCHANGED <<blob, marker, tree, payload, todo, at>>
      /\ seen' = [seen EXCEPT ![p] = <<>>] /\ pc[p] \in Ninja
  BY DEF NothingToDo, SaveLibrary, Done, disk, Ninja
<1>3. NothingOlder(library)' /\ LibraryCurrent'
  BY <1>2, DoneCurrent DEF LibraryCurrent, NothingOlder
<1> QED
  BY <1>1, <1>2, <1>3, InvStop

LEMMA OpenStep ==
  ASSUME Inv, NEW p \in Process, NEW f \in File, Open(p, f) PROVE Inv'
<1> USE DEF Inv
<1>1. /\ pc[p] = "extract" /\ pc'[p] = "write"
      /\ \A q \in Process \ {p} : pc'[q] = pc[q]
      /\ at'[p] = f /\ todo'[p] = todo[p] \ {f}
      /\ \A q \in Process \ {p} : at'[q] = at[q] /\ todo'[q] = todo[q]
      /\ tree'[f] = Torn
      /\ \A g \in File \ {f} : tree'[g] = tree[g]
      /\ dirty' = TRUE
      /\ UNCHANGED <<blob, marker, library, payload, seen>>
  BY DEF Open, Goto, Types
<1>2. Types'
  BY <1>1 DEF Open, Types, Goto, Working, Unpacking
<1>3. LibraryCurrent' /\ Fresh' = Fresh
  BY <1>1 DEF LibraryCurrent, Fresh
<1>4. UnpackingInv'
  <2> SUFFICES ASSUME NEW q \in Process
               PROVE  /\ pc'[q] \in Unpacking => Unpacked(q)'
                      /\ pc'[q] = "write" => at'[q] \in File \ todo'[q]
                      /\ pc'[q] # "write" => at'[q] = None
                      /\ pc'[q] = "mark" => todo'[q] = {}
    BY DEF UnpackingInv
  <2>1. CASE q = p
    BY <1>1, <1>3, <2>1 DEF UnpackingInv, Unpacked, Unpacking
  <2>2. CASE q # p
    BY <1>1, <1>3, <2>2 DEF UnpackingInv, Unpacked, Unpacking
  <2> QED
    BY <2>1, <2>2
<1>5. FreshInv'
  BY <1>1, <1>3 DEF FreshInv
<1>6. PastInv'
  BY <1>1, <1>3 DEF PastInv, Past, Ninja
<1>7. NinjaAt(p)' /\ (NothingOlder(library) => NothingOlder(library)')
  BY <1>1 DEF NinjaInv, NinjaAt, Ninja, NothingOlder
<1>8. NinjaInv'
  BY <1>1, <1>7, NinjaStep
<1> QED
  BY <1>2, <1>4, <1>5, <1>6, <1>8

LEMMA CloseStep == ASSUME Inv, NEW p \in Process, Close(p) PROVE Inv'
<1> USE DEF Inv
<1>1. /\ pc[p] = "write" /\ pc'[p] = IF todo[p] = {} THEN "mark" ELSE "extract"
      /\ \A q \in Process \ {p} : pc'[q] = pc[q] /\ at'[q] = at[q]
      /\ at[p] \in File /\ at'[p] = None
      /\ dirty' = TRUE
      /\ UNCHANGED <<blob, marker, library, payload, todo, seen>>
  BY DEF Close, Goto, Types, UnpackingInv, Unpacking
<1>2. \A g \in File : tree'[g] \in {tree[g], blob, Torn}
  BY DEF Close, Types, UnpackingInv, Unpacked, Unpacking
<1>3. LibraryCurrent' /\ Fresh' = Fresh
  BY <1>1 DEF LibraryCurrent, Fresh
<1>4. Types'
  <2>1. tree' \in [File -> Nat \cup {None, Torn}]
    BY DEF Close, Types
  <2>2. at' \in [Process -> File \cup {None}]
    BY DEF Close, Types
  <2>3. pc' \in [Process -> AtRest \cup Working]
    BY DEF Close, Types, Goto, Working, Unpacking
  <2> QED
    BY <1>1, <2>1, <2>2, <2>3 DEF Types
<1>5. UnpackingInv'
  <2> SUFFICES ASSUME NEW q \in Process
               PROVE  /\ pc'[q] \in Unpacking => Unpacked(q)'
                      /\ pc'[q] = "write" => at'[q] \in File \ todo'[q]
                      /\ pc'[q] # "write" => at'[q] = None
                      /\ pc'[q] = "mark" => todo'[q] = {}
    BY DEF UnpackingInv
  <2>1. CASE q = p
    BY <1>1, <1>2, <1>3, <2>1 DEF UnpackingInv, Unpacked, Unpacking
  <2>2. CASE q # p
    BY <1>1, <1>2, <1>3, <2>2 DEF UnpackingInv, Unpacked, Unpacking
  <2> QED
    BY <2>1, <2>2
<1>6. FreshInv'
  BY <1>1, <1>2, <1>3 DEF FreshInv
<1>7. PastInv'
  BY <1>1, <1>3 DEF PastInv, Past, Ninja
<1>8. NinjaAt(p)' /\ (NothingOlder(library) => NothingOlder(library)')
  BY <1>1 DEF NinjaInv, NinjaAt, Ninja, NothingOlder
<1>9. NinjaInv'
  BY <1>1, <1>8, NinjaStep
<1> QED
  BY <1>4, <1>5, <1>6, <1>7, <1>9

LEMMA MarkStep == ASSUME Inv, NEW p \in Process, Mark(p) PROVE Inv'
<1> USE DEF Inv
<1>1. /\ pc[p] = "mark" /\ pc'[p] = "acquire"
      /\ \A q \in Process \ {p} : pc'[q] = pc[q] /\ payload'[q] = payload[q]
      /\ todo[p] = {} /\ at[p] = None
      /\ marker' = blob
      /\ UNCHANGED <<blob, tree, library, dirty, todo, at, seen>>
  BY DEF Mark, built, Goto, Types, UnpackingInv
<1>2. Types'
  BY <1>1 DEF Mark, Types, Goto, Working, Version
<1>3. /\ LibraryCurrent' = LibraryCurrent
      /\ NothingOlder(library) => NothingOlder(library)'
  BY <1>1 DEF LibraryCurrent, NothingOlder
<1>4. Fresh'
  BY <1>1, ValuesAssumption, BoundsAssumption DEF Fresh, Types, Version
<1>5. UnpackingInv'
  BY <1>1, <1>3 DEF UnpackingInv, Unpacked, Unpacking
<1>6. FreshInv'
  <2>1. Unpacked(p) /\ todo[p] # File
    BY <1>1, FileAssumption DEF UnpackingInv, Unpacking
  <2> QED
    BY <1>1, <1>3, <2>1 DEF FreshInv, Unpacked
<1>7. PastInv'
  BY <1>4 DEF PastInv
<1>8. NinjaAt(p)'
  BY <1>1 DEF NinjaInv, NinjaAt, Ninja
<1>9. NinjaInv'
  BY <1>1, <1>3, <1>8, NinjaStep
<1> QED
  BY <1>2, <1>5, <1>6, <1>7, <1>9

LEMMA InvNext == Inv /\ [Next]_vars => Inv'
<1> SUFFICES ASSUME Inv, [Next]_vars PROVE Inv'
  OBVIOUS
<1>1. CASE Publish
  BY <1>1, PublishStep
<1>2. ASSUME NEW p \in Process, Call(p) \/ Crash(p) PROVE Inv'
  BY <1>2, CallStep, CrashStep
<1>3. ASSUME NEW p \in Process, Step(p) PROVE Inv'
  BY <1>3, CheckStep, ReadStep, OpenStep, CloseStep, MarkStep,
     PrepareFailsStep, AcquireStep, WalkSteps, RebuildStep, CompileStep,
     CreateLibraryStep, DoneStep, BuildFailsStep DEF Step
<1>4. CASE UNCHANGED vars
  <2>1. UNCHANGED <<blob, marker, tree, library, dirty, pc, payload, todo, at, seen>>
    BY <1>4 DEF vars, disk, built, local
  <2>2. Types' /\ UnpackingInv' /\ FreshInv' /\ PastInv'
    BY <2>1 DEF Inv, Types, UnpackingInv, Unpacked, FreshInv, Fresh,
                LibraryCurrent, NothingOlder, PastInv
  <2>3. NinjaInv'
    BY <2>1, Zenon DEF Inv, NinjaInv, NinjaAt, NothingOlder
  <2> QED
    BY <2>2, <2>3 DEF Inv
<1> QED
  BY <1>1, <1>2, <1>3, <1>4 DEF Next

LEMMA Invariance == Spec => []Inv
  BY InvInit, InvNext, PTL DEF Spec

\* A process goes from ninja to the library only when ninja ended well.
LEMMA OnlyDone ==
  ASSUME Types, NEW p \in Process, pc[p] \in Ninja, pc'[p] = "link", Next
  PROVE  NothingToDo(p) \/ SaveLibrary(p)
<1>0. pc \in [Process -> AtRest \cup Working]
  BY DEF Types
<1>1. ~Publish
  BY DEF Publish, Ninja
<1>2. ASSUME NEW q \in Process, Call(q) \/ Crash(q) \/ Step(q),
             ~(NothingToDo(p) \/ SaveLibrary(p))
      PROVE  FALSE
  <2>1. CASE Call(q) \/ Crash(q) \/ Check(q) \/ Read(q) \/ Close(q) \/ Mark(q)
    BY <1>0, <2>1 DEF Goto, Call, Crash, Check, Read, Close, Mark, Ninja
  <2>2. CASE \E f \in File : Open(q, f) \/ Compile(q, f)
    BY <1>0, <2>2 DEF Goto, Open, Compile, Ninja
  <2>3. CASE PrepareFails(q) \/ Acquire(q) \/ Wait(q) \/ Link(q) \/ LinkFails(q)
    BY <1>0, <2>3 DEF Goto, PrepareFails, Acquire, Wait, Link, LinkFails,
                      Unpacking, Ninja
  <2>4. CASE Diagnose(q) \/ Rebuild(q) \/ CreateLibrary(q) \/ BuildFails(q)
    BY <1>0, <2>4 DEF Goto, Diagnose, Rebuild, CreateLibrary, BuildFails, Ninja
  <2>5. CASE NothingToDo(q) \/ SaveLibrary(q)
    BY <1>0, <1>2, <2>5 DEF Goto, Done, NothingToDo, SaveLibrary, Ninja
  <2> QED
    BY <1>2, <2>1, <2>2, <2>3, <2>4, <2>5 DEF Step
<1> QED
  BY <1>1, <1>2 DEF Next

(***************************************************************************)
(* Where loads run one at a time.                                          *)
(***************************************************************************)
Alone == \A p, q \in Process : pc[p] \in Working /\ pc[q] \in Working => p = q

\* While a process unpacks, the marker is out of date, and what it has
\* finished is current.
GuardedAt(p) ==
  pc[p] \in {"read"} \cup Unpacking =>
    /\ ~Fresh
    /\ pc[p] # "read" =>
         \A f \in File \ todo[p] :
           tree[f] = blob \/ (pc[p] = "write" /\ at[p] = f)

MarkedWhole == Fresh => \A f \in File : tree[f] = blob

\* A library that counts as up to date is the current one.
LibraryWhole == Fresh => dirty \/ Whole(library, blob)

\* From the first header unpacked on, the library counts as out of date, and
\* it does until the linker is done with a new one; what a compiler has read
\* is current, and no other linker has taken the library's name.
BuildsAt(p) ==
  /\ pc[p] \in Unpacking /\ todo[p] # File => dirty
  /\ pc[p] \in {"compile", "save"} => dirty
  /\ pc[p] \in Ninja => seen[p] = [f \in DOMAIN seen[p] |-> blob]
  /\ pc[p] = "save" => writer = p

Solo ==
  limit = 1 =>
    /\ Alone
    /\ \A p \in Process : GuardedAt(p) /\ BuildsAt(p)
    /\ MarkedWhole
    /\ LibraryWhole

LEMMA SoloInit == Init => Solo
  BY DEF Init, Solo, Alone, GuardedAt, BuildsAt, MarkedWhole, LibraryWhole,
         Fresh, Working, Unpacking, Ninja

\* A step of the process that is alone is right if what it does to itself is.
LEMMA AloneStep ==
  ASSUME Inv, Solo, limit = 1, NEW p \in Process, pc[p] \in Working,
         \A q \in Process \ {p} : pc'[q] = pc[q],
         GuardedAt(p)', BuildsAt(p)', MarkedWhole', LibraryWhole'
  PROVE  Solo'
<1>1. \A q \in Process \ {p} : pc'[q] \notin Working
  BY DEF Solo, Alone
<1>2. Alone'
  BY <1>1 DEF Alone
<1>3. ASSUME NEW q \in Process PROVE GuardedAt(q)' /\ BuildsAt(q)'
  <2>1. CASE q = p
    BY <2>1
  <2>2. CASE q # p
    BY <1>1, <2>2 DEF GuardedAt, BuildsAt, Working, Unpacking, Ninja
  <2> QED
    BY <2>1, <2>2
<1> QED
  BY <1>2, <1>3 DEF Solo

\* The steps that change no file, no list of files and nothing of ninja.
LEMMA SoloWalk ==
  ASSUME Inv, Solo, limit = 1, NEW p \in Process,
         NEW place \in AtRest \cup Working,
         pc[p] \in Working, Goto(p, place), UNCHANGED disk,
         place \in {"read"} => ~Fresh,
         place \notin Unpacking,
         place = "compile" => dirty,
         place # "save",
         place \in Ninja => seen' = seen /\ seen[p] = [f \in DOMAIN seen[p] |-> blob]
  PROVE  Solo'
<1>1. pc'[p] = place /\ \A q \in Process \ {p} : pc'[q] = pc[q]
  BY DEF Goto, Inv, Types
<1>2. UNCHANGED <<blob, marker, tree, library, dirty, writer>>
  BY DEF disk, built
<1>3. Fresh' = Fresh
  BY <1>2 DEF Fresh
<1>4. GuardedAt(p)'
  BY <1>1, <1>3 DEF GuardedAt
<1>5. BuildsAt(p)'
  BY <1>1, <1>2 DEF BuildsAt
<1>6. MarkedWhole' /\ LibraryWhole'
  BY <1>2, <1>3 DEF Solo, MarkedWhole, LibraryWhole, Whole
<1> QED
  BY <1>1, <1>4, <1>5, <1>6, AloneStep

LEMMA SoloWalks ==
  ASSUME Inv, Solo, limit = 1, NEW p \in Process,
         \/ Check(p) \/ PrepareFails(p) \/ Acquire(p) \/ Wait(p) \/ Link(p)
         \/ LinkFails(p) \/ Diagnose(p) \/ Rebuild(p)
  PROVE  Solo'
<1>1. PICK place \in AtRest \cup Working :
        /\ Goto(p, place)
        /\ place \in {"read"} => ~Fresh
        /\ place \notin Unpacking /\ place # "save"
        /\ place = "compile" => Rebuild(p)
        /\ place \in Ninja => UNCHANGED seen /\ pc[p] \notin {"compile", "save"}
  <2>1. CASE Check(p) \/ PrepareFails(p) \/ Wait(p)
    BY <2>1 DEF Check, PrepareFails, Wait, AtRest, Working, Unpacking, Ninja
  <2>2. CASE Acquire(p)
    BY <2>2 DEF Acquire, AtRest, Working, Unpacking, Ninja
  <2>3. CASE Link(p) \/ LinkFails(p)
    BY <2>3 DEF Link, LinkFails, AtRest, Working, Unpacking, Ninja
  <2>4. CASE Diagnose(p) \/ Rebuild(p)
    BY <2>4 DEF Diagnose, Rebuild, AtRest, Working, Unpacking, Ninja, local
  <2> QED
    BY <2>1, <2>2, <2>3, <2>4
<1>2. UNCHANGED disk /\ pc[p] \in Working
  BY DEF Check, PrepareFails, Acquire, Wait, Link, LinkFails, Diagnose, Rebuild,
         Working, Unpacking, Ninja
<1>3. ASSUME Rebuild(p) PROVE dirty
  <2>1. Fresh /\ (dirty \/ library = None)
    BY <1>3 DEF Rebuild, Inv, PastInv, Past, Ninja
  <2>2. dirty \/ library \in [File -> Version]
    BY <2>1 DEF Solo, LibraryWhole, Whole, Inv, Types
  <2> QED
    BY <2>1, <2>2, ValuesAssumption
<1>4. seen[p] = [f \in DOMAIN seen[p] |-> blob]
  <2>1. CASE pc[p] \in Ninja
    BY <2>1 DEF Solo, BuildsAt
  <2>2. CASE pc[p] \notin Ninja
    BY <2>2 DEF Inv, NinjaInv, NinjaAt
  <2> QED
    BY <2>1, <2>2
<1> QED
  BY <1>1, <1>2, <1>3, <1>4, SoloWalk

LEMMA SoloUnpack ==
  ASSUME Inv, Solo, limit = 1, NEW p \in Process,
         \/ Read(p) \/ Close(p) \/ Mark(p)
         \/ \E f \in File : Open(p, f)
  PROVE  Solo'
<1>0. Types /\ GuardedAt(p) /\ BuildsAt(p) /\ MarkedWhole /\ LibraryWhole
  BY DEF Inv, Solo
<1>1. pc[p] \in Working /\ \A q \in Process \ {p} : pc'[q] = pc[q]
  BY <1>0 DEF Read, Close, Mark, Open, Goto, Types, Working, Unpacking
<1>2. CASE Read(p)
  <2>1. /\ pc[p] = "read" /\ pc'[p] = "extract" /\ todo'[p] = File
        /\ UNCHANGED <<blob, marker, tree, library, dirty>>
    BY <1>0, <1>2 DEF Read, Goto, Types, disk, built
  <2> QED
    BY <1>0, <1>1, <2>1, AloneStep
       DEF GuardedAt, BuildsAt, MarkedWhole, LibraryWhole, Whole, Fresh,
           Unpacking, Ninja
<1>3. ASSUME NEW f \in File, Open(p, f) PROVE Solo'
  <2>1. /\ pc[p] = "extract" /\ pc'[p] = "write" /\ at'[p] = f
        /\ todo'[p] = todo[p] \ {f}
        /\ \A g \in File \ {f} : tree'[g] = tree[g]
        /\ blob' = blob /\ marker' = marker /\ dirty' = TRUE
    BY <1>0, <1>3 DEF Open, Goto, Types
  <2> QED
    BY <1>0, <1>1, <2>1, AloneStep
       DEF GuardedAt, BuildsAt, MarkedWhole, LibraryWhole, Fresh, Unpacking, Ninja
<1>4. CASE Close(p)
  <2>1. \A q \in Process \ {p} : at[q] = None
    BY <1>1 DEF Solo, Alone, Inv, UnpackingInv, Working, Unpacking
  <2>2. at[p] \in File /\ payload[p] = blob
    BY <1>4 DEF Close, Inv, UnpackingInv, Unpacked, Unpacking
  <2>3. tree' = [tree EXCEPT ![at[p]] = blob]
    BY <1>4, <2>1, <2>2, FileAssumption DEF Close
  <2>4. /\ pc[p] = "write" /\ pc'[p] = IF todo[p] = {} THEN "mark" ELSE "extract"
        /\ todo' = todo /\ tree'[at[p]] = blob
        /\ \A g \in File \ {at[p]} : tree'[g] = tree[g]
        /\ blob' = blob /\ marker' = marker /\ dirty' = TRUE
    BY <1>0, <1>4, <2>2, <2>3 DEF Close, Goto, Types
  <2>5. ~Fresh /\ ~Fresh'
    BY <1>0, <2>4 DEF GuardedAt, Unpacking, Fresh
  <2>6. \A f \in File \ todo'[p] : tree'[f] = blob'
    BY <1>0, <2>4 DEF GuardedAt, Unpacking
  <2>7. GuardedAt(p)'
    BY <2>5, <2>6 DEF GuardedAt
  <2>8. BuildsAt(p)'
    BY <2>4 DEF BuildsAt, Unpacking, Ninja
  <2> QED
    BY <1>1, <2>5, <2>7, <2>8, AloneStep DEF MarkedWhole, LibraryWhole
<1>5. CASE Mark(p)
  <2>1. /\ pc[p] = "mark" /\ pc'[p] = "acquire" /\ todo[p] = {}
        /\ tree' = tree /\ blob' = blob /\ dirty' = dirty
    BY <1>0, <1>5 DEF Mark, built, Goto, Types, Inv, UnpackingInv
  <2>2. dirty
    BY <1>0, <2>1, FileAssumption DEF BuildsAt, Unpacking
  <2> QED
    BY <1>0, <1>1, <2>1, <2>2, AloneStep
       DEF GuardedAt, BuildsAt, MarkedWhole, LibraryWhole, Unpacking, Ninja
<1> QED
  BY <1>2, <1>3, <1>4, <1>5

\* The steps of ninja leave the headers and their marker.
LEMMA SoloNinja ==
  ASSUME Inv, Solo, limit = 1, NEW p \in Process,
         \/ NothingToDo(p) \/ CreateLibrary(p) \/ SaveLibrary(p) \/ BuildFails(p)
         \/ \E f \in File : Compile(p, f)
  PROVE  Solo'
<1>0. Types /\ BuildsAt(p) /\ MarkedWhole /\ LibraryWhole
  BY DEF Inv, Solo
<1>1. pc[p] \in Ninja /\ UNCHANGED <<blob, marker, tree>>
  BY DEF NothingToDo, CreateLibrary, SaveLibrary, BuildFails, Compile, disk, Ninja
<1>2. pc[p] \in Working /\ \A q \in Process \ {p} : pc'[q] = pc[q]
  BY <1>0, <1>1 DEF NothingToDo, CreateLibrary, SaveLibrary, BuildFails,
                    Compile, Done, Goto, Types, Working
<1>3. Fresh /\ Fresh' = Fresh
  BY <1>1 DEF Inv, PastInv, Past, Fresh
<1>4. pc'[p] \notin {"read"} \cup Unpacking
  BY <1>0, <1>1 DEF NothingToDo, CreateLibrary, SaveLibrary, BuildFails,
                    Compile, Done, Goto, Types, Ninja, Unpacking
<1>5. GuardedAt(p)' /\ MarkedWhole'
  BY <1>0, <1>1, <1>3, <1>4 DEF GuardedAt, MarkedWhole
<1>6. CASE NothingToDo(p)
  <2>1. /\ UNCHANGED <<library, dirty>> /\ pc'[p] \in {"link", "failed"}
    BY <1>0, <1>6 DEF NothingToDo, Done, Goto, Types, disk, built
  <2> QED
    BY <1>0, <1>1, <1>2, <1>3, <1>4, <1>5, <2>1, AloneStep
       DEF BuildsAt, LibraryWhole, Whole, Ninja
<1>7. ASSUME NEW f \in File, Compile(p, f) PROVE Solo'
  <2>1. /\ pc[p] = "compile" /\ pc' = pc
        /\ UNCHANGED <<library, dirty>> /\ tree[f] = blob
        /\ seen'[p] = [g \in DOMAIN seen[p] \cup {f} |->
                         IF g = f THEN blob ELSE seen[p][g]]
    BY <1>0, <1>3, <1>7 DEF Compile, disk, built, MarkedWhole, Types
  <2>2. seen[p] = [g \in DOMAIN seen[p] |-> blob]
    BY <1>0, <1>1 DEF BuildsAt
  <2>3. \A g \in DOMAIN seen[p] : seen[p][g] = blob
    BY <2>2
  <2>4. seen'[p] = [g \in DOMAIN seen'[p] |-> blob]
    BY <2>1, <2>3
  <2>5. BuildsAt(p)'
    BY <1>0, <1>1, <1>4, <2>1, <2>4 DEF BuildsAt
  <2> QED
    BY <1>0, <1>1, <1>2, <1>3, <1>5, <2>1, <2>5, AloneStep
       DEF LibraryWhole, Whole
<1>8. CASE CreateLibrary(p)
  <2>1. /\ pc[p] = "compile" /\ pc'[p] = "save" /\ writer' = p
        /\ UNCHANGED <<dirty, seen>>
    BY <1>0, <1>8 DEF CreateLibrary, Goto, Types, local
  <2> QED
    BY <1>0, <1>1, <1>2, <1>4, <1>5, <2>1, AloneStep
       DEF BuildsAt, LibraryWhole
<1>9. CASE SaveLibrary(p)
  <2>1. /\ pc[p] = "save" /\ writer = p /\ library' = seen[p]
        /\ pc'[p] \in {"link", "failed"}
    BY <1>0, <1>9 DEF SaveLibrary, Done, Goto, Types, BuildsAt
  <2>2. Whole(library', blob) /\ blob' = blob
    BY <1>0, <1>1, <2>1 DEF BuildsAt, Whole, Inv, NinjaInv, NinjaAt
  <2>3. LibraryWhole'
    BY <2>2 DEF LibraryWhole, Whole
  <2>4. BuildsAt(p)'
    BY <1>4, <2>1 DEF BuildsAt, Ninja
  <2> QED
    BY <1>2, <1>5, <2>3, <2>4, AloneStep
<1>10. CASE BuildFails(p)
  <2>1. /\ pc'[p] \in {"diagnose", "failed"} /\ dirty' = dirty
        /\ library' = library \/ pc[p] = "save"
    BY <1>0, <1>10 DEF BuildFails, Goto, Types
  <2>2. LibraryWhole'
    BY <1>0, <1>1, <1>3, <2>1 DEF BuildsAt, LibraryWhole, Whole
  <2>3. BuildsAt(p)'
    BY <1>4, <2>1 DEF BuildsAt, Ninja
  <2> QED
    BY <1>2, <1>5, <2>2, <2>3, AloneStep
<1> QED
  BY <1>6, <1>7, <1>8, <1>9, <1>10

LEMMA SoloNext == Inv /\ Solo /\ [Next]_vars => Solo'
<1> SUFFICES ASSUME Inv, Solo, [Next]_vars, limit = 1 PROVE Solo'
  <2>1. limit' = limit \/ ~[Next]_vars
    BY DEF Next, vars, Publish, Call, Crash, Step, Check, Read, Open, Close,
           Mark, PrepareFails, Acquire, Wait, Link, LinkFails, Diagnose,
           NothingToDo, Rebuild, Compile, CreateLibrary, SaveLibrary,
           BuildFails, env
  <2> QED
    BY <2>1 DEF Solo
<1>0. Types
  BY DEF Inv
<1>1. CASE Publish
  <2>1. \A p \in Process : pc'[p] \notin Working
    BY <1>1 DEF Publish, Loading
  <2>2. ~Fresh'
    BY <1>0, <1>1, BoundsAssumption, ValuesAssumption
       DEF Publish, Fresh, Types, Version
  <2> QED
    BY <2>1, <2>2 DEF Solo, Alone, GuardedAt, BuildsAt, MarkedWhole,
                      LibraryWhole, Working, Unpacking, Ninja
<1>2. ASSUME NEW p \in Process, Call(p) PROVE Solo'
  <2>1. Loading \subseteq Process /\ IsFiniteSet(Loading)
    BY BoundsAssumption, FS_Subset DEF Loading
  <2>2. Cardinality(Loading) \in Nat /\ Cardinality(Loading) < 1
    BY <1>2, <2>1, FS_CardinalityType DEF Call
  <2>3. Loading = {}
    BY <2>1, <2>2, FS_EmptySet
  <2>4. /\ \A q \in Process : pc[q] \notin Working
        /\ \A q \in Process : pc'[q] = IF q = p THEN "check" ELSE pc[q]
        /\ UNCHANGED <<blob, marker, tree, library, dirty>>
    BY <1>0, <1>2, <2>3 DEF Loading, Call, Goto, Types, disk, built
  <2>5. Alone' /\ \A q \in Process : GuardedAt(q)' /\ BuildsAt(q)'
    BY <2>4 DEF Alone, GuardedAt, BuildsAt, Working, Unpacking, Ninja
  <2>6. MarkedWhole' /\ LibraryWhole'
    BY <2>4 DEF Solo, MarkedWhole, LibraryWhole, Whole, Fresh
  <2> QED
    BY <2>5, <2>6 DEF Solo
<1>3. ASSUME NEW p \in Process, Crash(p) PROVE Solo'
  <2>1. /\ \A q \in Process \ {p} : /\ pc'[q] = pc[q]
                                    /\ todo'[q] = todo[q]
                                    /\ at'[q] = at[q]
                                    /\ seen'[q] = seen[q]
                                    /\ writer = q => writer' = q
        /\ pc'[p] = "out"
        /\ UNCHANGED <<blob, marker, tree, library, dirty>>
    BY <1>0, <1>3 DEF Crash, Goto, Types
  <2>2. Alone'
    BY <2>1 DEF Solo, Alone, Working, Unpacking, Ninja
  <2>3. ASSUME NEW q \in Process PROVE GuardedAt(q)' /\ BuildsAt(q)'
    <3>1. CASE q = p
      BY <2>1, <3>1 DEF GuardedAt, BuildsAt, Unpacking, Ninja
    <3>2. CASE q # p
      <4>1. GuardedAt(q) /\ BuildsAt(q)
        BY DEF Solo
      <4>2. GuardedAt(q)'
        BY <2>1, <3>2, <4>1 DEF GuardedAt, Fresh
      <4>3. BuildsAt(q)'
        BY <2>1, <3>2, <4>1 DEF BuildsAt
      <4> QED
        BY <4>2, <4>3
    <3> QED
      BY <3>1, <3>2
  <2>4. MarkedWhole' /\ LibraryWhole'
    BY <2>1 DEF Solo, MarkedWhole, LibraryWhole, Whole, Fresh
  <2> QED
    BY <2>2, <2>3, <2>4 DEF Solo
<1>4. ASSUME NEW p \in Process, Step(p) PROVE Solo'
  BY <1>4, SoloWalks, SoloUnpack, SoloNinja DEF Step
<1>5. CASE UNCHANGED vars
  <2>1. UNCHANGED <<blob, marker, tree, library, dirty, writer, pc, todo, at, seen>>
    BY <1>5 DEF vars, disk, built, local
  <2>2. Alone' /\ MarkedWhole' /\ LibraryWhole'
    BY <2>1 DEF Solo, Alone, MarkedWhole, LibraryWhole, Whole, Fresh
  <2>3. ASSUME NEW q \in Process PROVE GuardedAt(q)' /\ BuildsAt(q)'
    <3>1. GuardedAt(q) /\ BuildsAt(q)
      BY DEF Solo
    <3>2. GuardedAt(q)'
      BY <2>1, <3>1 DEF GuardedAt, Fresh
    <3>3. BuildsAt(q)'
      BY <2>1, <3>1 DEF BuildsAt
    <3> QED
      BY <3>2, <3>3
  <2> QED
    BY <2>2, <2>3 DEF Solo
<1> QED
  BY <1>1, <1>2, <1>3, <1>4, <1>5 DEF Next

\* Where one load runs at a time, ninja ends well with the whole library.
LEMMA DoneWhole ==
  ASSUME Inv, Solo, limit = 1, NEW p \in Process,
         NothingToDo(p) \/ SaveLibrary(p)
  PROVE  Whole(library', blob)
<1>1. CASE NothingToDo(p)
  <2>1. Fresh /\ ~dirty /\ library' = library
    BY <1>1 DEF NothingToDo, Inv, PastInv, Past, Ninja, disk, built
  <2> QED
    BY <2>1 DEF Solo, LibraryWhole, Whole
<1>2. CASE SaveLibrary(p)
  <2>1. pc[p] = "save" /\ writer = p /\ library' = seen[p]
    BY <1>2 DEF SaveLibrary, Solo, BuildsAt
  <2>2. DOMAIN seen[p] = File /\ seen[p] = [f \in DOMAIN seen[p] |-> blob]
    BY <2>1 DEF Inv, NinjaInv, NinjaAt, Solo, BuildsAt, Ninja
  <2> QED
    BY <2>1, <2>2 DEF Whole
<1> QED
  BY <1>1, <1>2

\* However many loads overlap, die, fail or rebuild outside torch's lock, and
\* however many archives are installed one after another, what torch built or
\* found up to date has nothing of an earlier archive; with one load at a time
\* it is the whole operator of the installed one (load_sm75_backend).
THEOREM BuildsAreCurrent == Spec => BuiltFromCurrent
<1>1. ASSUME Inv, Solo, [Next]_vars
      PROVE  \A p \in Process :
               pc[p] \in Ninja /\ pc'[p] = "link" =>
                 /\ NothingOlder(library')
                 /\ limit = 1 => Whole(library', blob)
  <2> SUFFICES ASSUME NEW p \in Process, pc[p] \in Ninja, pc'[p] = "link"
               PROVE  /\ NothingOlder(library')
                      /\ limit = 1 => Whole(library', blob)
    OBVIOUS
  <2>1. Next
    BY <1>1 DEF vars, Ninja
  <2>2. NothingToDo(p) \/ SaveLibrary(p)
    BY <1>1, <2>1, OnlyDone DEF Inv
  <2> QED
    BY <1>1, <2>2, DoneCurrent, DoneWhole
<1> QED
  BY <1>1, Invariance, SoloInit, SoloNext, PTL DEF Spec, BuiltFromCurrent

\* Where loads run one at a time, a marker that is up to date stands for the
\* whole current archive, whatever crashed or failed before
\* (load_sm75_backend).
THEOREM MarkerIsHonest == Spec => []MarkedTreeWhole
<1>1. Types /\ Solo => MarkedTreeWhole
  BY DEF Types, Solo, MarkedWhole, MarkedTreeWhole, Whole
<1>2. Inv => Types
  BY DEF Inv
<1> QED
  BY <1>1, <1>2, SoloInit, SoloNext, Invariance, PTL DEF Spec
===============================================================================
