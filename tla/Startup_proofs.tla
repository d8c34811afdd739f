---------------------------- MODULE Startup_proofs ----------------------------
(***************************************************************************)
(* Startup, for every capacity, every denylist file up to any length and   *)
(* both constants of the code (100 clients, tenths): which processes come  *)
(* to serve, with what denylist, and which ones panic on the way.          *)
(***************************************************************************)
EXTENDS Startup, FiniteSetTheorems, TLAPS

-----------------------------------------------------------------------------
(* The inductive invariant: both scans have met, at every line, exactly    *)
(* the entries of the lines before it.                                     *)

\* The entries among the first n lines.
EntriesIn(n) == {k \in 1 .. n : file[k] = Line}
Met(n) == Cardinality(EntriesIn(n))

BeforeDenylist == {"config", "spec", "pool", "denylist"}
Scanning == {"count", "rewind", "load", "close"}
Loaded == {"loaded", "host", "serving"}

\* What the configuration must be to have come this far.
ConfigInv ==
  /\ stage \in {"spec", "pool"} => capacity > 0
  /\ stage \in Scanning => file # NoFile

\* Where the scans of the file are.
ScanInv ==
  /\ stage \in BeforeDenylist => pos = 0 /\ totalEntries = 0 /\ deniedTokens = Nil
  /\ stage \in BeforeDenylist \cup {"count", "rewind"} => numOfElements = 0 /\ reported = 0
  /\ stage = "count" => pos <= Len(file) /\ totalEntries = Met(pos)
  /\ stage = "load" => pos <= Len(file) /\ numOfElements + reported = Met(pos)
  /\ stage \in {"rewind", "load"} => totalEntries = Met(Len(file))
  /\ stage = "load" => totalEntries > 0

\* What is known when they have ended.
LoadedInv ==
  /\ stage = "close" \/ (stage \in Loaded /\ file # NoFile) =>
       /\ totalEntries = Met(Len(file)) /\ totalEntries > 0
       /\ numOfElements + reported = totalEntries
  /\ stage \in Loaded => deniedTokens = IF file = NoFile THEN Nil ELSE totalEntries
  /\ stage \in {"host", "serving"} => deniedTokens # Nil

\* A panic is the nil pointer of no file or the modulus of a short one.
PanicInv ==
  stage = "panicked" /\ file # NoFile => totalEntries = Met(Len(file)) /\ totalEntries < Tenths

CountInv == numOfElements + reported <= totalEntries

IInv == TypeOK /\ CountInv /\ ConfigInv /\ ScanInv /\ LoadedInv /\ PanicInv

-----------------------------------------------------------------------------
(* Files and what is met in them *)

\* What a denylist file is: a sequence of at most MaxLines lines.
LEMMA FileFacts ==
  ASSUME file \in Files
  PROVE  /\ Len(file) \in 0 .. MaxLines
         /\ DOMAIN file = 1 .. Len(file)
         /\ \A k \in 1 .. Len(file) : file[k] \in {Line, Empty}
<1>1. PICK n \in 0 .. MaxLines : file \in [1 .. n -> {Line, Empty}]
  BY DEF Files
<1>2. n \in Nat
  BY StartupAssumption
<1>3. file \in Seq({Line, Empty}) /\ Len(file) = n
  BY <1>1, <1>2
<1> QED BY <1>1, <1>3

\* What is met is counted, and never more than the lines there are.
LEMMA MetType ==
  ASSUME NEW n \in Nat
  PROVE  Met(n) \in Nat /\ Met(n) <= n /\ IsFiniteSet(EntriesIn(n))
<1>1. IsFiniteSet(1 .. n) /\ Cardinality(1 .. n) = n
  BY FS_Interval
<1>2. EntriesIn(n) \in SUBSET (1 .. n)
  BY DEF EntriesIn
<1>3. IsFiniteSet(EntriesIn(n)) /\ Cardinality(EntriesIn(n)) <= n
  BY <1>1, <1>2, FS_Subset
<1> QED BY <1>3, FS_CardinalityType DEF Met

\* Before the first line nothing has been met.
LEMMA MetNone == Met(0) = 0
<1>1. EntriesIn(0) = {}
  BY DEF EntriesIn
<1> QED BY <1>1, FS_EmptySet DEF Met

\* One more line is one more entry, unless the line is none.
LEMMA MetNext ==
  ASSUME NEW n \in Nat
  PROVE  Met(n + 1) = IF file[n + 1] = Line THEN Met(n) + 1 ELSE Met(n)
<1>1. CASE file[n + 1] = Line
  <2>1. EntriesIn(n + 1) = EntriesIn(n) \cup {n + 1} /\ n + 1 \notin EntriesIn(n)
    BY <1>1 DEF EntriesIn
  <2> QED BY <1>1, <2>1, MetType, FS_AddElement DEF Met
<1>2. CASE file[n + 1] # Line
  <2>1. EntriesIn(n + 1) = EntriesIn(n)
    BY <1>2 DEF EntriesIn
  <2> QED BY <1>2, <2>1 DEF Met
<1> QED BY <1>1, <1>2

\* More lines are no fewer entries.
LEMMA MetGrows ==
  ASSUME NEW m \in Nat, NEW n \in Nat, m <= n
  PROVE  Met(m) <= Met(n)
<1>1. EntriesIn(m) \in SUBSET EntriesIn(n)
  BY DEF EntriesIn
<1> QED BY <1>1, MetType, FS_Subset DEF Met

-----------------------------------------------------------------------------
(* The invariant is inductive *)

LEMMA InitIInv == Init => IInv
<1> SUFFICES ASSUME Init PROVE IInv
  OBVIOUS
<1>1. TypeOK
  BY StartupAssumption DEF Init, TypeOK, Stages, Nil
<1> QED
  BY <1>1 DEF Init, IInv, CountInv, ConfigInv, ScanInv, LoadedInv, PanicInv, BeforeDenylist,
              Scanning, Loaded

USE DEF configVars, loadVars, Goto

\* The steps up to the denylist and after it, which read no line.
LEMMA PlainSteps ==
  ASSUME IInv,
         \/ Fail \/ ParseConfig \/ LoadSpec \/ NewPool \/ OpenDenylist
         \/ LogLoaded \/ Listen
  PROVE  IInv'
<1> USE StartupAssumption
    DEF IInv, TypeOK, CountInv, ConfigInv, ScanInv, LoadedInv, PanicInv, BeforeDenylist,
        Scanning, Loaded, Stages, Nil, EntriesIn, Met
<1>1. CASE Fail
  BY <1>1 DEF Fail
<1>2. CASE ParseConfig \/ LoadSpec
  BY <1>2 DEF ParseConfig, LoadSpec
<1>3. CASE NewPool
  BY <1>3 DEF NewPool, initialCap
<1>4. CASE OpenDenylist
  <2>1. CASE file = NoFile
    BY <1>4, <2>1 DEF OpenDenylist
  <2>2. CASE file # NoFile
    <3>1. 0 <= Len(file) /\ Met(0) = 0
      BY <2>2, FileFacts, MetNone
    <3> QED BY <1>4, <2>2, <3>1 DEF OpenDenylist
  <2> QED BY <2>1, <2>2
<1>5. CASE LogLoaded
  <2>1. stage' \in {"panicked", "host"} /\ stage = "loaded"
    BY <1>5 DEF LogLoaded
  <2>2. stage' = "panicked" => file = NoFile
    BY <1>5 DEF LogLoaded
  <2>3. stage' = "host" => deniedTokens # Nil
    BY <1>5 DEF LogLoaded
  <2>4. UNCHANGED <<configVars, pooled, loadVars, deniedTokens>>
    BY <1>5 DEF LogLoaded
  <2> QED BY <2>1, <2>2, <2>3, <2>4
<1>6. CASE Listen
  BY <1>6 DEF Listen
<1> QED BY <1>1, <1>2, <1>3, <1>4, <1>5, <1>6

\* A line of the first scan.
LEMMA CountLineStep == IInv /\ CountLine => IInv'
<1> SUFFICES ASSUME IInv, CountLine PROVE IInv'
  OBVIOUS
<1>1. /\ stage = "count" /\ stage' = stage /\ file \in Files /\ file' = file
      /\ pos \in Nat /\ pos < Len(file) /\ pos' = pos + 1
      /\ totalEntries = Met(pos)
      /\ numOfElements' = 0 /\ reported' = 0 /\ numOfElements = 0 /\ reported = 0
      /\ UNCHANGED <<capacity, pooled, deniedTokens>>
  BY StartupAssumption
  DEF CountLine, More, IInv, TypeOK, ConfigInv, ScanInv, Scanning
<1>2. Len(file) \in 0 .. MaxLines /\ file[pos + 1] \in {Line, Empty} /\ pos + 1 \in Nat
  BY <1>1, FileFacts
<1>3. totalEntries' = Met(pos + 1)
  BY <1>1, <1>2, MetNext, StartupAssumption DEF CountLine, Current
<1>4. totalEntries' \in Nat /\ totalEntries' <= pos + 1
  BY <1>2, <1>3, MetType
<1>5. totalEntries' = Met(pos)'
  BY <1>1, <1>3 DEF Met, EntriesIn
<1> QED
  BY <1>1, <1>2, <1>4, <1>5, StartupAssumption
  DEF IInv, TypeOK, CountInv, ConfigInv, ScanInv, LoadedInv, PanicInv, BeforeDenylist,
      Scanning, Loaded

\* The first scan ends, the file is rewound.
LEMMA RewindStep == IInv /\ (CountDone \/ Rewind) => IInv'
<1> SUFFICES ASSUME IInv, CountDone \/ Rewind PROVE IInv'
  OBVIOUS
<1> USE StartupAssumption
    DEF IInv, TypeOK, CountInv, ConfigInv, ScanInv, LoadedInv, PanicInv, BeforeDenylist,
        Scanning, Loaded, Stages
<1>1. file \in Files /\ Len(file) \in 0 .. MaxLines /\ Len(file') = Len(file)
  BY FileFacts DEF CountDone, Rewind
<1>2. Met(0) = 0 /\ Met(0)' = 0 /\ Met(Len(file))' = Met(Len(file))
  <2>1. file' = file
    BY DEF CountDone, Rewind
  <2> QED BY <2>1, MetNone DEF Met, EntriesIn
<1>3. CASE CountDone
  <2>1. pos = Len(file)
    BY <1>1, <1>3 DEF CountDone, More
  <2> QED BY <1>1, <1>2, <1>3, <2>1 DEF CountDone
<1>4. CASE Rewind
  BY <1>1, <1>2, <1>4 DEF Rewind
<1> QED BY <1>3, <1>4

\* A line of the second scan, and its end.
LEMMA LoadStep == IInv /\ (LoadToken \/ RefuseToken \/ SkipLine \/ LoadDone) => IInv'
<1> SUFFICES ASSUME IInv, LoadToken \/ RefuseToken \/ SkipLine \/ LoadDone PROVE IInv'
  OBVIOUS
<1>1. /\ stage = "load" /\ file \in Files /\ file' = file /\ file # NoFile
      /\ pos \in Nat /\ pos <= Len(file)
      /\ numOfElements \in Nat /\ reported \in Nat /\ totalEntries \in Nat
      /\ numOfElements + reported = Met(pos)
      /\ totalEntries = Met(Len(file)) /\ totalEntries > 0 /\ totalEntries <= MaxLines
      /\ UNCHANGED <<capacity, pooled, deniedTokens, totalEntries>>
  BY StartupAssumption
  DEF LoadToken, RefuseToken, SkipLine, LoadDone, IInv, TypeOK, ConfigInv, ScanInv, Scanning
<1>2. /\ Len(file) \in 0 .. MaxLines /\ Len(file) \in Nat
      /\ pos < Len(file) => file[pos + 1] \in {Line, Empty}
  BY <1>1, FileFacts, StartupAssumption
<1>3. Met(pos)' = IF pos' = pos THEN Met(pos) ELSE Met(pos')
  BY <1>1 DEF Met, EntriesIn
<1>4. Met(Len(file))' = Met(Len(file))
  BY <1>1 DEF Met, EntriesIn
<1>5. CASE LoadDone
  <2>1. pos = Len(file)
    BY <1>1, <1>2, <1>5 DEF LoadDone, More
  <2> QED
    BY <1>1, <1>2, <1>4, <1>5, <2>1
    DEF LoadDone, IInv, TypeOK, CountInv, ConfigInv, ScanInv, LoadedInv, PanicInv,
        BeforeDenylist, Scanning, Loaded, Stages
<1>6. CASE LoadToken \/ RefuseToken \/ SkipLine
  <2>1. /\ pos < Len(file) /\ pos' = pos + 1 /\ pos + 1 \in Nat
        /\ numOfElements' \in {numOfElements, numOfElements + 1}
        /\ reported' \in {reported, reported + 1}
    BY <1>1, <1>6 DEF LoadToken, RefuseToken, SkipLine, More
  <2>2. numOfElements' + reported' = Met(pos + 1)
    <3>1. Met(pos + 1) = IF Current = Line THEN Met(pos) + 1 ELSE Met(pos)
      BY <1>1, MetNext DEF Current
    <3>2. Current # Empty <=> Current = Line
      BY <1>2, <2>1, StartupAssumption DEF Current
    <3>3. CASE LoadToken
      BY <1>1, <3>1, <3>2, <3>3 DEF LoadToken
    <3>4. CASE RefuseToken
      BY <1>1, <3>1, <3>2, <3>4 DEF RefuseToken
    <3>5. CASE SkipLine
      BY <1>1, <3>1, <3>2, <3>5 DEF SkipLine
    <3> QED BY <1>6, <3>3, <3>4, <3>5
  <2>3. Met(pos + 1) <= totalEntries
    BY <1>1, <1>2, <2>1, MetGrows
  <2>4. Met(pos)' = Met(pos + 1)
    BY <1>1, <2>1 DEF Met, EntriesIn
  <2>5. /\ numOfElements' \in 0 .. totalEntries /\ reported' \in 0 .. totalEntries
        /\ numOfElements' + reported' <= totalEntries
    BY <1>1, <2>1, <2>2, <2>3
  <2>6. stage' \in {"load", "panicked"} /\ (stage' = "panicked" => totalEntries < Tenths)
    <3>1. totalEntries \div Tenths = 0 => totalEntries < Tenths
      BY <1>1, StartupAssumption
    <3> QED BY <1>1, <1>6, <3>1 DEF LoadToken, RefuseToken, SkipLine
  <2>7. TypeOK' /\ CountInv'
    BY <1>1, <1>2, <2>1, <2>5, <2>6, StartupAssumption DEF IInv, TypeOK, CountInv, Stages
  <2>8. ConfigInv' /\ ScanInv'
    BY <1>1, <1>2, <1>4, <2>1, <2>2, <2>4, <2>6
    DEF ConfigInv, ScanInv, BeforeDenylist, Scanning
  <2>9. LoadedInv' /\ PanicInv'
    BY <1>1, <1>4, <2>6 DEF LoadedInv, PanicInv, Loaded
  <2> QED BY <2>7, <2>8, <2>9 DEF IInv
<1> QED BY <1>5, <1>6

LEMMA CloseFileStep == IInv /\ CloseFile => IInv'
<1> SUFFICES ASSUME IInv, CloseFile PROVE IInv'
  OBVIOUS
<1>1. Met(Len(file))' = Met(Len(file))
  BY DEF CloseFile, Met, EntriesIn
<1> QED
  BY <1>1, StartupAssumption
  DEF CloseFile, IInv, TypeOK, CountInv, ConfigInv, ScanInv, LoadedInv, PanicInv,
      BeforeDenylist, Scanning, Loaded, Stages, Nil

LEMMA IInvStep == IInv /\ [Next]_vars => IInv'
<1>1. ASSUME IInv, UNCHANGED vars PROVE IInv'
  BY <1>1
  DEF vars, IInv, TypeOK, CountInv, ConfigInv, ScanInv, LoadedInv, PanicInv, Met, EntriesIn
<1> QED
  BY <1>1, PlainSteps, CountLineStep, RewindStep, LoadStep, CloseFileStep DEF Next, Done

LEMMA Invariance == Spec => []IInv
<1> QED BY InitIInv, IInvStep, PTL DEF Spec

-----------------------------------------------------------------------------
(* The properties of Startup *)

\* Every variable of run() and denylist.New keeps to its values.
THEOREM TypeCorrect == Spec => []TypeOK
<1>1. IInv => TypeOK
  BY DEF IInv
<1> QED BY <1>1, Invariance, PTL

\* Two scans of the file with a rewind between them offer every entry to the cache
\* once: a process that serves has all of its denylist, or has logged what it has not.
THEOREM DenylistIsComplete == Spec => []EveryEntryOffered
<1>1. IInv => EveryEntryOffered
  <2> SUFFICES ASSUME IInv, stage = "serving", file # NoFile
               PROVE  numOfElements + reported = Entries /\ deniedTokens = Entries
    BY DEF EveryEntryOffered
  <2>1. DOMAIN file = 1 .. Len(file)
    BY FileFacts DEF IInv, TypeOK
  <2>2. Entries = Met(Len(file))
    BY <2>1 DEF Entries, Met, EntriesIn
  <2> QED BY <2>2 DEF IInv, LoadedInv, Loaded
<1> QED BY <1>1, Invariance, PTL

\* The two branches of main.go around 100 clients never ask NewChanPool for more
\* clients than the validated capacity.
THEOREM CapacityIsAccepted == Spec => []CapacityAccepted
<1>1. IInv => CapacityAccepted
  BY StartupAssumption DEF IInv, TypeOK, ConfigInv, CapacityAccepted, initialCap
<1> QED BY <1>1, Invariance, PTL

\* No process serves without a denylist: with no file, the log line after denylist.New
\* (a nil *DeniedTokens) is as far as it gets; with a file, mid.Denylist has an entry
\* to look up.
ServesOnlyWithDenylist == stage = "serving" => file # NoFile /\ deniedTokens > 0

THEOREM NoServiceWithoutDenylist == Spec => []ServesOnlyWithDenylist
<1>1. IInv => ServesOnlyWithDenylist
  BY DEF IInv, TypeOK, LoadedInv, Loaded, ServesOnlyWithDenylist, Nil
<1> QED BY <1>1, Invariance, PTL

\* The start of the process panics for two reasons only: no denylist file, or a file
\* with fewer entries than denylist.go's totalEntries10P divides by.
PanicsAreKnown == stage = "panicked" => file = NoFile \/ Entries < Tenths

THEOREM OnlyKnownPanics == Spec => []PanicsAreKnown
<1>1. IInv => PanicsAreKnown
  <2> SUFFICES ASSUME IInv, stage = "panicked", file # NoFile PROVE Entries < Tenths
    BY DEF PanicsAreKnown
  <2>1. DOMAIN file = 1 .. Len(file)
    BY FileFacts DEF IInv, TypeOK
  <2>2. Entries = Met(Len(file))
    BY <2>1 DEF Entries, Met, EntriesIn
  <2> QED BY <2>2 DEF IInv, PanicInv
<1> QED BY <1>1, Invariance, PTL

==============================================================================
